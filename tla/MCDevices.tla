----------------------------- MODULE MCDevices -----------------------------
(* An instance of Devices for TLC.                                         *)
EXTENDS Devices

MCChips == [port : {0, 46, 78}, id : {"4d00", "4d01", "2d00"}]

(* BUTTERFLY_EC_CMD_TIMEOUT is 500 ms.                                     *)
MCTimeouts == {[s |-> 0, us |-> SEC \div 2]}

Table(types, lengths) ==
  [type : types, length : lengths, strings : {<<>>, <<1>>, <<2, 1>>}]
MCLists ==
  {<<a>> : a \in Table({1, 2}, {4, 5})}
    \cup {<<a, b>> : a \in Table({1, 2}, {4}), b \in Table({1, 2}, {5})}
    \cup {<<a, b, c>> : a \in Table({1, 2}, {5}), b \in Table({1}, {4}),
                        c \in Table({1}, {4})}

DigitsOf(n) == <<n \div 1000, (n \div 100) % 10, (n \div 10) % 10, n % 10>>
MCWirings ==
  [board : {"Snow"}, pins : [1 .. 2 -> LevelsWired], pull : Pulls]
    \cup [board : {"Spring", "Skate"},
          pins : {<<2, 1, 2>>, <<0, 0, 0>>, <<1, 2, 2>>}, pull : Pulls]
    \cup [board : {"Kirby"}, pins : {<<0, 0, 1, 2>>, <<2, 2, 2, 1>>},
          pull : {Up}]
    \cup UNION {[board : {b}, pins : {DigitsOf(row[1]) : row \in id_map(b)},
                 pull : {None}] : b \in {"Pit", "Pi"}}

Board(name, rev, strap, parts, fmap) ==
  [name |-> name, version |-> rev, strap |-> strap, parts |-> parts,
   blob |-> <<"a", "b", "a">>, fmap |-> fmap]
MCSpdBoards ==
  {Board("Link", 0, 5, <<>>, {})}
    \cup {Board(n, v, s, <<>>, {}) :
            n \in {"Falco", "Swanky", "Rambi"}, v \in {0, 1}, s \in {3, 4}}
    \cup {Board("Samus", 0, 0, p, f) :
            p \in {<<>>, <<"a">>, <<"b", "a">>, <<"c", "b">>},
            f \in {{}, {"COREBOOT"}}}
MCRequests ==
  [pass : {1, 4}, what : {"print"}, arg : {NoArg}]
    \cup [pass : {0, 4}, what : {"print"}, arg : {0, 1}]
    \cup [pass : {4}, what : {"dump"}, arg : 0 .. 3]

(* Every byte that occurs in a message, and their neighbours.              *)
MCWrong == {b \in EcBytes : \E n \in {0, 2, 7, 42, 196, 200, 221, 255} :
                               b \in n - 1 .. n + 1}

MCI2cDevices == {[bus |-> 0, addr |-> 1], [bus |-> 0, addr |-> 2]}
=============================================================================
