---------------------------- MODULE MCMosysMain ----------------------------
(***************************************************************************)
(* mosys_main() on every board of an x86 and of an ARM build, on a machine *)
(* no board knows, with and without -p and -f.                             *)
(***************************************************************************)
EXTENDS MosysMain, Boards

MCBuilds == {platform_intf_list_x86, platform_intf_list_arm}

\* 256 is a nonzero value whose low eight bits are zero.
MCGarbage == {0, EIO, 256}

\* An EC result code, and one shifted by EECRESULT.
MCCommandRcs == {-1, -3, -1011}

\* The builds of one board each, for the boards with a PD.
MCPdBuilds == {<<platform_samus>>, <<platform_glados>>, <<platform_oak>>}
=============================================================================
