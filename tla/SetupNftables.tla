----------------------------- MODULE SetupNftables -----------------------------
(***************************************************************************)
(* setup_nftables (proberv2/src/setup_nftables.rs): the base ruleset that  *)
(* proberv2 installs before it serves anything.  Each step is a command of *)
(* its own, so the program can stop between any two of them; an error ends *)
(* the program (main.rs:66), except that of deleting the old table.        *)
(***************************************************************************)
EXTENDS Nftables

VARIABLES
  setup,  \* the next command, "done", or "failed"
  nft     \* the kernel's ruleset: it outlives the program

\* Mutant of ReadNodeIp: the deletion of the old table is left out.
ReadNodeIp_NoDelete ==
  /\ setup = "node_ip"
  /\ setup' = "table"
  /\ UNCHANGED nft

\* Reading the address of the program's own node, before nft is touched.
ReadNodeIp ==
  /\ setup = "node_ip"
  /\ setup' = "delete"
  /\ UNCHANGED nft

\* Mutant of DeleteTable: only the base rules go, the services' stay.
DeleteTable_KeepsServices ==
  /\ setup = "delete"
  /\ nft' = [NoRuleset EXCEPT !.chain = nft.chain, !.elements = nft.elements]
  /\ setup' = "table"

\* The result of the deletion is ignored.  It fails when there is no table;
\* that of a table that exists is assumed to succeed.
DeleteTable ==
  /\ setup = "delete"
  /\ nft' = NoRuleset
  /\ setup' = "table"

Apply(step, next, ruleset) ==
  /\ setup = step
  /\ setup' = next
  /\ nft' = ruleset

CreateTable == Apply("table", "map", AddTable(nft))
CreateMap == Apply("map", "set", AddMap(nft))
CreateSet == Apply("set", "chains", AddSet(nft))
CreateChains == Apply("chains", "jump", AddBaseChains(nft))
CreateJump == Apply("jump", "lookup", AddJump(nft))
CreateLookup == Apply("lookup", "done", AddLookup(nft))

\* Any other step may fail: the API server, the node's status, or nft.
SetupError ==
  /\ setup \notin {"delete", "done", "failed"}
  /\ setup' = "failed"
  /\ UNCHANGED nft

SetupNext ==
  \/ ReadNodeIp \/ DeleteTable \/ CreateTable \/ CreateMap \/ CreateSet
  \/ CreateChains \/ CreateJump \/ CreateLookup \/ SetupError
=============================================================================
