------------------------------- MODULE Nftables -------------------------------
(***************************************************************************)
(* The part of the kernel's ruleset that proberv2 owns, and what the nft   *)
(* commands it issues do to it.  Adding a table, map, set or chain that is *)
(* there already changes nothing; adding a rule always appends one; a      *)
(* batch is applied as a whole; what a table holds goes with the table.    *)
(* proberv2 balances one service (config.kubernetes.service), so there is  *)
(* one service chain.                                                      *)
(***************************************************************************)
EXTENDS Naturals

CONSTANTS Port, Pod

NoChain == [kind |-> "absent", port |-> "none", targets |-> {}]
EmptyChain == [kind |-> "empty", port |-> "none", targets |-> {}]
Rule(port, targets) == [kind |-> "rule", port |-> port, targets |-> targets]

NoRuleset ==
  [table |-> FALSE, map |-> FALSE, set |-> FALSE, base |-> FALSE,
   jumps |-> 0,      \* rules of the prerouting chain: jump to services
   lookups |-> 0,    \* rules of the services chain: vmap by nodeport
   chain |-> NoChain,
   elements |-> {}]  \* nodeports with a goto to the service chain

AddTable(nft) == [nft EXCEPT !.table = TRUE]
AddMap(nft) == [nft EXCEPT !.map = TRUE]
AddSet(nft) == [nft EXCEPT !.set = TRUE]
AddBaseChains(nft) == [nft EXCEPT !.base = TRUE]
AddJump(nft) == [nft EXCEPT !.jumps = @ + 1]
AddLookup(nft) == [nft EXCEPT !.lookups = @ + 1]
AddServiceChain(nft) ==
  [nft EXCEPT !.chain = IF @.kind = "absent" THEN EmptyChain ELSE @]
ReplaceRule(nft, port, targets) == [nft EXCEPT !.chain = Rule(port, targets)]
AddElement(nft, port) == [nft EXCEPT !.elements = @ \union {port}]
=============================================================================
