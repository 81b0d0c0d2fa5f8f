--------------------------- MODULE MCLdapReconcile ---------------------------
(* Two sources: one with two users, one with the first of them again.       *)
EXTENDS LdapReconcile

MCPairs == {<<"corp", "ann">>, <<"corp", "bob">>, <<"lab", "ann">>}
MCSources == {"corp", "lab"}

\* Identifiers are only compared within one account, so each account may call the
\* one its directory starts with by the same name.
MCInit ==
  /\ Init
  /\ \A p, q \in Pairs : ldap[p] = ldap[q]
  /\ \A p \in Pairs : ldap[p] = CHOOSE i \in Ids : TRUE

MCSpec == MCInit /\ [][Next]_vars /\ Fairness
=============================================================================
