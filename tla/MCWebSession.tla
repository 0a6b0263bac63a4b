---------------------------- MODULE MCWebSession ----------------------------
(* Two tabs: one with a call of a page and one that registers or logs out,  *)
(* and one that registers or logs in beside it.                             *)
EXTENDS WebSession

CONSTANTS a, b, c, t1, t2, p1, p2

MCTab  == [x \in Calls |-> IF x = c THEN t2 ELSE t1]
MCAsks == [x \in Calls |-> CASE x = a -> {"page"}
                             [] x = b -> {"register", "logout"}
                             [] x = c -> {"register", "login"}]

(* One registers, then each tab has a call of a page: no token is replaced  *)
(* but by a refresh.                                                        *)
PageBesidePage == [x \in Calls |-> IF x = b THEN {"register"} ELSE {"page"}]
=============================================================================
