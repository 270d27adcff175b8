--------------------------- MODULE MCConfiguration ---------------------------
(* Configuration with two pages of one user, another user who may link the
   account, one set of rules and up to MaxWrites writes.  The supervisor is the
   only loader: bind takes the same steps. *)
EXTENDS Configuration

CONSTANTS alice, bob, left, right, supervisor, ruleset

MCUsers == {alice, bob}
MCPages == {left, right}
MCAuthor == [p \in MCPages |-> alice]
MCSupervisor == supervisor
MCLoaders == {supervisor}
MCRules == {ruleset}
=============================================================================
