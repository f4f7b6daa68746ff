------------------------ MODULE ProviderLifecycleMC ------------------------
(* Small instances of ProviderLifecycle for TLC. *)
EXTENDS ProviderLifecycle

CONSTANTS p1, p2

\* Both listed; p1 gone; nothing listed; p1 listed with a status.
MCListings ==
  {[p \in Providers |-> IF p = p1 THEN s ELSE t] :
     <<s, t>> \in {<<"unset", "unset">>, <<"absent", "unset">>, <<"absent", "absent">>, <<"active", "unset">>}}
=============================================================================
