----------------------------- MODULE MCLifecycle -----------------------------
(* Instances of Lifecycle for model checking. *)
EXTENDS Lifecycle, TLC

OneRoute == {<<<<"t">>, <<"h">>, <<"d">>>>}

\* The client of a WebSocket may come with any ticket.
AnyTicket == Sockets \X Roles \X Routes

=============================================================================
