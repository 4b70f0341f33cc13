------------------------------- MODULE Exchange -------------------------------
(***************************************************************************)
(* What a connection between a worker and the coordinator promises: calls. *)
(* The client asks and waits, the session handles every request once and   *)
(* in order, and what the client gets is the reply to what it asked.  When *)
(* the connection is lost, calls may stay without a reply or unhandled.    *)
(***************************************************************************)
EXTENDS Naturals, Sequences

CONSTANTS
    Requests,
    Reply           \* the session's reply to each request

VARIABLES
    asked,          \* requests the client has made
    handled,        \* requests the session has handled
    got             \* replies the client has received

exchangeVars == <<asked, handled, got>>

ExchangeInit == asked = << >> /\ handled = << >> /\ got = << >>

Ask ==
    /\ Len(asked) = Len(got)
    /\ \E m \in Requests : asked' = Append(asked, m)
    /\ UNCHANGED <<handled, got>>

Handle ==
    /\ Len(handled) < Len(asked)
    /\ handled' = Append(handled, asked[Len(handled) + 1])
    /\ UNCHANGED <<asked, got>>

Return ==
    /\ Len(got) < Len(handled)
    /\ got' = Append(got, Reply[handled[Len(got) + 1]])
    /\ UNCHANGED <<asked, handled>>

ExchangeNext == Ask \/ Handle \/ Return

ExchangeSpec == ExchangeInit /\ [][ExchangeNext]_exchangeVars
=============================================================================
