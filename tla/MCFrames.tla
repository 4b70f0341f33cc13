------------------------------- MODULE MCFrames -------------------------------
(* A connection with requests and replies of different lengths.            *)
EXTENDS Frames

Message(type, body) == [type |-> type, body |-> body]

\* A shutdown without a body, a registration and a longer request.
MCRequests == {Message(28, << >>), Message(2, <<67>>), Message(6, <<1, 0>>)}

\* OK without a body, an acknowledgement and a longer reply.
MCReply ==
    [m \in MCRequests |->
        CASE m.type = 28 -> Message(30, << >>)
          [] m.type = 2 -> Message(3, <<1>>)
          [] m.type = 6 -> Message(7, <<1, 4>>)]
=============================================================================
