------------------------------ MODULE Sessions ------------------------------
(***************************************************************************)
(* The objects at one end of a connection and the pointers between them.   *)
(* A session owns an endpoint and its streams; a stream owns a channel;    *)
(* the endpoint points to one channel (channel_), and a channel points     *)
(* back to the endpoint (notifier_) to say that it is destroyed with its   *)
(* stream.  A stream and its channel go by the number of the stream.       *)
(*                                                                         *)
(* The two flavours of endpoint that the repository starts: "hello"        *)
(* (HelloClientEndpoint, EchoServerEndpoint) and "my" (MyClientEndpoint,   *)
(* MyServerEndpoint).                                                      *)
(***************************************************************************)
EXTENDS Naturals, FiniteSets

Backends == {"hello", "my"}
NoStream == 0
MaxStreams == 2        (* OnSessionReady is called at most twice            *)
Stream == 1..MaxStreams

Session == [endpoint : {"none", "alive", "deleted"},  (* endpoint_ of the session *)
            opened   : 0..MaxStreams,     (* streams opened, or accepted    *)
            streams  : SUBSET Stream,     (* streams that exist             *)
            channel  : {NoStream} \cup Stream,  (* channel_ of the endpoint *)
            notified : SUBSET Stream,     (* channels whose notifier_ is set *)
            wild     : BOOLEAN]           (* a deleted endpoint was called  *)

(* A session before its constructor has run, and one of the server, whose  *)
(* endpoint is made when the first stream arrives.                         *)
NoSession == [endpoint |-> "none", opened |-> 0, streams |-> {},
              channel |-> NoStream, notified |-> {}, wild |-> FALSE]

(* CreateEndpoint of the backend, for a session that has none. *)
CreateEndpoint(s) == [s EXCEPT !.endpoint = IF @ = "none" THEN "alive" ELSE @]

(* The client's session makes its endpoint at once. *)
NewClientSession == CreateEndpoint(NoSession)

(* CreateStream: the session activates stream id. *)
CreateStream(s, id) ==
  [s EXCEPT !.streams = @ \cup {id}, !.opened = IF id > @ THEN id ELSE @]

(* A new channel on stream id: set_notifier, set_visitor, channel_. *)
Attach(s, id) == [s EXCEPT !.notified = @ \cup {id}, !.channel = id]

(* OpenOutgoingBidirectionalStream, within the bound. *)
OpenStream(s) == CreateStream(s, s.opened + 1)

(* OnSessionReady of HelloClientEndpoint opens a stream at every call. *)
HelloOnSessionReady(s) ==
  IF s.opened < MaxStreams THEN Attach(OpenStream(s), s.opened + 1) ELSE s

(* Mutant: MyClientEndpoint does so too. *)
MyOnSessionReadyAlways(s) == HelloOnSessionReady(s)

(* MyClientEndpoint does so only if it has no channel. *)
MyOnSessionReady(s) ==
  IF s.channel = NoStream THEN HelloOnSessionReady(s) ELSE s

OnSessionReady(backend, s) ==
  IF backend = "my" THEN MyOnSessionReady(s) ELSE HelloOnSessionReady(s)

(* The server's CreateIncomingStream, for the first data of stream id. *)
CreateIncomingStream(s, id) == Attach(CreateStream(CreateEndpoint(s), id), id)

(* Send of the My endpoints has something to send on; GetBuffer does not   *)
(* look whether it has.                                                    *)
HasChannel(s) == s.channel # NoStream

(* A channel tells its notifier that it is destroyed: the endpoint forgets *)
(* channel_ without looking which channel it is.                           *)
OnChannelDestroy(s) ==
  [s EXCEPT !.channel = IF s.endpoint = "alive" THEN NoStream ELSE @,
            !.wild    = @ \/ s.endpoint = "deleted"]

(* The channel's OnDestroy. *)
OnDestroy(s, id) == IF id \in s.notified THEN OnChannelDestroy(s) ELSE s

(* ~Ns3TransportStream while the session lives. *)
StreamDestroyed(s, id) ==
  [OnDestroy(s, id) EXCEPT
    !.streams  = @ \ {id},
    !.notified = @ \ {id}]

(* The destructor of an endpoint takes itself back from its channel. *)
EndpointDtor(s) ==
  [s EXCEPT !.endpoint = IF @ = "alive" THEN "deleted" ELSE @,
            !.notified = @ \ {s.channel},
            !.channel  = NoStream]

(* The destructor of a session: the endpoint goes before the streams.      *)
SessionDtor(s) ==
  LET e == EndpointDtor(s)
  IN  [e EXCEPT !.streams = {}, !.notified = {},
                !.wild = @ \/ (e.endpoint = "deleted" /\ e.notified # {})]

Deleted(s) == s.endpoint = "deleted"
=============================================================================
