------------------------------- MODULE Frames --------------------------------
(***************************************************************************)
(* What the relay does with one WebSocket message: the read limit,         *)
(* ParseRelayFrame, validateSenderFrame.  Sessions takes the outcome (a    *)
(* frame that is routed, or a close code) as given; this module computes   *)
(* it.                                                                     *)
(*                                                                         *)
(* A message is known by what the checks tell apart: how often each field  *)
(* name occurs, the fields that are compared with each other or with a     *)
(* bound, the number of bytes.  "form" stands for the checks that look at  *)
(* one field alone (UTF-8, identifiers, integers, Base64Url, key points),  *)
(* and "own" for the three ids of the sender's route.                      *)
(***************************************************************************)
EXTENDS Integers, FiniteSets

CONSTANTS
  MaxEncryptedSequence,  \* math.MaxUint32 in the code
  Configured,            \* values of maxMessageBytes; negative ones are legal
  Rests                  \* bytes of a message that are not ciphertext

ASSUME FramesConstants ==
  /\ MaxEncryptedSequence \in Nat \ {0}
  /\ Configured \subseteq Int
  /\ Rests \subseteq Nat

MaxBusinessPlaintextBytes == 11 * 1024 * 1024

GCMTagBytes == 16

MaxWireFrameBytes == 15444672

\* What WireFrameLimit allows for everything but the ciphertext.
Overhead == 64 * 1024

EffectiveMessageBytes(configured) ==
  IF configured < 0 \/ configured > MaxBusinessPlaintextBytes
  THEN MaxBusinessPlaintextBytes ELSE configured

MutRoundDown(size) == 4 * (size \div 3)

EncodedLength(size) ==
  4 * (size \div 3) + (IF size % 3 = 0 THEN 0 ELSE (size % 3) + 1)

WireFrameLimit(configured) ==
  LET limit ==
        EncodedLength(EffectiveMessageBytes(configured) + GCMTagBytes)
          + Overhead
  IN IF limit > MaxWireFrameBytes THEN MaxWireFrameBytes ELSE limit

-----------------------------------------------------------------------------
Hellos == {"session.client_hello", "session.server_hello"}

FrameTypes == Hellos \cup {"session.confirmation", "session.envelope"}

Up == "mobile_to_windows"

Down == "windows_to_mobile"

Kinds == {"rpc.request", "rpc.response", "event"}

RouteKeys ==
  {"protocolVersion", "frameType", "sessionId", "tenantId", "hostId",
   "deviceId", "direction"}

\* The field names that each parser requires.
Keys ==
  [type \in FrameTypes \cup {"other"} |->
     CASE type \in Hellos -> RouteKeys \cup
            {"bindingVersion", "keyVersion", "ephemeralPublicKey", "nonce",
             "createdAt", "signature"}
       [] type = "session.confirmation" -> RouteKeys \cup
            {"senderRole", "confirmation"}
       [] type = "session.envelope" -> RouteKeys \cup
            {"kind", "messageId", "sequence", "createdAt", "payloadEncoding",
             "nonce", "ciphertext"}
       [] OTHER -> RouteKeys]

Names == (UNION {Keys[type] : type \in FrameTypes}) \cup {"other"}

Frame ==
  [occurs : [Names -> 0 .. 2], frameType : FrameTypes \cup {"other"},
   direction : {Up, Down, "other"},
   senderRole : {"android", "windows", "other"}, kind : Kinds \cup {"other"},
   sequence : Nat, ciphertext : Nat, rest : Nat,
   form : BOOLEAN, own : BOOLEAN]

Roles == {"host", "device"}

\* How a connection ends, or the frame goes to the peer.
Verdicts ==
  {"route", "message_too_large", "invalid_frame",
   "identity_or_direction_mismatch"}

VARIABLES
  configured,  \* the quota of this relay
  role,        \* the role of the connection
  frame,       \* the message that was received last
  stage,       \* what has been checked
  verdict

vars == <<configured, role, frame, stage, verdict>>

Stages == {"reading", "received", "parsed", "decided"}

TypeOK ==
  /\ configured \in Configured
  /\ role \in Roles
  /\ stage \in Stages
  /\ stage = "decided" <=> verdict # "none"
  /\ verdict \in Verdicts \cup {"none"}
  /\ stage \in {"received", "parsed", "decided"} => frame \in Frame

-----------------------------------------------------------------------------
(* ParseRelayFrame *)

\* Each key once: a second occurrence finds values[key] set.
strictObject(f) == \A k \in Names : f.occurs[k] <= 1

requireKeys(f, keys) ==
  /\ Cardinality({k \in Names : f.occurs[k] > 0}) = Cardinality(keys)
  /\ \A k \in keys : f.occurs[k] > 0

parseRoute(f) == f.form /\ f.direction \in {Up, Down}

parseHello(f) ==
  /\ requireKeys(f, Keys[f.frameType])
  /\ parseRoute(f)
  /\ f.frameType = "session.client_hello" => f.direction = Up
  /\ f.frameType = "session.server_hello" => f.direction = Down

parseConfirmation(f) ==
  /\ requireKeys(f, Keys[f.frameType])
  /\ parseRoute(f)
  /\ f.senderRole = "android" => f.direction = Up
  /\ f.senderRole = "windows" => f.direction = Down
  /\ f.senderRole \in {"android", "windows"}

MutAnyKindUp(f, max) ==
  /\ requireKeys(f, Keys[f.frameType])
  /\ parseRoute(f)
  /\ f.sequence \in 1 .. MaxEncryptedSequence
  /\ f.ciphertext >= GCMTagBytes
  /\ f.ciphertext <= EffectiveMessageBytes(max) + GCMTagBytes
  /\ f.direction = Down => f.kind \in {"rpc.response", "event"}

parseEnvelope(f, max) ==
  /\ requireKeys(f, Keys[f.frameType])
  /\ parseRoute(f)
  /\ f.sequence \in 1 .. MaxEncryptedSequence
  /\ f.ciphertext >= GCMTagBytes
  /\ f.ciphertext <= EffectiveMessageBytes(max) + GCMTagBytes
  /\ f.direction = Up => f.kind = "rpc.request"
  /\ f.direction = Down => f.kind \in {"rpc.response", "event"}

ParseRelayFrame(f, max) ==
  /\ strictObject(f)
  /\ f.occurs["frameType"] > 0
  /\ CASE f.frameType \in Hellos -> parseHello(f)
       [] f.frameType = "session.confirmation" -> parseConfirmation(f)
       [] f.frameType = "session.envelope" -> parseEnvelope(f, max)
       [] OTHER -> FALSE

\* validateSenderFrame
validateSenderFrame(r, f) ==
  /\ f.own
  /\ r = "host" => f.direction = Down
  /\ r = "device" => f.direction = Up

-----------------------------------------------------------------------------
\* Base64Url without padding: six bits a character.
Base64Chars(bytes) == (4 * bytes + 2) \div 3

\* The bytes of the message: only an envelope carries ciphertext.
WireSize(f) ==
  f.rest + (IF f.frameType = "session.envelope"
            THEN Base64Chars(f.ciphertext) ELSE 0)

\* A message with a field name too few, too many or twice, one with another
\* bad field, one that names another route, and one with none of these.
Shapes(type) ==
  LET exact == [occurs |-> [k \in Names |-> IF k \in Keys[type] THEN 1 ELSE 0],
                form |-> TRUE, own |-> TRUE]
  IN {exact, [exact EXCEPT !.form = FALSE], [exact EXCEPT !.own = FALSE]}
     \cup {[exact EXCEPT !.occurs[k] = n] :
            k \in {"frameType", "nonce", "senderRole", "other"}, n \in 0 .. 2}

\* Ciphertext at the bounds that parseEnvelope and the quota set.
Lengths(max) ==
  {GCMTagBytes - 1, GCMTagBytes} \cup
  {EffectiveMessageBytes(max) + GCMTagBytes + d : d \in {0, 1}}

Init ==
  /\ configured \in Configured
  /\ role \in Roles
  /\ frame = "none"
  /\ stage = "reading"
  /\ verdict = "none"

Decide(v) == stage' = "decided" /\ verdict' = v

\* conn.Read returns a message, or fails and closes the connection because
\* the message exceeds the limit.
Read(f) ==
  /\ stage = "reading"
  /\ frame' = f
  /\ IF WireSize(f) > WireFrameLimit(configured)
     THEN Decide("message_too_large")
     ELSE stage' = "received" /\ UNCHANGED verdict
  /\ UNCHANGED <<configured, role>>

ReadAny ==
  \E type \in FrameTypes \cup {"other"}, d \in {Up, Down, "other"},
     rest \in Rests :
  \E shape \in Shapes(type),
     r \in (IF type = "session.confirmation"
            THEN {"android", "windows", "other"} ELSE {"other"}),
     e \in (IF type = "session.envelope"
            THEN (Kinds \cup {"other"}) \X Lengths(configured)
                 \X {0, MaxEncryptedSequence, MaxEncryptedSequence + 1}
            ELSE {<<"other", 0, 0>>}) :
    Read([occurs |-> shape.occurs, frameType |-> type, direction |-> d,
          senderRole |-> r, kind |-> e[1], sequence |-> e[3],
          ciphertext |-> e[2], rest |-> rest,
          form |-> shape.form, own |-> shape.own])

Parse ==
  /\ stage = "received"
  /\ IF ParseRelayFrame(frame, configured)
     THEN stage' = "parsed" /\ UNCHANGED verdict
     ELSE Decide("invalid_frame")
  /\ UNCHANGED <<configured, role, frame>>

Validate ==
  /\ stage = "parsed"
  /\ Decide(IF validateSenderFrame(role, frame) THEN "route"
            ELSE "identity_or_direction_mismatch")
  /\ UNCHANGED <<configured, role, frame>>

\* The handler reads on after a frame that was routed; after any other the
\* connection is closed and the next one starts over.
Again ==
  /\ stage = "decided"
  /\ stage' = "reading"
  /\ verdict' = "none"
  /\ frame' = "none"
  /\ role' \in IF verdict = "route" THEN {role} ELSE Roles
  /\ UNCHANGED configured

Next == ReadAny \/ Parse \/ Validate \/ Again

Spec == Init /\ [][Next]_vars

-----------------------------------------------------------------------------
(* Properties *)

\* What a role may say: pairs of a frame type and the word in it that names
\* the sender or the kind of message.
Speech(r) ==
  IF r = "device"
  THEN {<<"session.client_hello", "other">>,
        <<"session.confirmation", "android">>,
        <<"session.envelope", "rpc.request">>}
  ELSE {<<"session.server_hello", "other">>,
        <<"session.confirmation", "windows">>,
        <<"session.envelope", "rpc.response">>,
        <<"session.envelope", "event">>}

Word(f) == IF f.frameType = "session.confirmation" THEN f.senderRole ELSE f.kind

\* Exactly the well formed messages of the sender's own role reach the peer:
\* the direction rules of the parsers and of validateSenderFrame add up to
\* one vocabulary per role, every field is there once, and nothing else.
RoutedIsSpoken ==
  stage = "decided" /\ verdict # "message_too_large" =>
    (verdict = "route" <=>
       /\ <<frame.frameType, Word(frame)>> \in Speech(role)
       /\ frame.direction = (IF role = "device" THEN Up ELSE Down)
       /\ frame.own /\ frame.form
       /\ \A k \in Names :
            frame.occurs[k] = IF k \in Keys[frame.frameType] THEN 1 ELSE 0
       /\ frame.frameType = "session.envelope" =>
            /\ frame.sequence \in 1 .. MaxEncryptedSequence
            /\ frame.ciphertext - GCMTagBytes
                 \in 0 .. EffectiveMessageBytes(configured))

\* The read limit cuts off no message that the parser would accept: with the
\* largest ciphertext of any quota there is room for the other fields.
LimitAdmitsFrames ==
  verdict = "message_too_large" =>
    \/ frame.rest > Overhead
    \/ /\ frame.frameType = "session.envelope"
       /\ frame.ciphertext > EffectiveMessageBytes(configured) + GCMTagBytes

\* No envelope that is routed carries more than the quota of relay-v1.md: "The
\* effective business plaintext quota is min(config.maxMessageBytes, 11 * 1024
\* * 1024)".  For EffectiveMessageBytes a negative quota is the maximum.
QuotaIsMinimum ==
  verdict = "route" /\ frame.frameType = "session.envelope" =>
    /\ frame.ciphertext - GCMTagBytes <= configured
    /\ frame.ciphertext - GCMTagBytes <= MaxBusinessPlaintextBytes

=============================================================================
