--------------------------- MODULE PropertyAccess ---------------------------
(***************************************************************************)
(* Clients that read and write properties of devices over one CAN bus:     *)
(* Client.query_properties and Client.set_property (devprop/client.py),    *)
(* PropertyQuery (state_machines.py) run by execute_state_machine          *)
(* (adapter.py), and dp_handle_message_ext (lang_c/) at the other end.     *)
(*                                                                         *)
(* Every frame on the bus is seen by all its other members.  A client has  *)
(* one receive queue, which outlives its calls: what it did not take       *)
(* during a call is there at the next one.  Nothing but the identifier     *)
(* ties a response to a request, and a call ends at its deadline, whatever *)
(* is still on the way.                                                    *)
(*                                                                         *)
(* The tag of a packet numbers the request it is or answers, "req" is that *)
(* request, and "held" are the values a property has while it is queried:  *)
(* none of them exists in the code, they say what an answer should be.     *)
(***************************************************************************)
EXTENDS DeviceLib, FiniteSets

CONSTANTS
  Client,      \* the clients on the bus
  Node,        \* the node ids of the devices on the bus
  InitVals,    \* the values of a device's properties after a start
  Calls,       \* the calls clients make, see Call below
  MaxCalls,    \* bound: calls in a behavior
  Changing,    \* the properties the application changes by itself
  Faults,      \* which of "lose", "restart", "foreign" and "late" happen;
               \* "late": a call reaches its deadline while its request or
               \* the response is still to come
  MaxFaults,   \* bound: faults in a behavior
  ForeignIds   \* identifiers of frames that are not devprop's

\* query_properties has a list of targets, set_property one and a payload.
Call ==
  [op : {READ_PROPERTY, WRITE_PROPERTY},
   list : Seq(Node \X Property),
   data : Seq(Nat)]

\* Node ids above 30 and indices outside the table are the subject of
\* Device; here every request is one the device can answer.
ASSUME AccessAssumption ==
  /\ Node \subseteq DeviceIds
  /\ InitVals \in [Property -> Nat]
  /\ Calls \subseteq Call
  /\ \A call \in Calls : call.list # << >>
  /\ \A call \in Calls : call.op = READ_PROPERTY => call.data = << >>
  /\ Changing \subseteq Property
  /\ ForeignIds \subseteq {id \in Nat : ~ IsDevprop(id) \/ OpcodeOf(id) \notin Opcode}
  /\ MaxCalls \in Nat /\ MaxFaults \in Nat

VARIABLES
  vals,     \* vals[n][p]: the value of property p of device n
  devq,     \* devq[n]: the requests on their way to device n
  rxq,      \* rxq[c]: the frames in the receive queue of client c
  pc,       \* pc[c]: "idle", "send" (a PropertyQuery is made) or "recv"
  call,     \* call[c]: the call c makes or made last
  answers,  \* answers[c]: the answers of call[c] so far
  held,     \* held[c]: the values the queried property had since the request
  sent,     \* sent[c]: the requests c has sent
  nCalls,   \* calls made
  nFaults,  \* faults so far
  seen      \* and their kinds

clientVars == <<pc, call, answers, sent, nCalls>>
faultVars == <<nFaults, seen>>
vars == <<vals, devq, rxq, pc, call, answers, held, sent, nCalls, nFaults, seen>>

NoCall == [op |-> READ_PROPERTY, list |-> << >>, data |-> << >>]
NoTag == << >>
NoFrame == Message(0, << >>)
NoValue == << >>      \* None, or an exception out of set_property

Init ==
  /\ vals = [n \in Node |-> InitVals]
  /\ devq = [n \in Node |-> << >>]
  /\ rxq = [c \in Client |-> << >>]
  /\ pc = [c \in Client |-> "idle"]
  /\ call = [c \in Client |-> NoCall]
  /\ answers = [c \in Client |-> << >>]
  /\ held = [c \in Client |-> {}]
  /\ sent = [c \in Client |-> 0]
  /\ nCalls = 0
  /\ nFaults = 0
  /\ seen = {}

-----------------------------------------------------------------------------
(* The query a client is busy with.                                        *)

Target(c) == call[c].list[Len(answers[c]) + 1]
TargetNode(c) == Target(c)[1]
TargetProperty(c) == Target(c)[2]

Tag(c) == <<c, sent[c]>>

Request(c) ==
  IF call[c].op = WRITE_PROPERTY
  THEN WritePropertyRequest(TargetNode(c), TargetProperty(c), call[c].data)
  ELSE ReadPropertyRequest(TargetNode(c), TargetProperty(c))

Encoded(values, n, p) == Bytes(values[n][p], PropSize[p])

\* held after the values of the devices have become newVals.
HeldWith(newVals) ==
  [c \in Client |->
     IF pc[c] = "recv"
     THEN held[c] \cup {Encoded(newVals, TargetNode(c), TargetProperty(c))}
     ELSE held[c]]

Packet(tag, req, msg) == [tag |-> tag, req |-> req, msg |-> msg]

ToAll(except, packets) ==
  [c \in Client |-> IF c = except THEN rxq[c] ELSE rxq[c] \o packets]

-----------------------------------------------------------------------------
(* The client.                                                             *)

Start(c) ==
  /\ pc[c] = "idle"
  /\ nCalls < MaxCalls
  /\ nCalls' = nCalls + 1
  /\ call' \in {[call EXCEPT ![c] = new] : new \in Calls}
  /\ pc' = [pc EXCEPT ![c] = "send"]
  /\ answers' = [answers EXCEPT ![c] = << >>]
  /\ UNCHANGED <<vals, devq, rxq, held, sent, faultVars>>

\* execute_state_machine sends what get_frame_to_send returns, once.
Send(c) ==
  LET n == TargetNode(c)
      packet == Packet(<<c, sent[c] + 1>>, Request(c), Request(c))
  IN  /\ pc[c] = "send"
      /\ pc' = [pc EXCEPT ![c] = "recv"]
      /\ sent' = [sent EXCEPT ![c] = @ + 1]
      /\ devq' = [devq EXCEPT ![n] = Append(@, packet)]
      /\ rxq' = ToAll(c, <<packet>>)
      /\ held' = [held EXCEPT ![c] = {Encoded(vals, n, TargetProperty(c))}]
      /\ UNCHANGED <<vals, call, answers, nCalls, faultVars>>

\* Variant: one query too many.
AnswerOneMore(c, value, tag, req) ==
  LET answer == [value |-> value, tag |-> tag, req |-> req,
                 held |-> held[c], sent |-> sent[c]]
  IN  /\ answers' = [answers EXCEPT ![c] = Append(@, answer)]
      /\ pc' = [pc EXCEPT ![c] = IF Len(answers[c]) = Len(call[c].list)
                                 THEN "idle" ELSE "send"]
      /\ UNCHANGED <<call, held, sent, nCalls>>

\* The query ends: the next one of the list begins or the call returns.
Answer(c, value, tag, req) ==
  LET answer == [value |-> value, tag |-> tag, req |-> req,
                 held |-> held[c], sent |-> sent[c]]
  IN  /\ answers' = [answers EXCEPT ![c] = Append(@, answer)]
      /\ pc' = [pc EXCEPT ![c] = IF Len(answers[c]) + 1 = Len(call[c].list)
                                 THEN "idle" ELSE "send"]
      /\ UNCHANGED <<call, held, sent, nCalls>>

\* unpack_id does not raise: not here, and not before in the receive() of
\* the adapter, which logs the fields of every frame.
Unpacks(msg) == IsDevprop(msg.id) /\ OpcodeOf(msg.id) \in Opcode

\* Variants: one of the comparisons is missing.
IsAnswerAnyDirection(c, msg) ==
  NodeOf(msg.id) = TargetNode(c) /\ OpcodeOf(msg.id) = call[c].op

IsAnswerAnyNode(c, msg) ==
  DirOf(msg.id) = DEVICE_TO_CLIENT /\ OpcodeOf(msg.id) = call[c].op

IsAnswerAnyOpcode(c, msg) ==
  DirOf(msg.id) = DEVICE_TO_CLIENT /\ NodeOf(msg.id) = TargetNode(c)

\* What PropertyQuery.frame_received looks at; the property index is not
\* among it.
IsAnswer(c, msg) ==
  /\ DirOf(msg.id) = DEVICE_TO_CLIENT
  /\ NodeOf(msg.id) = TargetNode(c)
  /\ OpcodeOf(msg.id) = call[c].op

\* set_property ends with decode_value, which asserts the length of the
\* type; query_properties returns the bytes as they are.
Result(c, msg) ==
  IF call[c].op = WRITE_PROPERTY /\ Len(msg.data) # PropSize[TargetProperty(c)]
  THEN NoValue
  ELSE msg.data

Receive(c) ==
  LET packet == Head(rxq[c])
      msg == packet.msg
  IN  /\ pc[c] = "recv"
      /\ rxq[c] # << >>
      /\ rxq' = [rxq EXCEPT ![c] = Tail(@)]
      /\ \/ ~ Unpacks(msg) /\ Answer(c, NoValue, NoTag, NoFrame)
         \* an empty response is a ProtocolError
         \/ /\ Unpacks(msg) /\ IsAnswer(c, msg)
            /\ Answer(c, Result(c, msg), packet.tag, packet.req)
         \* anything else is passed over, error responses too
         \/ Unpacks(msg) /\ ~ IsAnswer(c, msg) /\ UNCHANGED <<clientVars, held>>
      /\ UNCHANGED <<vals, devq, faultVars>>

OnTheWay(c) ==
  \/ \E n \in Node : \E i \in DOMAIN devq[n] : devq[n][i].tag = Tag(c)
  \/ \E i \in DOMAIN rxq[c] : rxq[c][i].tag = Tag(c)

Fault(kind) ==
  /\ kind \in Faults
  /\ nFaults < MaxFaults
  /\ nFaults' = nFaults + 1
  /\ seen' = seen \cup {kind}

\* Variant: receive() waits without a limit.
TimeoutBeforeSendOnly(c) ==
  /\ pc[c] = "send" /\ Fault("late")
  /\ Answer(c, NoValue, NoTag, NoFrame)
  /\ UNCHANGED <<vals, devq, rxq>>

\* The deadline passes, in receive() or even before anything is sent.
Timeout(c) ==
  /\ \/ pc[c] = "recv" /\ ~ OnTheWay(c) /\ UNCHANGED faultVars
     \/ pc[c] = "recv" /\ OnTheWay(c) /\ Fault("late")
     \/ pc[c] = "send" /\ Fault("late")
  /\ Answer(c, NoValue, NoTag, NoFrame)
  /\ UNCHANGED <<vals, devq, rxq>>

-----------------------------------------------------------------------------
(* The devices and the bus.                                                *)

\* dp_handle_message_ext, and its response seen by every client.
Respond(n) ==
  LET packet == Head(devq[n])
  IN  /\ devq[n] # << >>
      /\ devq' = [devq EXCEPT ![n] = Tail(@)]
      /\ \E o \in Handle(n, << >>, vals[n], packet.msg) :
           /\ vals' = [vals EXCEPT ![n] = o.vals]
           /\ rxq' = [c \in Client |->
                        rxq[c] \o [i \in DOMAIN o.out |-> Packet(packet.tag, packet.req, o.out[i])]]
      /\ held' = HeldWith(vals')
      /\ UNCHANGED <<clientVars, faultVars>>

\* The application changes a value by itself.
Change(n, p) ==
  /\ \E v \in 0..Limit[p] : vals' = [vals EXCEPT ![n][p] = v]
  /\ held' = HeldWith(vals')
  /\ UNCHANGED <<clientVars, devq, rxq, faultVars>>

LoseRequest(n) ==
  /\ Fault("lose")
  /\ devq[n] # << >>
  /\ devq' = [devq EXCEPT ![n] = Tail(@)]
  /\ UNCHANGED <<clientVars, vals, rxq, held>>

LoseFrame(c) ==
  /\ Fault("lose")
  /\ rxq[c] # << >>
  /\ rxq' = [rxq EXCEPT ![c] = Tail(@)]
  /\ UNCHANGED <<clientVars, vals, devq, held>>

\* The device starts again: requests not yet handled are gone, and so are
\* the values written.
Restart(n) ==
  /\ Fault("restart")
  /\ vals' = [vals EXCEPT ![n] = InitVals]
  /\ devq' = [devq EXCEPT ![n] = << >>]
  /\ held' = HeldWith(vals')
  /\ UNCHANGED <<clientVars, rxq>>

\* A frame of another protocol on the same bus.
Foreign(id) ==
  /\ Fault("foreign")
  /\ rxq' = [c \in Client |->
               Append(rxq[c], Packet(NoTag, NoFrame, Message(id, << >>)))]
  /\ UNCHANGED <<clientVars, vals, devq, held>>

-----------------------------------------------------------------------------
Next ==
  \/ \E c \in Client :
       Start(c) \/ Send(c) \/ Receive(c) \/ Timeout(c) \/ LoseFrame(c)
  \/ \E n \in Node : Respond(n) \/ LoseRequest(n) \/ Restart(n)
  \/ \E n \in Node, p \in Changing : Change(n, p)
  \/ \E id \in ForeignIds : Foreign(id)

Spec == Init /\ [][Next]_vars

\* A client's thread runs and its clock advances, and a device polls its
\* receive buffer.  Nothing makes a caller start, or a fault happen.
Fairness ==
  /\ \A c \in Client :
       WF_vars(Send(c)) /\ WF_vars(Receive(c)) /\ WF_vars(Timeout(c))
  /\ \A n \in Node : WF_vars(Respond(n))

FairSpec == Spec /\ Fairness

-----------------------------------------------------------------------------
(* Properties.                                                             *)

Msg == [id : Nat, data : Seq(Nat)]
Tags == {NoTag} \cup (Client \X Nat)
Packets == Seq([tag : Tags, req : Msg, msg : Msg])
AnswerType ==
  [value : Seq(Nat), tag : Tags, req : Msg, held : SUBSET Seq(Nat), sent : Nat]

TypeOK ==
  /\ vals \in [Node -> [Property -> Nat]]
  /\ devq \in [Node -> Packets]
  /\ rxq \in [Client -> Packets]
  /\ pc \in [Client -> {"idle", "send", "recv"}]
  /\ call \in [Client -> Calls \cup {NoCall}]
  /\ answers \in [Client -> Seq(AnswerType)]
  /\ held \in [Client -> SUBSET Seq(Nat)]
  /\ sent \in [Client -> Nat]
  /\ nCalls \in 0..MaxCalls
  /\ nFaults \in 0..MaxFaults
  /\ seen \subseteq Faults
  /\ \A c \in Client :
       /\ Len(answers[c]) <= Len(call[c].list)
       /\ pc[c] # "idle" => Len(answers[c]) < Len(call[c].list)

Given(c) == {i \in DOMAIN answers[c] : answers[c][i].value # NoValue}

\* However late, lost, foreign or crossed the frames are: what a query takes
\* for its answer is the response of the device it asked, to a request for
\* the same operation, and has the width of the property that request names.
AnswerFromTheNode ==
  \A c \in Client : \A i \in Given(c) :
    LET a == answers[c][i]
    IN  /\ NodeOf(a.req.id) = call[c].list[i][1]
        /\ OpcodeOf(a.req.id) = call[c].op
        /\ Len(a.value) = PropSize[PropertyIndex(a.req.id)]

\* No query has ended, at its deadline or with an exception about a foreign
\* frame, before its response came.
InStep == {"late", "foreign"} \cap seen = {}

\* For the only client of a bus, and as long as it is in step: an answer is
\* a value that very property had between the request and the answer; so is
\* that of set_property.
AnswersAreCurrent ==
  InStep =>
    \A c \in Client : \A i \in Given(c) : answers[c][i].value \in answers[c][i].held

\* "Client initiated-communication, 1:1 command:response correspondence"
\* (doc/SPEC.md:297): what a query takes for its answer is the response to
\* the request the query sent.
AnswerIsToTheRequest ==
  \A c \in Client : \A i \in Given(c) :
    answers[c][i].tag = <<c, answers[c][i].sent>>

\* Under the same conditions a set_property that returns has changed the
\* property, and returns the value it now has.  (Not if the application
\* changes it too, or the device has started again.)
WriteIsInEffect ==
  [][\A c \in Client :
       LET n == Len(answers[c]) + 1
       IN  /\ InStep /\ "restart" \notin seen
           /\ call[c].op = WRITE_PROPERTY
           /\ Len(answers'[c]) = n /\ answers'[c][n].value # NoValue
           /\ TargetProperty(c) \notin Changing
           => answers'[c][n].value = Encoded(vals, TargetNode(c), TargetProperty(c))]_vars

\* While nothing is lost, late or refused, no query is left without a value.
QueriesSucceed ==
  seen = {} =>
    \A c \in Client : call[c].op = READ_PROPERTY => Given(c) = DOMAIN answers[c]

\* No call hangs, whatever happens to its frames.
EveryCallReturns == \A c \in Client : pc[c] # "idle" ~> pc[c] = "idle"
=============================================================================
