------------------------------ MODULE IpcServer ------------------------------
(***************************************************************************)
(* The operator's socket and what goes over it: ipc/sso_ipc_server.c with  *)
(* its client slots and bounded write buffers, the client of               *)
(* ipc/sso_ipc_client.c, the handlers of control/operator_ipc.c, the live  *)
(* audio of control/operator_audio.c and the PCM ring between RX worker    *)
(* and main loop (pipeline/rx_session.c), in the order in which apps/main.c*)
(* calls them.  A line crosses the socket in two halves, so a write that   *)
(* the kernel takes only in part is a behaviour of the model; a line from  *)
(* a viewer that has not arrived completely is one not sent yet.           *)
(***************************************************************************)
EXTENDS Naturals, Sequences, FiniteSets

CONSTANTS
    Viewers,       \* client processes; each connects once
    Reader,        \* the viewer that keeps reading
    None,
    NSlots,        \* SSO_IPC_MAX_CLIENTS
    NSubs,         \* SSO_AUDIO_MAX_SUBS
    WriteCap,      \* SSO_IPC_WRITE_BUF, in half lines
    SockCap,       \* what the kernel buffers for one client, in half lines
    RingCap,       \* audio_ring_cap, in batches
    ReqCap         \* bound: requests of one viewer not read yet

ASSUME IpcAssumption ==
    /\ None \notin Viewers /\ Reader \in Viewers
    /\ {NSlots, NSubs, SockCap, RingCap} \subseteq Nat \ {0}
    /\ WriteCap \in Nat /\ WriteCap >= 2
    /\ ReqCap \in Nat \ {0}

Slots == 1 .. NSlots
Subs == 1 .. NSubs
Kinds == {"on", "off"}       \* audio-ctl; a hello is sent on connecting

VARIABLES
    at,        \* where the main loop is: poll, serve, pump, broadcast, over
    revents,   \* what poll() reported: pairs of a slot and an event
    slot,      \* srv->clients
    nextId,    \* srv->next_id
    subs,      \* g_subs
    gn,        \* g_n
    tap,       \* audio_tap_on
    ring,      \* audio_ring_count, in batches
    receiver,  \* an RX session exists and audio is not disabled
    backlog,   \* connections not accepted yet
    conn,      \* conn[v]: new, open, closed (by v), shut (by the server)
    req,       \* req[v]: lines of v not read yet
    wire,      \* wire[v]: half lines in the kernel
    half,      \* half[v]: first half of a line in v's read_buf
    gap,       \* history: connected viewers a reliable line was not queued for
    wrong      \* history: viewers that decoded what they should not

loopVars == <<at, revents>>
audioVars == <<subs, gn, tap, ring, receiver>>
seenVars == <<half, wrong>>
viewerVars == <<conn, req, seenVars, backlog>>
serverVars == <<slot, nextId, wire, gap>>
vars == <<loopVars, audioVars, viewerVars, serverVars>>

FreeSlot == [v |-> None, id |-> 0, out |-> <<>>, dead |-> FALSE]
FreeSub == [on |-> FALSE, id |-> 0, for |-> None, started |-> FALSE]

Init ==
    /\ at = "poll" /\ revents = {}
    /\ slot = [i \in Slots |-> FreeSlot] /\ nextId = 1
    /\ subs = [k \in Subs |-> FreeSub] /\ gn = 0 /\ tap = FALSE
    /\ ring = 0
    /\ receiver \in BOOLEAN
    /\ backlog = <<>>
    /\ conn = [v \in Viewers |-> "new"]
    /\ req = [v \in Viewers |-> <<>>]
    /\ wire = [v \in Viewers |-> <<>>]
    /\ half = [v \in Viewers |-> <<>>]
    /\ gap = {} /\ wrong = {}

-----------------------------------------------------------------------------
(* Queueing lines.  All that matters of a line is, for an audio frame, the *)
(* viewer that asked for the stream.  An outbox is a slot with its         *)
(* viewer's wire and whether a reliable line is missing.                   *)

NoAudio == None
Halves(line) == <<<<line, 1>>, <<line, 2>>>>
Outbox(i) == [s |-> slot[i], w |-> wire[slot[i].v], gap |-> slot[i].v \in gap]

\* slot_drain_write: as much as the kernel takes; a closed peer is an error.
DrainWrite(o) ==
    LET room == SockCap - Len(o.w)
        n == IF room < Len(o.s.out) THEN room ELSE Len(o.s.out)
    IN IF conn[o.s.v] = "closed" /\ o.s.out # <<>>
         THEN [o EXCEPT !.s.dead = TRUE]
         ELSE [o EXCEPT !.s.out = SubSeq(@, n + 1, Len(@)),
                        !.w = @ \o SubSeq(o.s.out, 1, n)]

Fits(o) == Len(o.s.out) + 2 <= WriteCap

\* Mutant of Send: a line that does not fit is skipped.
SendSkips(o, audio) ==
    DrainWrite(IF Fits(o)
                 THEN [o EXCEPT !.s.out = @ \o Halves(audio)]
                 ELSE [o EXCEPT !.gap = TRUE])

\* sso_ipc_server_send: a line that does not fit costs the client.
Send(o, audio) ==
    DrainWrite(IF Fits(o)
                 THEN [o EXCEPT !.s.out = @ \o Halves(audio)]
                 ELSE [o EXCEPT !.s.dead = TRUE, !.gap = TRUE])

\* sso_ipc_server_send_lossy: drain, queue if it fits, drain.
SendLossy(o, audio) ==
    LET d == DrainWrite(o)
    IN DrainWrite(IF Fits(d) THEN [d EXCEPT !.s.out = @ \o Halves(audio)]
                             ELSE d)

\* audio_sub_sink: the first frame of a stream is sent reliably.
Sink(o, sub) ==
    IF sub.started THEN SendLossy(o, sub.for) ELSE Send(o, sub.for)

Deliver(i, o) ==
    /\ slot' = [slot EXCEPT ![i] = o.s]
    /\ wire' = [wire EXCEPT ![slot[i].v] = o.w]
    /\ gap' = IF o.gap THEN gap \cup {slot[i].v} ELSE gap

-----------------------------------------------------------------------------
(* Viewers (sso_ipc_client.c) and the RX worker.  The server never waits,  *)
(* so what they do during one of its steps is as good as done before or    *)
(* after it: they act before the poll, and a connection may also be closed *)
(* before the broadcast, so that a write finds it closed.                  *)

Connect(v) ==
    /\ at = "poll"
    /\ conn[v] = "new"
    /\ conn' = [conn EXCEPT ![v] = "open"]
    /\ backlog' = Append(backlog, v)
    /\ req' = [req EXCEPT ![v] = <<"hello">>]
    /\ UNCHANGED <<loopVars, audioVars, serverVars, seenVars>>

Request(v) ==
    /\ at = "poll"
    /\ conn[v] = "open"
    /\ Len(req[v]) < ReqCap
    /\ \E k \in Kinds : req' = [req EXCEPT ![v] = Append(@, k)]
    /\ UNCHANGED <<loopVars, audioVars, serverVars, conn, seenVars, backlog>>

\* client_drain_read: everything there is, also what was under way when the
\* server closed the connection; a line may still miss its half.
ClientRead(v) ==
    /\ at = "poll"
    /\ conn[v] \in {"open", "shut"}
    /\ wire[v] # <<>>
    /\ LET in == half[v] \o wire[v]
           n == Len(in) \div 2
           Bad(j) == \/ in[2 * j - 1] # <<in[2 * j][1], 1>>
                     \/ in[2 * j][1] \notin {NoAudio, v}
       IN /\ wrong' = IF \E j \in 1 .. n : Bad(j) THEN wrong \cup {v} ELSE wrong
          /\ half' = [half EXCEPT ![v] = SubSeq(in, 2 * n + 1, Len(in))]
    /\ wire' = [wire EXCEPT ![v] = <<>>]
    /\ UNCHANGED <<loopVars, audioVars, slot, nextId, gap, conn, req,
                   backlog>>

ClientClose(v) ==
    /\ at \in {"poll", "broadcast"}
    /\ conn[v] = "open"
    /\ conn' = [conn EXCEPT ![v] = "closed"]
    /\ wire' = [wire EXCEPT ![v] = <<>>] /\ req' = [req EXCEPT ![v] = <<>>]
    /\ half' = [half EXCEPT ![v] = <<>>]
    /\ UNCHANGED <<loopVars, audioVars, slot, nextId, gap, wrong, backlog>>

\* The RX worker: audio_ring_push overwrites the oldest when full.
PushAudio ==
    /\ at = "poll"
    /\ tap
    /\ ring' = IF ring = RingCap THEN ring ELSE ring + 1
    /\ UNCHANGED <<loopVars, viewerVars, serverVars, subs, gn, tap, receiver>>

-----------------------------------------------------------------------------
(* sso_ipc_server_step.                                                    *)

Used(i) == slot[i].v # None
Closed(i) == conn[slot[i].v] = "closed"

\* The slot whose turn it is: the first that poll() reported something for.
Least(S) == CHOOSE x \in S : \A y \in S : x <= y
Turn == Least({e[1] : e \in revents})

\* Mutant of Ready: dead slots are not polled.
ReadySkipsDead(i) ==
    {e \in {"hup", "in", "out"} :
       /\ Used(i) /\ ~slot[i].dead
       /\ \/ e = "hup" /\ Closed(i)
          \/ e = "in" /\ req[slot[i].v] # <<>>
          \/ e = "out" /\ slot[i].out # <<>> /\ Len(wire[slot[i].v]) < SockCap}

\* What poll() reports of a slot; POLLOUT is asked for if something is queued.
Ready(i) ==
    {e \in {"hup", "in", "out"} :
       /\ Used(i)
       /\ \/ e = "hup" /\ Closed(i)
          \/ e = "in" /\ req[slot[i].v] # <<>>
          \/ e = "out" /\ slot[i].out # <<>> /\ Len(wire[slot[i].v]) < SockCap}

\* poll().  Without any event the step ends here, dead clients included; the
\* events of a client already dead are not looked at.
Poll ==
    /\ at = "poll"
    /\ LET events == {e \in Slots \X {"hup", "in", "out"} : e[2] \in Ready(e[1])}
       IN /\ revents' = {e \in events : e[2] = "hup" \/ ~slot[e[1]].dead}
          /\ at' = IF events = {} /\ backlog = <<>> THEN "pump" ELSE "serve"
    /\ UNCHANGED <<audioVars, viewerVars, serverVars>>

\* One round of server_accept; without a slot the connection is closed again.
Accept ==
    /\ at = "serve" /\ backlog # <<>>
    /\ LET v == Head(backlog)
           free == {i \in Slots : ~Used(i)}
       IN IF free = {}
            THEN /\ conn' = [conn EXCEPT ![v] = "shut"]
                 /\ UNCHANGED <<slot, nextId>>
            ELSE /\ slot' = [slot EXCEPT ![Least(free)] =
                                [FreeSlot EXCEPT !.v = v, !.id = nextId]]
                 /\ nextId' = nextId + 1
                 /\ UNCHANGED conn
    /\ backlog' = Tail(backlog)
    /\ UNCHANGED <<loopVars, audioVars, req, seenVars, wire, gap>>

\* The backlog is drained: the clients' turn.
Serving == at = "serve" /\ backlog = <<>>

\* slot_drain_read takes the next line of the slot whose turn it is, also
\* when the answer to an earlier one has marked the slot dead.
NextLine(kind) ==
    /\ Serving /\ revents # {}
    /\ <<Turn, "in">> \in revents /\ <<Turn, "hup">> \notin revents
    /\ req[slot[Turn].v] # <<>>
    /\ Head(req[slot[Turn].v]) = kind
    /\ req' = [req EXCEPT ![slot[Turn].v] = Tail(@)]
    /\ UNCHANGED <<loopVars, conn, seenVars, backlog, nextId>>

\* ipc_on_event: a hello is answered by a welcome.
ReadHello ==
    /\ NextLine("hello")
    /\ Deliver(Turn, Send(Outbox(Turn), NoAudio))
    /\ UNCHANGED audioVars

-----------------------------------------------------------------------------
(* operator_audio_handle_ctl.                                              *)

\* find_slot, find_free_slot.
SubOf(id) == {k \in Subs : subs[k].on /\ subs[k].id = id}
FreeSubs == {k \in Subs : ~subs[k].on}

\* update_tap; switching on empties the ring.
SetTap(on) ==
    /\ tap' = on
    /\ ring' = IF on /\ ~tap THEN 0 ELSE ring

\* Mutant of ReadOff: the number of listeners is left alone.
ReadOffKeepsCount ==
    /\ NextLine("off")
    /\ LET mine == SubOf(slot[Turn].id)
           k == Least(mine)
           o == IF mine = {} THEN Outbox(Turn) ELSE Sink(Outbox(Turn), subs[k])
       IN /\ subs' = IF mine = {} THEN subs ELSE [subs EXCEPT ![k] = FreeSub]
          /\ gn' = gn
          /\ SetTap(gn' > 0)
          /\ Deliver(Turn, Send(o, NoAudio))
    /\ UNCHANGED receiver

\* audio-ctl off: drop_slot closes the encoder, which writes a last page.
ReadOff ==
    /\ NextLine("off")
    /\ LET mine == SubOf(slot[Turn].id)
           k == Least(mine)
           o == IF mine = {} THEN Outbox(Turn) ELSE Sink(Outbox(Turn), subs[k])
       IN /\ subs' = IF mine = {} THEN subs ELSE [subs EXCEPT ![k] = FreeSub]
          /\ gn' = IF mine = {} THEN gn ELSE gn - 1
          /\ SetTap(gn' > 0)
          /\ Deliver(Turn, Send(o, NoAudio))
    /\ UNCHANGED receiver

\* audio-ctl on without a receiver, or with every subscription taken.
ReadOnRefused ==
    /\ NextLine("on")
    /\ ~receiver \/ (SubOf(slot[Turn].id) = {} /\ FreeSubs = {})
    /\ Deliver(Turn, Send(Outbox(Turn), NoAudio))
    /\ UNCHANGED audioVars

\* The subscription it has, or a free one.
ChosenSub ==
    LET mine == SubOf(slot[Turn].id)
    IN Least(IF mine # {} THEN mine ELSE FreeSubs)

\* A stream that runs already is closed first.
Restarted ==
    IF subs[ChosenSub].on THEN Sink(Outbox(Turn), subs[ChosenSub]) ELSE Outbox(Turn)

\* audio-ctl on: the encoder sends its header page, the start frame.
ReadOn ==
    /\ NextLine("on")
    /\ receiver
    /\ SubOf(slot[Turn].id) \cup FreeSubs # {}
    /\ LET k == ChosenSub
           new == [on |-> TRUE, id |-> slot[Turn].id, for |-> slot[Turn].v,
                   started |-> FALSE]
           o == Sink(Restarted, new)
       IN /\ subs' = [subs EXCEPT ![k] = [new EXCEPT !.started = TRUE]]
          /\ gn' = IF subs[k].on THEN gn ELSE gn + 1
          /\ Deliver(Turn, Send(o, NoAudio))
    /\ SetTap(gn' > 0)
    /\ UNCHANGED receiver

\* The encoder cannot be opened.
ReadOnFails ==
    /\ NextLine("on")
    /\ receiver
    /\ SubOf(slot[Turn].id) \cup FreeSubs # {}
    /\ LET k == ChosenSub
       IN /\ subs' = [subs EXCEPT ![k].on = FALSE]
          /\ gn' = IF subs[k].on THEN gn - 1 ELSE gn
          /\ Deliver(Turn, Send(Restarted, NoAudio))
    /\ SetTap(gn' > 0)
    /\ UNCHANGED receiver

-----------------------------------------------------------------------------

\* Mutant of ServeNext: the loop ends after the first slot.
ServeNextOnlyFirst ==
    /\ Serving /\ revents # {}
    /\ LET hup == <<Turn, "hup">> \in revents
           more == <<Turn, "in">> \in revents /\ req[slot[Turn].v] # <<>>
           out == <<Turn, "out">> \in revents
       IN /\ hup \/ ~more
          /\ Deliver(Turn,
               IF hup THEN [Outbox(Turn) EXCEPT !.s.dead = TRUE]
               ELSE IF out /\ ~slot[Turn].dead THEN DrainWrite(Outbox(Turn))
               ELSE Outbox(Turn))
    /\ revents' = {}
    /\ UNCHANGED <<at, audioVars, viewerVars, nextId>>

\* The rest of a slot's turn: a hang-up kills it, a writable one is drained.
ServeNext ==
    /\ Serving /\ revents # {}
    /\ LET hup == <<Turn, "hup">> \in revents
           more == <<Turn, "in">> \in revents /\ req[slot[Turn].v] # <<>>
           out == <<Turn, "out">> \in revents
       IN /\ hup \/ ~more
          /\ Deliver(Turn,
               IF hup THEN [Outbox(Turn) EXCEPT !.s.dead = TRUE]
               ELSE IF out /\ ~slot[Turn].dead THEN DrainWrite(Outbox(Turn))
               ELSE Outbox(Turn))
    /\ revents' = {e \in revents : e[1] # Turn}
    /\ UNCHANGED <<at, audioVars, viewerVars, nextId>>

\* The viewers whose slots are dead; what they have sent is lost.
DeadViewers == {slot[i].v : i \in {j \in Slots : slot[j].dead}}
Lost(V) ==
    /\ req' = [v \in Viewers |-> IF v \in V THEN <<>> ELSE req[v]]
    /\ gap' = gap \ V

\* slot_close for every dead slot.
CloseDead ==
    /\ Serving /\ revents = {}
    /\ slot' = [i \in Slots |-> IF slot[i].dead THEN FreeSlot ELSE slot[i]]
    /\ conn' = [v \in Viewers |-> IF v \in DeadViewers THEN "shut" ELSE conn[v]]
    /\ Lost(DeadViewers)
    /\ at' = "pump"
    /\ UNCHANGED <<revents, audioVars, nextId, wire, seenVars, backlog>>

-----------------------------------------------------------------------------
(* The rest of the tick.                                                   *)

\* The slots in the domain of o go on with the outboxes it gives them.
DeliverAll(o) ==
    /\ slot' = [i \in Slots |-> IF i \in DOMAIN o THEN o[i].s ELSE slot[i]]
    /\ wire' = [v \in Viewers |->
                  IF \E i \in DOMAIN o : slot[i].v = v
                    THEN o[CHOOSE i \in DOMAIN o : slot[i].v = v].w ELSE wire[v]]
    /\ gap' = gap \cup {slot[i].v : i \in {j \in DOMAIN o : o[j].gap}}

\* A page of its encoder for each slot of S.
Pages(S) == [i \in S |-> Sink(Outbox(i), subs[Least(SubOf(slot[i].id))])]

\* operator_audio_pump: one batch through every encoder.
Pump ==
    /\ at = "pump"
    /\ gn > 0 /\ ring > 0
    /\ DeliverAll(Pages({i \in Slots : Used(i) /\ SubOf(slot[i].id) # {}}))
    /\ ring' = ring - 1
    /\ UNCHANGED <<loopVars, viewerVars, nextId, subs, gn, tap, receiver>>

\* Clients sso_ipc_server_next_client finds.
LiveIds == {slot[i].id : i \in {j \in Slots : Used(j) /\ ~slot[j].dead}}

\* operator_audio_prune; a client marked dead may still get a last page.
Prune ==
    /\ at = "pump"
    /\ gn = 0 \/ ring = 0
    /\ LET stale == {k \in Subs : subs[k].on /\ subs[k].id \notin LiveIds}
       IN /\ DeliverAll(Pages({i \in Slots :
                              Used(i) /\ SubOf(slot[i].id) \cap stale # {}}))
          /\ subs' = [k \in Subs |-> IF k \in stale THEN FreeSub ELSE subs[k]]
          /\ gn' = gn - Cardinality(stale)
          /\ IF stale # {} THEN SetTap(gn' > 0) ELSE UNCHANGED <<tap, ring>>
    /\ at' = "broadcast"
    /\ UNCHANGED <<revents, viewerVars, nextId, receiver>>

\* ipc_broadcast_state, when its period is over.
Broadcast ==
    /\ at = "broadcast"
    /\ DeliverAll([i \in {j \in Slots : Used(j) /\ ~slot[j].dead} |->
                      Send(Outbox(i), NoAudio)])
    /\ at' = "poll"
    /\ UNCHANGED <<revents, viewerVars, nextId, audioVars>>

NotYet ==
    /\ at = "broadcast"
    /\ at' = "poll"
    /\ UNCHANGED <<revents, viewerVars, serverVars, audioVars>>

\* The end of main(): operator_audio_shutdown, sso_ipc_server_close.
Shutdown ==
    /\ at = "poll"
    /\ at' = "over"
    /\ subs' = [k \in Subs |-> FreeSub] /\ gn' = 0 /\ SetTap(FALSE)
    /\ slot' = [i \in Slots |-> FreeSlot]
    /\ conn' = [v \in Viewers |-> IF conn[v] = "open" THEN "shut" ELSE conn[v]]
    /\ backlog' = <<>>
    /\ Lost(Viewers)
    /\ UNCHANGED <<revents, nextId, wire, seenVars, receiver>>

Over == at = "over" /\ UNCHANGED vars

-----------------------------------------------------------------------------

Serve == \/ Accept
         \/ ReadHello \/ ReadOff
         \/ ReadOnRefused \/ ReadOn \/ ReadOnFails
         \/ ServeNext \/ CloseDead

Tick == Pump \/ Prune \/ Broadcast \/ NotYet

Viewer(v) == Connect(v) \/ Request(v) \/ ClientRead(v) \/ ClientClose(v)

Next == \/ Poll \/ Serve \/ Tick \/ PushAudio \/ Shutdown \/ Over
        \/ \E v \in Viewers : Viewer(v)

Spec == Init /\ [][Next]_vars

\* The main loop keeps turning until it is left, and one viewer never leaves
\* its socket unread for ever; the others may stall.  (Both follow from weak
\* fairness of the loop's steps and of the viewer's, and are cheaper to check.)
FairSpec ==
    /\ Spec
    /\ <>[](at = "over") \/ []<><<Poll>>_vars
    /\ []<>(wire[Reader] = <<>>)

-----------------------------------------------------------------------------
(* Properties.                                                             *)

Lines == Viewers \cup {NoAudio}
HalfLines == Lines \X {1, 2}

TypeOK ==
    /\ at \in {"poll", "serve", "pump", "broadcast", "over"}
    /\ revents \subseteq Slots \X {"hup", "in", "out"}
    /\ slot \in [Slots -> [v : Viewers \cup {None}, id : Nat,
                           out : Seq(HalfLines), dead : BOOLEAN]]
    /\ \A i \in Slots : Len(slot[i].out) <= WriteCap
    /\ nextId \in Nat \ {0}
    /\ subs \in [Subs -> [on : BOOLEAN, id : Nat, for : Viewers \cup {None},
                          started : BOOLEAN]]
    /\ gn \in Nat /\ tap \in BOOLEAN /\ ring \in 0 .. RingCap
    /\ receiver \in BOOLEAN
    /\ backlog \in Seq(Viewers)
    /\ conn \in [Viewers -> {"new", "open", "closed", "shut"}]
    /\ req \in [Viewers -> Seq(Kinds \cup {"hello"})]
    /\ wire \in [Viewers -> Seq(HalfLines)]
    /\ half \in [Viewers -> Seq(HalfLines)]
    /\ \A v \in Viewers : Len(wire[v]) <= SockCap /\ Len(half[v]) <= 1
    /\ gap \subseteq Viewers /\ wrong \subseteq Viewers

\* Half lines on their way to v, oldest first.
InFlight(v) ==
    LET mine == {i \in Slots : slot[i].v = v}
    IN half[v] \o wire[v]
       \o (IF mine = {} THEN <<>> ELSE slot[CHOOSE i \in mine : TRUE].out)

\* The halves of f are pairs, and each pair a line that viewer v may get.
Paired(f, v) ==
    \A j \in 1 .. Len(f) \div 2 :
        /\ f[2 * j - 1] = <<f[2 * j][1], 1>> /\ f[2 * j][2] = 2
        /\ f[2 * j][1] \in {NoAudio, v}

\* What is on its way to a connected viewer is whole lines, and a viewer that
\* misses a line other than audio is given up: it never goes on with a gap
\* (slot_queue, slot_queue_lossy and slot_drain_write on one byte buffer).
\* And no viewer ever decoded a torn line or a frame of a stream it did not ask
\* for, whatever slots and subscriptions were reused (client ids, find_slot,
\* the prune of subscriptions).
StreamIntact ==
    /\ wrong = {}
    /\ \A i \in Slots : Used(i) /\ conn[slot[i].v] = "open" =>
         LET f == InFlight(slot[i].v)
         IN /\ Len(f) % 2 = 0
            /\ Paired(f, slot[i].v)
            /\ slot[i].v \in gap => slot[i].dead

\* g_n is the number of subscriptions, the RX worker's tap is on exactly
\* while somebody listens, and after the sweep every listener is connected.
ListenersCounted ==
    /\ gn = Cardinality({k \in Subs : subs[k].on})
    /\ tap <=> gn > 0
    /\ at = "broadcast" =>
         \A k \in Subs : subs[k].on => subs[k].id \in LiveIds

\* No connection is left without a slot: a viewer that believes it is
\* connected waits for accept or has one slot of its own.
NobodyForgotten ==
    \A v \in Viewers : conn[v] = "open" /\ at # "over" =>
        Cardinality({i \in Slots : slot[i].v = v})
          + Cardinality({j \in 1 .. Len(backlog) : backlog[j] = v}) = 1

\* The server's and the audio module's tables agree with the connections,
\* through every reuse of a slot, failed encoder and viewer that hangs up
\* (server_accept, slot_close, drop_slot and operator_audio_prune).
TablesExact == ListenersCounted /\ NobodyForgotten

\* A viewer that reads is served whatever the others do: whenever its socket
\* is empty and something is queued for it, the server writes or disconnects
\* it, even if another one stalls for ever with full buffers.  (server_step
\* and broadcast never wait for one slot.)
SlowViewerHarmless ==
    (/\ conn[Reader] = "open"
     /\ wire[Reader] = <<>>
     /\ \E i \in Slots : slot[i].v = Reader /\ slot[i].out # <<>>)
        ~> (conn[Reader] # "open" \/ wire[Reader] # <<>>)

\* A slot given up is freed again as soon as its viewer reads, although a step
\* in which poll() reports nothing leaves dead slots alone.
DeadSlotFreed ==
    (\E i \in Slots : slot[i].v = Reader /\ slot[i].dead)
        ~> (\A i \in Slots : slot[i].v # Reader)
=============================================================================
