------------------------------ MODULE Channel ------------------------------
(***************************************************************************)
(* Two channels (src/src/transport/channel/channel.c) that share one ready *)
(* connection: streams with byte credit, half close, the two-way RESET,    *)
(* refusal of an OPEN when no slot is free, GOAWAY drain with its          *)
(* admission boundary, and the maintenance timer that retries what the     *)
(* reactor refused.                                                        *)
(*                                                                         *)
(* ch[p] is the struct tr_channel of peer p.  Its field `out` holds the    *)
(* frames p's reactor has accepted and the other peer has not yet taken.   *)
(* As ReactorTx shows, they leave in order of acceptance, except that a    *)
(* WINDOW_UPDATE may overtake DATA.  The reactor may refuse any ordinary   *)
(* send (TR_AGAIN): the parameter `room` says whether it has capacity.     *)
(* RESET and REFUSED share one reserved item per connection (`reserved`).  *)
(*                                                                         *)
(* A handler runs on the owner; what it does under channel->lock in        *)
(* several sections is one step here, because every section after the      *)
(* first looks the stream up again by its handle.  Application threads     *)
(* (open, send, close, release) interleave with the handlers.              *)
(***************************************************************************)
EXTENDS Naturals, Sequences, FiniteSets, FiniteSetsExt, SequencesExt

CONSTANTS
  ClientStreams, ServerStreams,  \* max_streams of each channel
  Window, Threshold,             \* initial_window_bytes, its update threshold
  MaxMessage, MaxFrame,          \* negotiated message and frame payload limit
  MaxOpens,                      \* bound: calls of tr_stream_open per peer
  Plans                          \* what the applications may do, see PlanType

Peers == {"client", "server"}

\* The peers that open, send, drain and reset; max_bytes bounds the bytes sent
\* on one stream side; stops_credit: the caller stops credit before a close;
\* may_fail: the connection may break.
PlanType ==
  [openers : SUBSET Peers, senders : SUBSET Peers, drainers : SUBSET Peers,
   resetters : SUBSET Peers, max_bytes : Nat, stops_credit : BOOLEAN,
   may_fail : BOOLEAN]

ASSUME ChannelAssumption ==
  /\ {ClientStreams, ServerStreams, Window, Threshold, MaxMessage, MaxFrame}
       \subseteq Nat \ {0}
  /\ MaxOpens \in Nat /\ Plans # {} /\ Plans \subseteq PlanType

\* plan never changes: it is the use a behaviour makes of its two channels.
VARIABLES ch, plan

vars == <<ch, plan>>

Other(p) == IF p = "client" THEN "server" ELSE "client"

Slots(p) == 1 .. (IF p = "client" THEN ClientStreams ELSE ServerStreams)

FirstId(p) == IF p = "client" THEN 1 ELSE 2

tr_stream_id_is_local(p, id) == id # 0 /\ id % 2 = FirstId(p) % 2

(***************************************************************************)
(* A frame: value is the credit limit, the message id or the GOAWAY cutoff.*)
(***************************************************************************)
Frame(type, id, value) ==
  [type |-> type, id |-> id, value |-> value,
   len |-> 0, first |-> FALSE, last |-> FALSE]

\* One message of len bytes, cut into frames of at most MaxFrame bytes.
DataFrames(id, message_id, len) ==
  LET count == (len + MaxFrame - 1) \div MaxFrame
  IN  [i \in 1 .. count |->
        [type |-> "DATA", id |-> id, value |-> message_id,
         len |-> IF i < count THEN MaxFrame ELSE len - (count - 1) * MaxFrame,
         first |-> i = 1, last |-> i = count]]

\* struct tr_stream_slot.  reassembly counts the bytes of an unfinished
\* message: in rx_reassembly, or already discarded once RESETTING.
FreeStream ==
  [state |-> "FREE", id |-> 0, local_open |-> FALSE, remote_open |-> FALSE,
   tx_sent |-> 0, tx_send_limit |-> 0, tx_window |-> 0, next_tx |-> 1,
   rx_received |-> 0, rx_consumed |-> 0, rx_advertised |-> 0, pending |-> 0,
   next_rx |-> 1, rx_credit_stopped |-> FALSE, reassembly |-> 0,
   reset_sent |-> FALSE, reset_received |-> FALSE]

NewStream(id, state) ==
  [FreeStream EXCEPT !.state = state, !.id = id, !.local_open = TRUE,
                     !.remote_open = TRUE, !.rx_advertised = Window]

NoDrain ==
  [local_started |-> FALSE, local_cutoff |-> 0, peer_started |-> FALSE,
   peer_cutoff |-> 0, last_peer_admitted |-> 0, last_local_accepted |-> 0,
   goaway_accepted |-> FALSE, tx_wait_requested |-> FALSE, tx_drained |-> FALSE]

NewChannel(p) ==
  [role |-> p, alive |-> TRUE, failure |-> "none",
   streams |-> [s \in Slots(p) |-> FreeStream],
   next_local_stream_id |-> FirstId(p), peer_stream_frontier |-> 0,
   pending_open |-> 0, pending_refused |-> 0, refused_last |-> FALSE,
   reset_cursor |-> 1, reset_retry |-> FALSE, window_retry |-> FALSE,
   drain_retry |-> FALSE, local_draining |-> FALSE, drain |-> NoDrain,
   armed |-> FALSE,        \* the maintenance timer is armed for a retry
   kick |-> FALSE,         \* a releasing thread is about to arm it
   rx_held |-> FALSE, watching |-> FALSE, observing |-> FALSE,
   reserved |-> FALSE, out |-> <<>>]

Init == ch = [p \in Peers |-> NewChannel(p)] /\ plan \in Plans

-----------------------------------------------------------------------------
(* Slots and frames                                                        *)

Live(c) == {s \in DOMAIN c.streams : c.streams[s].state # "FREE"}

\* At most one live slot carries an id; the empty set is lookup failure.
tr_stream_lookup_id(c, id) == {s \in Live(c) : c.streams[s].id = id}

Send(c, frame) == [c EXCEPT !.out = Append(@, frame)]

tr_stream_free_locked(c, s) ==
  [c EXCEPT !.streams[s] = FreeStream,
            !.pending_open = IF @ = s THEN 0 ELSE @]

\* The free list is abstracted to the lowest free slot.
FreeSlots(c) == DOMAIN c.streams \ Live(c)

ArmTimer(c) == [c EXCEPT !.armed = TRUE]

\* The connection is gone: every stream fails and all that waited for the
\* connection is dropped.
tr_channel_on_connection_event(c) ==
  [c EXCEPT !.alive = FALSE, !.pending_refused = 0, !.refused_last = FALSE,
            !.streams = [s \in DOMAIN c.streams |-> FreeStream],
            !.pending_open = 0, !.rx_held = FALSE, !.watching = FALSE,
            !.observing = FALSE, !.reserved = FALSE, !.drain_retry = FALSE]

tr_channel_protocol_error(c, reason) ==
  [tr_channel_on_connection_event(c) EXCEPT !.failure = reason]

-----------------------------------------------------------------------------
(* Receive credit                                                          *)

\* Consumed bytes that may stay unadvertised, plus one: never so many that
\* the rest of the window is too small for the largest message.
EffectiveThreshold ==
  Min({Threshold, Window - Min({MaxMessage, Window}) + 1})

SendWindowUpdateForReceived(c, s, room) ==
  LET st == c.streams[s]
      target == st.rx_received + Window
  IN  IF st.rx_credit_stopped \/ target <= st.rx_advertised
        THEN [c EXCEPT !.streams[s].pending = 0]
      ELSE IF room
        THEN Send([c EXCEPT !.streams[s].pending = 0,
                            !.streams[s].rx_advertised = target],
                  Frame("WINDOW_UPDATE", st.id, target))
        ELSE [c EXCEPT !.streams[s].pending = target, !.window_retry = TRUE]

tr_send_window_update_locked(c, s, room) ==
  LET st == c.streams[s]
      target == st.rx_consumed + Window
      limit == Max({target, st.pending})
  IN  IF st.rx_credit_stopped \/ target <= st.rx_advertised
        THEN [c EXCEPT !.streams[s].pending = 0]
      ELSE IF target - st.rx_advertised < EffectiveThreshold /\ st.pending = 0
        THEN c
      ELSE IF room
        THEN Send([c EXCEPT !.streams[s].pending = 0,
                            !.streams[s].rx_advertised = limit],
                  Frame("WINDOW_UPDATE", st.id, limit))
        ELSE [c EXCEPT !.streams[s].pending = limit, !.window_retry = TRUE]

\* The retry loop of the timer and of tr_channel_flush.
RetryCredit(c, room) ==
  FoldSet(LAMBDA s, d : tr_send_window_update_locked(d, s, room), c,
          {s \in Live(c) : c.streams[s].pending # 0})

-----------------------------------------------------------------------------
(* Termination: refusal, RESET, admission of an OPEN that waited           *)

Draining(c) == c.local_draining \/ c.drain.local_started

SendReserved(c, frame) == [Send(c, frame) EXCEPT !.reserved = TRUE]

UnsentReset(c) ==
  {s \in Live(c) : c.streams[s].state = "RESETTING" /\ ~c.streams[s].reset_sent}

tr_channel_refusal_progress_on_owner(c) ==
  IF c.pending_refused = 0 THEN c
  ELSE IF Draining(c)
    THEN [c EXCEPT !.pending_refused = 0, !.rx_held = FALSE]
  ELSE IF c.reserved \/ (c.refused_last /\ UnsentReset(c) # {}) THEN c
  ELSE [SendReserved(c, Frame("REFUSED", c.pending_refused, 0))
          EXCEPT !.pending_refused = 0, !.rx_held = FALSE, !.refused_last = TRUE]

Admit(c, s) ==
  [Send(c, Frame("WINDOW_UPDATE", c.streams[s].id, c.streams[s].rx_advertised))
     EXCEPT !.streams[s].state = "OPEN",
            !.drain.last_peer_admitted = c.streams[s].id]

Resume(c) == [c EXCEPT !.pending_open = 0, !.rx_held = FALSE, !.watching = FALSE]

OpenProgressIgnoresDrain(c, room) ==
  LET d == tr_channel_refusal_progress_on_owner(c)
      s == d.pending_open
  IN  IF s = 0 THEN d
      ELSE IF room THEN Resume(Admit(d, s))
      ELSE [d EXCEPT !.watching = TRUE]

tr_channel_open_progress_on_owner(c, room) ==
  LET d == tr_channel_refusal_progress_on_owner(c)
      s == d.pending_open
  IN  IF s = 0 THEN d
      ELSE IF Draining(d) THEN Resume(tr_stream_free_locked(d, s))
      ELSE IF room THEN Resume(Admit(d, s))
      ELSE [d EXCEPT !.watching = TRUE]

\* Local RESET state of a stream; a partial message counts as consumed.
tr_stream_reset_begin_locked(c, s) ==
  [c EXCEPT !.reset_retry = TRUE,
            !.streams[s] = [@ EXCEPT !.state = "RESETTING",
                                     !.rx_consumed = @ + c.streams[s].reassembly,
                                     !.local_open = FALSE,
                                     !.rx_credit_stopped = TRUE, !.pending = 0]]

ResetVisitAfterOwnReset(c, s) ==
  IF s \notin UnsentReset(c) THEN c
  ELSE IF c.reserved THEN [c EXCEPT !.reset_retry = TRUE]
  ELSE tr_stream_free_locked(SendReserved(c, Frame("RESET", c.streams[s].id, 0)), s)

ResetVisitForgetsRetry(c, s) ==
  LET d == IF s \notin UnsentReset(c) \/ c.reserved THEN c
           ELSE [SendReserved(c, Frame("RESET", c.streams[s].id, 0))
                   EXCEPT !.streams[s].reset_sent = TRUE]
      st == d.streams[s]
  IN  IF st.state = "RESETTING" /\ st.reset_sent /\ st.reset_received
        THEN tr_stream_free_locked(d, s)
        ELSE d

\* One visited slot: send its RESET when the reserved item is free, and
\* retire the stream once RESET went both ways.
ResetVisit(c, s) ==
  LET d == IF s \notin UnsentReset(c) THEN c
           ELSE IF c.reserved THEN [c EXCEPT !.reset_retry = TRUE]
           ELSE [SendReserved(c, Frame("RESET", c.streams[s].id, 0))
                   EXCEPT !.streams[s].reset_sent = TRUE, !.refused_last = FALSE,
                          !.reset_cursor = (s % Len(c.streams)) + 1]
      st == d.streams[s]
  IN  IF st.state = "RESETTING" /\ st.reset_sent /\ st.reset_received
        THEN tr_stream_free_locked(d, s)
        ELSE d

tr_channel_reset_progress_on_owner(c) ==
  LET n == Len(c.streams)
      order == [i \in 1 .. n |-> ((c.reset_cursor + i - 2) % n) + 1]
  IN  FoldLeft(ResetVisit,
               tr_channel_refusal_progress_on_owner(
                 [c EXCEPT !.reset_retry = FALSE]), order)

-----------------------------------------------------------------------------
(* Drain                                                                   *)

tr_channel_drained_locked(c) ==
  /\ c.local_draining /\ Live(c) = {}
  /\ c.alive => /\ c.drain.local_started /\ c.drain.peer_started
                /\ c.drain.goaway_accepted /\ c.drain.tx_drained

\* GOAWAY once; when both directions have stopped and no stream is left, ask
\* once for the TX_DRAINED notification.
SendGoaway(c) ==
  IF c.alive /\ c.drain.local_started /\ ~c.drain.goaway_accepted
    THEN [Send(c, Frame("GOAWAY", 0, c.drain.local_cutoff))
            EXCEPT !.drain.goaway_accepted = TRUE]
    ELSE c

RequestTxDrained(c) ==
  IF /\ c.alive /\ c.drain.goaway_accepted /\ c.drain.peer_started
     /\ Live(c) = {} /\ ~c.drain.tx_wait_requested
    THEN [c EXCEPT !.drain.tx_wait_requested = TRUE, !.observing = TRUE]
    ELSE c

tr_channel_drain_progress_on_owner(c) ==
  LET d == RequestTxDrained(SendGoaway(c))
  IN  [d EXCEPT !.drain_retry = d.alive /\ d.drain.local_started
                                 /\ ~d.drain.tx_drained]

StartLocalDrain(c) ==
  IF c.drain.local_started THEN c
  ELSE [c EXCEPT !.drain.local_started = TRUE,
                 !.drain.local_cutoff = c.drain.last_peer_admitted]

-----------------------------------------------------------------------------
(* Frame handlers: the channel after frame f                               *)

tr_channel_handle_stream_open(c, f, room) ==
  LET d == [c EXCEPT !.peer_stream_frontier = f.id]
      s == Min(FreeSlots(d))
      e == [d EXCEPT !.streams[s] = [NewStream(f.id, "ACCEPTING") EXCEPT
                                       !.tx_send_limit = f.value,
                                       !.tx_window = f.value]]
      r == tr_channel_reset_progress_on_owner(d)
  IN  IF \/ tr_stream_id_is_local(c.role, f.id) \/ c.drain.peer_started
         \/ f.id <= c.peer_stream_frontier \/ tr_stream_lookup_id(c, f.id) # {}
        THEN tr_channel_protocol_error(c, "protocol")
      ELSE IF Draining(d) THEN d
      ELSE IF FreeSlots(d) # {}
        THEN IF room THEN Admit(e, s)
             ELSE ArmTimer([e EXCEPT !.pending_open = s, !.rx_held = TRUE,
                                     !.watching = TRUE])
      ELSE IF r.reserved
        THEN ArmTimer([r EXCEPT !.pending_refused = f.id, !.rx_held = TRUE])
      ELSE [SendReserved(r, Frame("REFUSED", f.id, 0)) EXCEPT !.refused_last = TRUE]

tr_channel_handle_stream_refused(c, f) ==
  LET found == {s \in tr_stream_lookup_id(c, f.id) :
                  /\ c.streams[s].state = "OPENING"
                  /\ tr_stream_id_is_local(c.role, f.id)}
  IN  IF found = {} THEN tr_channel_protocol_error(c, "protocol")
      ELSE tr_stream_free_locked(c, Min(found))

tr_channel_handle_window_update(c, f) ==
  LET found == {s \in tr_stream_lookup_id(c, f.id) :
                  f.value >= Max({c.streams[s].tx_send_limit,
                                  c.streams[s].tx_sent})}
      s == Min(found)
      st == c.streams[s]
      d == [c EXCEPT
             !.streams[s].tx_send_limit = f.value,
             !.drain.last_local_accepted =
               IF tr_stream_id_is_local(c.role, f.id) THEN Max({@, f.id}) ELSE @]
  IN  IF found = {} \/ (st.state = "RESETTING" /\ st.reset_received)
        THEN tr_channel_protocol_error(c, "protocol")
      ELSE IF st.state = "OPENING"
        THEN [d EXCEPT !.streams[s].state = "OPEN", !.streams[s].tx_window = f.value]
      ELSE d

\* A frame the stream may receive at all: in order, within credit, and the
\* continuation of an unfinished message exactly when there is one.
InOrder(st, f) ==
  /\ st.remote_open /\ ~st.reset_received
  /\ st.rx_received + f.len <= st.rx_advertised
  /\ f.value = st.next_rx /\ (f.first <=> st.reassembly = 0)
  /\ st.reassembly + f.len <= MaxMessage

Received(st, f) ==
  [st EXCEPT !.rx_received = @ + f.len,
             !.next_rx = IF f.last THEN @ + 1 ELSE @,
             !.reassembly = IF f.last THEN 0 ELSE @ + f.len]

tr_stream_reset_discard_locked(st, f) ==
  [Received(st, f) EXCEPT !.rx_consumed = @ + f.len]

\* No reassembly buffer: the stream is reset and the frame discarded, unless
\* the local side is closed already, which leaves only the connection to fail.
tr_channel_fail_stream_receive_on_owner(c, s, f) ==
  IF ~c.streams[s].local_open THEN tr_channel_protocol_error(c, "resource")
  ELSE tr_channel_reset_progress_on_owner(
         [tr_stream_reset_begin_locked(ArmTimer(c), s) EXCEPT
            !.streams[s] = tr_stream_reset_discard_locked(@, f)])

\* Two peers never send a frame that is not InOrder unless something is
\* wrong; the code resets the stream for a bad message id and breaks the
\* connection for the rest, here every case is a protocol failure.
tr_channel_handle_data(c, f, memory) ==
  LET found == {s \in tr_stream_lookup_id(c, f.id) :
                  /\ c.streams[s].state \in {"OPEN", "RESETTING"}
                  /\ InOrder(c.streams[s], f)}
      s == Min(found)
  IN  IF found = {} THEN tr_channel_protocol_error(c, "protocol")
      ELSE IF c.streams[s].state = "RESETTING"
        THEN [c EXCEPT !.streams[s] = tr_stream_reset_discard_locked(@, f)]
      ELSE IF f.first /\ ~f.last /\ ~memory
        THEN tr_channel_fail_stream_receive_on_owner(c, s, f)
      ELSE [c EXCEPT !.streams[s] = Received(@, f)]

tr_channel_handle_stream_close(c, f) ==
  LET found == {s \in tr_stream_lookup_id(c, f.id) :
                  c.streams[s].state # "OPENING" /\ ~c.streams[s].reset_received}
      s == Min(found)
      d == [c EXCEPT !.streams[s].remote_open = FALSE]
  IN  IF found = {} THEN tr_channel_protocol_error(c, "protocol")
      ELSE IF c.streams[s].state # "RESETTING" /\ ~c.streams[s].local_open
        THEN tr_stream_free_locked(d, s)
      ELSE d

\* Each side sends RESET once per stream, so the tombstones that absorb a
\* repeated RESET are left out: an unknown stream is a protocol failure.
tr_channel_handle_stream_reset(c, f) ==
  LET found == tr_stream_lookup_id(c, f.id)
      s == Min(found)
      d == IF c.streams[s].state = "RESETTING" THEN ArmTimer(c)
           ELSE tr_stream_reset_begin_locked(ArmTimer(c), s)
  IN  IF found = {} THEN tr_channel_protocol_error(c, "protocol")
      ELSE tr_channel_reset_progress_on_owner(
             [d EXCEPT !.streams[s].reset_received = TRUE,
                       !.streams[s].remote_open = FALSE])

LocalStreams(c) ==
  {s \in Live(c) : tr_stream_id_is_local(c.role, c.streams[s].id)}

\* Local streams the peer never admitted end with the GOAWAY.
tr_channel_handle_goaway(c, f) ==
  LET beyond == {s \in LocalStreams(c) : c.streams[s].id > f.value}
      opening == {s \in LocalStreams(c) : c.streams[s].state = "OPENING"}
      d == StartLocalDrain([ArmTimer(c) EXCEPT !.drain.peer_started = TRUE,
                                               !.drain.peer_cutoff = f.value])
  IN  IF \/ f.value # c.drain.last_local_accepted
         \/ c.drain.peer_started /\ f.value # c.drain.peer_cutoff
         \/ ~c.drain.peer_started /\ beyond # opening
        THEN tr_channel_protocol_error(c, "protocol")
      ELSE IF c.drain.peer_started THEN c
      ELSE FoldSet(LAMBDA s, e : tr_stream_free_locked(e, s),
                   tr_channel_drain_progress_on_owner(d), opening)

tr_channel_on_frame(c, f, room, memory) ==
  LET d == CASE f.type = "OPEN" -> tr_channel_handle_stream_open(c, f, room)
             [] f.type = "REFUSED" -> tr_channel_handle_stream_refused(c, f)
             [] f.type = "WINDOW_UPDATE" -> tr_channel_handle_window_update(c, f)
             [] f.type = "DATA" -> tr_channel_handle_data(c, f, memory)
             [] f.type = "CLOSE" -> tr_channel_handle_stream_close(c, f)
             [] f.type = "RESET" -> tr_channel_handle_stream_reset(c, f)
             [] f.type = "GOAWAY" -> tr_channel_handle_goaway(c, f)
  IN  tr_channel_drain_progress_on_owner(d)

-----------------------------------------------------------------------------
(* Calls of the application                                                *)

\* An id is used up whether or not the OPEN gets a slot and is accepted.
StreamOpen(p, room) ==
  LET c == ch[p]
      d == [c EXCEPT !.next_local_stream_id = @ + 2]
      s == Min(FreeSlots(c))
      id == c.next_local_stream_id
  IN  /\ p \in plan.openers /\ c.alive
      /\ ~c.local_draining /\ ~c.drain.peer_started
      /\ id < FirstId(p) + 2 * MaxOpens
      /\ ch' = [ch EXCEPT ![p] =
           IF FreeSlots(c) = {} \/ ~room THEN d
           ELSE Send([d EXCEPT !.streams[s] = NewStream(id, "OPENING")],
                     Frame("OPEN", id, Window))]

\* tr_stream_sendv; a refused call (TR_AGAIN) changes nothing.
StreamSend(p, s, len) ==
  LET st == ch[p].streams[s]
  IN  /\ p \in plan.senders /\ ch[p].alive
      /\ st.state = "OPEN" /\ st.local_open
      /\ len <= st.tx_window /\ st.tx_sent + len <= st.tx_send_limit
      /\ st.tx_sent + len <= plan.max_bytes
      /\ ch' = [ch EXCEPT
           ![p].streams[s] = [@ EXCEPT !.tx_sent = @ + len, !.next_tx = @ + 1],
           ![p].out = @ \o DataFrames(st.id, st.next_tx, len)]

StopCredit(p, s) ==
  LET st == ch[p].streams[s]
  IN  /\ plan.stops_credit
      /\ st.state = "OPEN" /\ st.local_open /\ ~st.rx_credit_stopped
      /\ ch' = [ch EXCEPT ![p].streams[s].rx_credit_stopped = TRUE,
                          ![p].streams[s].pending = 0]

\* tr_stream_close frees the slot itself when the peer has closed already.
StreamClose(p, s) ==
  LET st == ch[p].streams[s]
      c == Send([ch[p] EXCEPT !.streams[s].local_open = FALSE],
                Frame("CLOSE", st.id, 0))
  IN  /\ st.state = "OPEN" /\ st.local_open
      /\ plan.stops_credit => st.rx_credit_stopped
      /\ ch' = [ch EXCEPT ![p] = IF st.remote_open THEN c
                                 ELSE tr_stream_free_locked(c, s)]

StreamReset(p, s) ==
  LET st == ch[p].streams[s]
  IN  /\ p \in plan.resetters /\ st.state = "OPEN" /\ st.local_open
      /\ ch' = [ch EXCEPT ![p] = tr_channel_reset_progress_on_owner(
                                   tr_stream_reset_begin_locked(ArmTimer(@), s))]

\* Bytes handed to the application and not yet released.
Held(st) ==
  st.rx_received - (st.rx_consumed
                      + (IF st.state = "OPEN" THEN st.reassembly ELSE 0))

\* The releasing thread arms the timer itself, in a later step.
KickUnlessSent(c, s) ==
  [c EXCEPT !.kick = @ \/ c.streams[s].pending # 0]

\* tr_stream_release_payload (tr_stream_consume_locked).
Release(p, s, len, room) ==
  /\ ch[p].streams[s].state \in {"OPEN", "RESETTING"}
  /\ len <= Held(ch[p].streams[s])
  /\ ch' = [ch EXCEPT ![p] = KickUnlessSent(tr_send_window_update_locked(
               [@ EXCEPT !.streams[s].rx_consumed = @ + len], s, room), s)]

ScheduleRetry(p) ==
  /\ ch[p].kick
  /\ ch' = [ch EXCEPT ![p].kick = FALSE, ![p].armed = @ \/ ch[p].window_retry]

\* tr_channel_flush; its call of drain progress changes nothing that a
\* handler has not done already, and is taken together with the scan.
Flush(p, room) ==
  LET c == RetryCredit(ch[p], room)
  IN  /\ \E s \in Live(ch[p]) : ch[p].streams[s].pending # 0
      /\ ch' = [ch EXCEPT ![p] = tr_channel_drain_progress_on_owner(
                  [c EXCEPT !.kick = @ \/ ~room])]

BeginDrain(p, room) ==
  LET c == [StartLocalDrain(ArmTimer(ch[p])) EXCEPT !.local_draining = TRUE]
  IN  /\ p \in plan.drainers /\ ~ch[p].local_draining
      /\ ch' = [ch EXCEPT ![p] = tr_channel_drain_progress_on_owner(
                  tr_channel_open_progress_on_owner(c, room))]

-----------------------------------------------------------------------------
(* Events of the reactor                                                   *)

\* DATA may be overtaken by a WINDOW_UPDATE, and by nothing else.
Deliverable(out) ==
  {i \in DOMAIN out : /\ i > 1 => out[i].type = "WINDOW_UPDATE"
                      /\ \A j \in 1 .. i - 1 : out[j].type = "DATA"}

Deliver(p, i, room, memory) ==
  LET q == Other(p)
      f == ch[q].out[i]
  IN  /\ ch[p].alive /\ ~ch[p].rx_held /\ i \in Deliverable(ch[q].out)
      /\ ch' = [ch EXCEPT ![p] = tr_channel_on_frame(@, f, room, memory),
                          ![q].out = RemoveAt(@, i)]

RetryPending(c) ==
  \/ c.window_retry \/ c.reset_retry \/ c.drain_retry
  \/ c.pending_open # 0 \/ c.pending_refused # 0

\* tr_channel_keepalive_timer_main, its retry work.
tr_channel_keepalive_timer_main(c, room) ==
  LET d == tr_channel_open_progress_on_owner(
             tr_channel_reset_progress_on_owner(c), room)
      e == IF d.window_retry
             THEN RetryCredit([d EXCEPT !.window_retry = FALSE], room) ELSE d
      f == tr_channel_drain_progress_on_owner(e)
  IN  [f EXCEPT !.armed = RetryPending(f)]

Maintain(p, room) ==
  /\ ch[p].armed
  /\ ch' = [ch EXCEPT ![p] = tr_channel_keepalive_timer_main(@, room)]

\* The reactor reports that a control frame would now be accepted.
ControlTxReady(p, room) ==
  /\ ch[p].watching
  /\ ch' = [ch EXCEPT ![p] = tr_channel_open_progress_on_owner(
              [@ EXCEPT !.watching = FALSE], room)]

\* The RESET or REFUSED item is written out: its reservation is free again.
TransmitReserved(p) ==
  /\ ch[p].reserved
  /\ ch' = [ch EXCEPT ![p].reserved = FALSE]

TxDrained(p) ==
  /\ ch[p].observing
  /\ ch' = [ch EXCEPT
       ![p].observing = FALSE,
       ![p].drain.tx_drained = @ \/ (ch[p].drain.peer_started /\ Live(ch[p]) = {})]

ConnectionDown(p) ==
  /\ ch[p].alive /\ (plan.may_fail \/ ~ch[Other(p)].alive)
  /\ ch' = [ch EXCEPT ![p] = tr_channel_on_connection_event(@)]

-----------------------------------------------------------------------------
AppStep(p) ==
  \/ \E room \in BOOLEAN :
       StreamOpen(p, room) \/ Flush(p, room) \/ BeginDrain(p, room)
  \/ \E s \in Slots(p) :
       \/ StopCredit(p, s) \/ StreamClose(p, s) \/ StreamReset(p, s)
       \/ \E len \in 1 .. MaxMessage : StreamSend(p, s, len)
       \/ \E len \in 1 .. Window, room \in BOOLEAN : Release(p, s, len, room)

ReactorStep(p) ==
  \/ \E i \in DOMAIN ch[Other(p)].out, room, memory \in BOOLEAN :
       Deliver(p, i, room, memory)
  \/ \E room \in BOOLEAN : Maintain(p, room) \/ ControlTxReady(p, room)
  \/ ScheduleRetry(p) \/ TransmitReserved(p) \/ TxDrained(p) \/ ConnectionDown(p)

Next == (\E p \in Peers : AppStep(p) \/ ReactorStep(p)) /\ UNCHANGED plan

Spec == Init /\ [][Next]_vars

\* The owner thread serves its events, timer and TX; the reactor is not full
\* for ever, so that some maintenance round finds room.  Every step below
\* consumes a frame, a retry or held bytes, and an instance has finitely many
\* of each: served again and again, the step is again and again disabled.
\* Its enabling condition is spelled out, which TLC evaluates much faster
\* than ENABLED.
CanDeliver(p) ==
  ch[p].alive /\ ~ch[p].rx_held /\ ch[Other(p)].out # <<>>

CanMaintain(p) ==
  ch[p].armed /\ tr_channel_keepalive_timer_main(ch[p], TRUE) # ch[p]

CanRelease(p) ==
  \E s \in Slots(p) : /\ ch[p].streams[s].state \in {"OPEN", "RESETTING"}
                      /\ Held(ch[p].streams[s]) > 0

Fairness ==
  \A p \in Peers :
    /\ []<>~CanDeliver(p) /\ []<>~CanMaintain(p)
    /\ []<>~ch[p].kick /\ []<>~ch[p].reserved /\ []<>~ch[p].observing
    /\ []<>(ch[p].alive => ch[Other(p)].alive)

\* In addition the application consumes what it is given and ends a stream
\* once a drain has started.
CallerFairness ==
  \A p \in Peers :
    /\ []<>~CanRelease(p)
    /\ \A s \in Slots(p) :
         []<>~(Draining(ch[p]) /\ ch[p].streams[s].state = "OPEN"
                 /\ ch[p].streams[s].local_open)

FairSpec == Spec /\ Fairness /\ CallerFairness

-----------------------------------------------------------------------------
(* Properties                                                              *)

StreamType(p) ==
  [state : {"FREE", "OPENING", "ACCEPTING", "OPEN", "RESETTING"}, id : Nat,
   local_open : BOOLEAN, remote_open : BOOLEAN,
   tx_sent : 0 .. plan.max_bytes, tx_send_limit : Nat, tx_window : 0 .. Window,
   next_tx : Nat, rx_received : 0 .. plan.max_bytes, rx_consumed : 0 .. plan.max_bytes,
   rx_advertised : Nat, pending : Nat, next_rx : Nat,
   rx_credit_stopped : BOOLEAN, reassembly : 0 .. MaxMessage,
   reset_sent : BOOLEAN, reset_received : BOOLEAN]

\* The streams of both channels stay well formed (struct tr_stream_slot).
TypeOK ==
  \A p \in Peers :
    /\ ch[p].streams \in [Slots(p) -> StreamType(p)]
    /\ ch[p].pending_open \in 0 .. Len(ch[p].streams)
    /\ ch[p].failure \in {"none", "protocol", "resource"}

Both == ch["client"].alive /\ ch["server"].alive

\* Frames of q still on their way to p that match.
InFlight(q, type, id) ==
  {i \in DOMAIN ch[q].out : ch[q].out[i].type = type /\ ch[q].out[i].id = id}

\* Slots pairs of one stream: <<p, slot at p, slot at the other peer>>.
Matched ==
  {m \in UNION {{p} \X Slots(p) \X Slots(Other(p)) : p \in Peers} :
     LET a == ch[m[1]].streams[m[2]]
         b == ch[Other(m[1])].streams[m[3]]
     IN  a.state # "FREE" /\ b.state # "FREE" /\ a.id = b.id}

\* Two channels that run this code never break their connection with a
\* protocol error, whatever order OPEN, DATA, CLOSE, RESET, REFUSED, GOAWAY
\* and WINDOW_UPDATE cross in: every unknown id, stale cutoff and exceeded
\* credit that a handler rejects (tr_channel_protocol_error) is unreachable.
NoProtocolError == \A p \in Peers : ch[p].failure # "protocol"

\* Both ends of a stream account for the same bytes: what one has sent is
\* what the other has received plus what is in flight, a sender never holds
\* more credit than its receiver advertised, and a receiver never has to
\* buffer more than its window (tr_stream_sendv, tr_stream_consume_locked).
CreditConserved ==
  TypeOK /\ (Both => \A m \in Matched :
    LET p == m[1]
        q == Other(p)
        tx == ch[p].streams[m[2]]
        rx == ch[q].streams[m[3]]
        fly == InFlight(p, "DATA", tx.id)
    IN  /\ tx.tx_sent = rx.rx_received
                        + MapThenSumSet(LAMBDA i : ch[p].out[i].len, fly)
        /\ tx.tx_send_limit <= rx.rx_advertised
        /\ rx.rx_advertised <= rx.rx_consumed + Window
        /\ rx.rx_received - rx.rx_consumed <= Window)

\* The frames and pending work of q that will end or answer p's stream id.
Answers(q, id) ==
  \/ \E type \in {"CLOSE", "RESET", "REFUSED"} : InFlight(q, type, id) # {}
  \/ InFlight(q, "GOAWAY", 0) # {} /\ ~tr_stream_id_is_local(q, id)
  \/ ch[q].pending_refused = id
  \/ InFlight(Other(q), "OPEN", id) # {}

\* No stream is left half alive: a stream that one end still holds is held
\* by the other end too, or a frame that ends it is on its way.  And no frame
\* meets an end that cannot make sense of it.
NoOrphanStream ==
  /\ NoProtocolError
  /\ Both => \A p \in Peers : \A s \in Live(ch[p]) :
       LET id == ch[p].streams[s].id
       IN  tr_stream_lookup_id(ch[Other(p)], id) # {} \/ Answers(Other(p), id)

\* The cutoff a peer received is the other's frozen boundary and is exactly the
\* highest of its own streams it saw admitted.
BoundaryAgreed ==
  \A p \in Peers :
    LET d == ch[p].drain
        e == ch[Other(p)].drain
    IN  /\ d.local_started => d.local_cutoff = d.last_peer_admitted
        /\ d.peer_started => /\ d.peer_cutoff = e.local_cutoff
                             /\ d.peer_cutoff = d.last_local_accepted

\* After a GOAWAY both ends agree on which streams were admitted, for ever, and
\* a channel that reported DRAINED stays drained: no late OPEN, RESET or
\* WINDOW_UPDATE revives it (tr_channel_wait_drained may return on it).
DrainBoundary ==
  [][/\ BoundaryAgreed'
     /\ \A p \in Peers : tr_channel_drained_locked(ch[p])
                           => tr_channel_drained_locked(ch[p])']_ch

\* A sender that may go on, whose credit is too small for a full message.
Starved(p, s, t) ==
  /\ Both /\ <<p, s, t>> \in Matched
  /\ ch[p].streams[s].state = "OPEN" /\ ch[p].streams[s].local_open
  /\ ch[Other(p)].streams[t].state = "OPEN"
  /\ ~ch[Other(p)].streams[t].rx_credit_stopped
  /\ ch[p].streams[s].tx_send_limit - ch[p].streams[s].tx_sent < Min({Window, MaxMessage})

\* Every exchange ends, although the reactor may refuse each of its frames: an
\* OPEN is admitted, refused or cut off; a RESET completes in both directions
\* although all RESETs and refusals of a connection share one reserved item and
\* a refusal pauses reception; a drain finishes once the callers end their
\* streams; and a sender without credit for a full message gets it back, unless
\* the stream ends first: consumption below the update threshold never strands
\* it (the clamp in tr_send_window_update_locked).
ExchangesEnd ==
  \A p \in Peers :
    /\ \A s \in Slots(p) : /\ []<>(ch[p].streams[s].state # "OPENING")
                           /\ []<>(ch[p].streams[s].state # "RESETTING")
                           /\ \A t \in Slots(Other(p)) : []<>~Starved(p, s, t)
    /\ []<>(ch[p].local_draining => tr_channel_drained_locked(ch[p]))
=============================================================================
