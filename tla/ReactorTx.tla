----------------------------- MODULE ReactorTx -----------------------------
(***************************************************************************)
(* The transmit side of a running reactor (src/src/execution/reactor.c):   *)
(* connection slots with generations, commands that reach a connection     *)
(* through the command queue, the owner's direct append, the per           *)
(* connection TX FIFO with its control bypass, the reserved GOAWAY and     *)
(* RESET items that wait for a command frontier, and the TX_DRAINED        *)
(* observer.                                                               *)
(*                                                                         *)
(* Producers are threads other than the owner: each of their operations is *)
(* one ctl_lock section.  The owner interleaves command dispatch, frame    *)
(* writes and callbacks; a callback runs either inside the dispatch of a   *)
(* CALL command or between two dispatch phases (I/O, timers, completions). *)
(* The reactor is accepting throughout: start, stop and wakeups are the    *)
(* subject of ReactorLifecycle.  Sequence numbers start at StartSequence,  *)
(* so that a run can cross the wrap of the counter.                        *)
(***************************************************************************)
EXTENDS CommandQueue, SequencesExt

CONSTANTS Slots,             \* connection slots (max_connections)
          CommandBatch,      \* TR_COMMAND_BATCH
          ControlBurst,      \* TR_CONTROL_BURST
          Types,             \* frame types producers and callbacks send
          StartSequence,     \* sequence of the last command before Init
          MaxGeneration,     \* last usable generation of a slot
          MaxAccepted,       \* bound: transmit requests
          MaxCommands        \* bound: commands other than SEND

ASSUME TxBounds ==
  /\ CommandBatch \in Nat \ {0} /\ ControlBurst \in Nat
  /\ StartSequence \in 0 .. SequenceLimit - 1
  /\ MaxGeneration \in Nat \ {0} /\ MaxAccepted \in Nat /\ MaxCommands \in Nat
  \* the modular comparison is exact while less than half the range is live
  /\ 2 * (MaxAccepted + MaxCommands + 1) < SequenceLimit
ASSUME TypesAssumption == Types \subseteq {"DATA", "WINDOW_UPDATE", "OPEN"}

VARIABLES
  batch,            \* commands popped and not yet dispatched
  last_processed,   \* last_processed_command_sequence
  meta,             \* per slot: the atomic generation and state
  conn,             \* per slot: the transmit state of the connection
  pending_count,    \* lifecycle_tx_pending_count
  accepted,         \* history: every accepted transmit request, in order
  wire,             \* history, per slot: the frame written last
  commands          \* commands other than SEND pushed so far

vars == <<cqVars, batch, last_processed, meta, conn, pending_count, accepted,
          wire, commands>>

(***************************************************************************)
(* A transmit item is identified by its position in `accepted`.  A DATA    *)
(* message takes `left` more frames, every other item one frame.  A frame  *)
(* goes out in two halves: wire_pos = 1 is a frame cut short by sendmsg.   *)
(***************************************************************************)
Item(id, type, frames) == [id |-> id, type |-> type, left |-> frames]

Frames(type) == IF type = "DATA" THEN 1 .. 2 ELSE {1}

Command(type, s, g, item) ==
  [type |-> type, slot |-> s, generation |-> g, item |-> item, sequence |-> 0]

NoItem == Item(0, "NONE", 0)

Reserved == [busy |-> FALSE, enqueued |-> FALSE, after |-> 0, id |-> 0]

\* The item whose frame was written last, the halves of the frame written, and
\* how many frames in a row have overtaken a DATA message.
NoFrame == [item |-> NoItem, halves |-> 0, overtaking |-> 0]

NoDrain == [pending |-> FALSE, after |-> 0, mark |-> 0]

\* tr_connection_adopt clears the connection's owner state.
FreshConnection ==
  [tx |-> <<>>, tx_active |-> 0, control_tx_streak |-> 0,
   lifecycle |-> Reserved, stream_reset |-> Reserved,
   reset_before_lifecycle |-> FALSE, drain |-> NoDrain]

Init ==
  /\ items = <<>> /\ stop_command = <<>> /\ stop_closed = FALSE
  /\ wait_accepting = TRUE /\ wait_generation = 1
  /\ next_sequence = StartSequence /\ wake_pending = FALSE /\ not_full = {}
  /\ batch = <<>> /\ last_processed = StartSequence
  /\ meta = [s \in Slots |-> [generation |-> 0, state |-> "FREE"]]
  /\ conn = [s \in Slots |-> FreshConnection]
  /\ pending_count = 0 /\ accepted = <<>>
  /\ wire = [s \in Slots |-> NoFrame] /\ commands = 0

-----------------------------------------------------------------------------
(* Slots                                                                   *)

tr_slot_live(s, g) ==
  meta[s].generation = g /\ meta[s].state \in {"RESERVED", "ACTIVE"}

tr_lookup_connection(s, g) ==
  meta[s].generation = g /\ meta[s].state = "ACTIVE"

\* The last generation is never followed by another: the slot is retired.
tr_slot_reserve(s, state) ==
  /\ meta[s].state = "FREE" /\ meta[s].generation < MaxGeneration
  /\ meta' = [meta EXCEPT ![s] = [generation |-> @.generation + 1,
                                  state |-> state]]

-----------------------------------------------------------------------------
(* The TX FIFO and the reserved items                                      *)

NextId == Len(accepted) + 1
Accept(s, g, type) ==
  accepted' = Append(accepted, [slot |-> s, generation |-> g, type |-> type])

tr_enqueue_tx_item_owner(c, item) == [c EXCEPT !.tx = Append(@, item)]

\* try_enqueue_reserved_tx on one of the two reserved items (field f).
Ready(c, f, processed) ==
  /\ c[f].busy /\ ~c[f].enqueued
  /\ tr_command_sequence_after_eq(processed, c[f].after)

tr_try_enqueue_reserved_tx(c, f, type, processed) ==
  IF Ready(c, f, processed)
    THEN tr_enqueue_tx_item_owner([c EXCEPT ![f].enqueued = TRUE],
                                  Item(c[f].id, type, 1))
    ELSE c

tr_try_enqueue_lifecycle_tx(c, processed) ==
  IF c.reset_before_lifecycle
    THEN tr_try_enqueue_reserved_tx(
           tr_try_enqueue_reserved_tx(c, "stream_reset", "RESET", processed),
           "lifecycle", "GOAWAY", processed)
    ELSE tr_try_enqueue_reserved_tx(
           tr_try_enqueue_reserved_tx(c, "lifecycle", "GOAWAY", processed),
           "stream_reset", "RESET", processed)

Waiting(c) == Cardinality({f \in {"lifecycle", "stream_reset"} :
                             c[f].busy /\ ~c[f].enqueued})

\* flush_lifecycle_tx: every active connection, after each command.
Flushed(c, m, processed, count) ==
  [s \in Slots |-> IF count # 0 /\ m[s].state = "ACTIVE"
                     THEN tr_try_enqueue_lifecycle_tx(c[s], processed)
                     ELSE c[s]]

TotalWaiting(c) == MapThenSumSet(LAMBDA s : Waiting(c[s]), Slots)

tr_reactor_flush_lifecycle_tx(c, m, processed, count) ==
  LET flushed == Flushed(c, m, processed, count)
  IN  /\ conn' = flushed
      /\ pending_count' = count - (TotalWaiting(c) - TotalWaiting(flushed))

-----------------------------------------------------------------------------
(* Commands pushed by producers, and by owner callbacks that cannot append *)
(* directly.  Only a live handle is accepted.                              *)

Push(command) ==
  /\ tr_command_queue_push(command)
  /\ UNCHANGED <<batch, last_processed, conn, pending_count, wire>>

PushSend(s, type, frames) ==
  LET g == meta[s].generation
  IN  /\ Len(accepted) < MaxAccepted
      /\ tr_slot_live(s, g)
      /\ Push(Command("SEND", s, g, Item(NextId, type, frames)))
      /\ Accept(s, g, type)
      /\ UNCHANGED <<meta, commands>>

tr_reactor_simple_command(s, type) ==
  /\ commands < MaxCommands /\ commands' = commands + 1
  /\ tr_slot_live(s, meta[s].generation)
  /\ Push(Command(type, s, meta[s].generation, NoItem))
  /\ UNCHANGED <<meta, accepted>>

tr_reactor_call(s) ==
  /\ commands < MaxCommands /\ commands' = commands + 1
  /\ Push(Command("CALL", s, 0, NoItem))
  /\ UNCHANGED <<meta, accepted>>

\* adopt_fd off the owner: reserve a slot, then push; a refused push frees it.
tr_reactor_adopt_fd(s) ==
  /\ commands < MaxCommands /\ commands' = commands + 1
  /\ tr_slot_reserve(s, "RESERVED")
  /\ Push(Command("ADOPT", s, meta[s].generation + 1, NoItem))
  /\ UNCHANGED accepted

-----------------------------------------------------------------------------
(* process_commands: pop a batch, dispatch its commands in order.  After   *)
(* every command the frontier moves and the reserved items are retried.    *)

command_dispatching == batch # <<>>

PopCommands ==
  /\ ~command_dispatching
  /\ tr_command_queue_pop_batch(CommandBatch)
  /\ batch' = Popped(CommandBatch)
  /\ IF Popped(CommandBatch) = <<>>
       THEN tr_reactor_flush_lifecycle_tx(conn, meta, last_processed,
                                          pending_count)
       ELSE UNCHANGED <<conn, pending_count>>
  /\ UNCHANGED <<last_processed, meta, accepted, wire, commands>>

Current == Head(batch)

\* The end of every dispatch, given the command's own effect c, m, count.
FinishCommand(c, m, count) ==
  /\ batch' = Tail(batch)
  /\ last_processed' = Current.sequence
  /\ meta' = m
  /\ tr_reactor_flush_lifecycle_tx(c, m, Current.sequence, count)
  /\ UNCHANGED <<cqVars, accepted, commands>>

Dispatching(type) == command_dispatching /\ Current.type = type

tr_process_send ==
  /\ Dispatching("SEND")
  /\ LET s == Current.slot
         c == IF tr_lookup_connection(s, Current.generation)
                THEN [conn EXCEPT ![s] = tr_enqueue_tx_item_owner(@, Current.item)]
                ELSE conn
     IN  FinishCommand(c, meta, pending_count)
  /\ UNCHANGED wire

tr_process_call ==
  /\ Dispatching("CALL")
  /\ FinishCommand(conn, meta, pending_count)
  /\ UNCHANGED wire

\* close_internal: the FIFO and the reserved items are released, the slot is
\* free for its next generation.
Closed(s) == [meta EXCEPT ![s].state = "FREE"]

tr_process_close ==
  /\ Dispatching("CLOSE")
  /\ LET s == Current.slot
     IN  IF tr_lookup_connection(s, Current.generation)
           THEN FinishCommand([conn EXCEPT ![s] = FreshConnection], Closed(s),
                              pending_count - Waiting(conn[s]))
           ELSE FinishCommand(conn, meta, pending_count)
  /\ UNCHANGED wire

\* Adoption succeeds, or fails in the kernel and frees the slot.
DispatchAdopt ==
  /\ Dispatching("ADOPT")
  /\ LET s == Current.slot
     IN  \/ /\ FinishCommand([conn EXCEPT ![s] = FreshConnection],
                             [meta EXCEPT ![s].state = "ACTIVE"], pending_count)
            /\ wire' = [wire EXCEPT ![s] = NoFrame]
         \/ /\ FinishCommand(conn, Closed(s), pending_count)
            /\ UNCHANGED wire

-----------------------------------------------------------------------------
(* Owner callbacks                                                         *)

InCallback == command_dispatching => Current.type = "CALL"

ownerOnly == <<cqVars, batch, last_processed, commands>>

\* sendv on the owner appends directly only when no earlier command is left.
OwnerSend(s, type, frames) ==
  /\ InCallback
  /\ IF ~command_dispatching /\ tr_command_queue_is_empty
       THEN /\ Len(accepted) < MaxAccepted
            /\ tr_lookup_connection(s, meta[s].generation)
            /\ conn' = [conn EXCEPT ![s] =
                 tr_enqueue_tx_item_owner(@, Item(NextId, type, frames))]
            /\ Accept(s, meta[s].generation, type)
            /\ UNCHANGED <<ownerOnly, meta, pending_count, wire>>
       ELSE PushSend(s, type, frames)

ReserveAtProcessed(s, f, c) ==
  /\ InCallback
  /\ tr_lookup_connection(s, meta[s].generation)
  /\ Len(accepted) < MaxAccepted
  /\ ~conn[s][f].busy
  /\ LET reserved == [c EXCEPT ![f] = [busy |-> TRUE, enqueued |-> FALSE,
                                       after |-> last_processed, id |-> NextId]]
         tried == tr_try_enqueue_lifecycle_tx(reserved, last_processed)
     IN  /\ conn' = [conn EXCEPT ![s] = tried]
         /\ pending_count' = pending_count + 1
                               - (Waiting(reserved) - Waiting(tried))
  /\ Accept(s, meta[s].generation, f)
  /\ UNCHANGED <<ownerOnly, meta, wire>>

ReserveWhileBusy(s, f, c) ==
  /\ InCallback
  /\ tr_lookup_connection(s, meta[s].generation)
  /\ Len(accepted) < MaxAccepted
  /\ LET reserved == [c EXCEPT ![f] = [busy |-> TRUE, enqueued |-> FALSE,
                                       after |-> next_sequence, id |-> NextId]]
         tried == tr_try_enqueue_lifecycle_tx(reserved, last_processed)
     IN  /\ conn' = [conn EXCEPT ![s] = tried]
         /\ pending_count' = pending_count + Waiting(tried) - Waiting(conn[s])
  /\ Accept(s, meta[s].generation, f)
  /\ UNCHANGED <<ownerOnly, meta, wire>>

\* Accept a reserved item: its frontier is the last accepted command.
Reserve(s, f, c) ==
  /\ InCallback
  /\ tr_lookup_connection(s, meta[s].generation)
  /\ Len(accepted) < MaxAccepted
  /\ ~conn[s][f].busy
  /\ LET reserved == [c EXCEPT ![f] = [busy |-> TRUE, enqueued |-> FALSE,
                                       after |-> next_sequence, id |-> NextId]]
         tried == tr_try_enqueue_lifecycle_tx(reserved, last_processed)
     IN  /\ conn' = [conn EXCEPT ![s] = tried]
         /\ pending_count' = pending_count + 1
                               - (Waiting(reserved) - Waiting(tried))
  /\ Accept(s, meta[s].generation, f)
  /\ UNCHANGED <<ownerOnly, meta, wire>>

tr_reactor_send_goaway_on_owner(s) ==
  LET r == conn[s].stream_reset
  IN  Reserve(s, "lifecycle", [conn[s] EXCEPT
        !.reset_before_lifecycle = r.busy /\ ~r.enqueued])

tr_reactor_send_stream_terminal_on_owner(s) ==
  LET l == conn[s].lifecycle
  IN  Reserve(s, "stream_reset", [conn[s] EXCEPT
        !.reset_before_lifecycle = ~l.busy \/ l.enqueued])

tr_reactor_notify_tx_drained_on_owner(s) ==
  /\ InCallback
  /\ tr_lookup_connection(s, meta[s].generation)
  /\ ~conn[s].drain.pending
  /\ conn' = [conn EXCEPT ![s].drain =
       [pending |-> TRUE, after |-> next_sequence, mark |-> Len(accepted)]]
  /\ UNCHANGED <<ownerOnly, meta, pending_count, accepted, wire>>

\* close_on_owner, abort_on_owner, and a fatal read or write error.
tr_connection_close_internal(s) ==
  /\ InCallback
  /\ tr_lookup_connection(s, meta[s].generation)
  /\ meta' = Closed(s)
  /\ conn' = [conn EXCEPT ![s] = FreshConnection]
  /\ pending_count' = pending_count - Waiting(conn[s])
  /\ UNCHANGED <<ownerOnly, accepted, wire>>

tr_connection_adopt(s) ==
  /\ InCallback
  /\ tr_slot_reserve(s, "ACTIVE")
  /\ conn' = [conn EXCEPT ![s] = FreshConnection]
  /\ wire' = [wire EXCEPT ![s] = NoFrame]
  /\ UNCHANGED <<ownerOnly, pending_count, accepted>>

-----------------------------------------------------------------------------
(* flush_tx                                                                *)

tr_tx_can_bypass_data(item) == item.type = "WINDOW_UPDATE"

ControlQueue(c) == SelectSeq(c.tx, LAMBDA item : item.type # "DATA")

\* The item to start next: the head of the FIFO, or the first control item when
\* it may overtake DATA at the head.
Select(c) ==
  IF /\ Head(c.tx).type = "DATA" /\ ControlQueue(c) # <<>>
     /\ c.control_tx_streak < ControlBurst
     /\ tr_tx_can_bypass_data(Head(ControlQueue(c)))
    THEN Head(ControlQueue(c))
    ELSE Head(c.tx)

tr_connection_next_tx(c) ==
  IF c.tx_active # 0
    THEN CHOOSE item \in ToSet(c.tx) : item.id = c.tx_active
    ELSE Select(c)

CompleteKeepsReserved(c, item) ==
  [c EXCEPT !.tx = SelectSeq(@, LAMBDA i : i.id # item.id)]

\* A reserved item that has been sent is free for its next use.
tr_connection_complete_tx(c, item) ==
  LET removed == [c EXCEPT !.tx = SelectSeq(@, LAMBDA i : i.id # item.id)]
  IN  CASE item.type = "GOAWAY" -> [removed EXCEPT !.lifecycle = Reserved]
        [] item.type = "RESET" -> [removed EXCEPT !.stream_reset = Reserved]
        [] OTHER -> removed

FrameSent(c, item) ==
  IF item.type = "DATA"
    THEN LET next == [c EXCEPT !.tx_active = 0, !.control_tx_streak = 0]
         IN  IF item.left > 1
               THEN [next EXCEPT !.tx[1].left = @ - 1]
               ELSE tr_connection_complete_tx(next, item)
    ELSE tr_connection_complete_tx(
           [c EXCEPT !.tx_active = 0,
                     !.control_tx_streak =
                        IF tr_tx_can_bypass_data(item) /\ @ < ControlBurst
                          THEN @ + 1 ELSE @],
           item)

Written(w, c, item) ==
  [item |-> item, halves |-> IF c.tx_active = 0 THEN 1 ELSE 2,
   overtaking |-> IF item.type = "DATA" \/ item = Head(c.tx) THEN 0
                  ELSE w.overtaking + (IF c.tx_active = 0 THEN 1 ELSE 0)]

\* One sendmsg: the first or the second half of the selected frame.
tr_connection_flush_tx(s) ==
  LET c == conn[s]
      item == tr_connection_next_tx(c)
  IN  /\ ~command_dispatching
      /\ meta[s].state = "ACTIVE" /\ c.tx # <<>>
      /\ wire' = [wire EXCEPT ![s] = Written(@, c, item)]
      /\ conn' = [conn EXCEPT ![s] = IF c.tx_active = 0
                                       THEN [c EXCEPT !.tx_active = item.id]
                                       ELSE FrameSent(c, item)]
      /\ UNCHANGED <<ownerOnly, meta, pending_count, accepted>>

DrainedOnEmptyFifo(s) ==
  LET c == conn[s]
  IN  /\ ~command_dispatching
      /\ meta[s].state = "ACTIVE" /\ c.drain.pending
      /\ c.tx = <<>> /\ ~c.lifecycle.busy /\ ~c.stream_reset.busy
      /\ conn' = [conn EXCEPT ![s].drain = NoDrain]
      /\ UNCHANGED <<ownerOnly, meta, pending_count, accepted, wire>>

\* flush_tx_drained for one connection: notify TX_DRAINED once.
tr_reactor_flush_tx_drained(s) ==
  LET c == conn[s]
  IN  /\ ~command_dispatching
      /\ meta[s].state = "ACTIVE" /\ c.drain.pending
      /\ c.tx = <<>> /\ ~c.lifecycle.busy /\ ~c.stream_reset.busy
      /\ tr_command_sequence_after_eq(last_processed, c.drain.after)
      /\ conn' = [conn EXCEPT ![s].drain = NoDrain]
      /\ UNCHANGED <<ownerOnly, meta, pending_count, accepted, wire>>

-----------------------------------------------------------------------------
ProducerNext ==
  \E s \in Slots :
    \/ \E type \in Types : \E n \in Frames(type) : PushSend(s, type, n)
    \/ tr_reactor_simple_command(s, "CLOSE")
    \/ tr_reactor_call(s)
    \/ tr_reactor_adopt_fd(s)

CommandNext ==
  \/ PopCommands
  \/ tr_process_send
  \/ tr_process_call
  \/ tr_process_close
  \/ DispatchAdopt

CallbackNext ==
  \E s \in Slots :
    \/ \E type \in Types : \E n \in Frames(type) : OwnerSend(s, type, n)
    \/ tr_reactor_send_goaway_on_owner(s)
    \/ tr_reactor_send_stream_terminal_on_owner(s)
    \/ tr_reactor_notify_tx_drained_on_owner(s)
    \/ tr_connection_close_internal(s)
    \/ tr_connection_adopt(s)

TxNext ==
  \E s \in Slots : tr_connection_flush_tx(s) \/ tr_reactor_flush_tx_drained(s)

Next == ProducerNext \/ CommandNext \/ CallbackNext \/ TxNext

Spec == Init /\ [][Next]_vars

\* The owner loop runs its phases for ever, and the peer reads.
Fairness ==
  /\ WF_vars(CommandNext)
  /\ \A s \in Slots : /\ WF_vars(tr_connection_flush_tx(s))
                      /\ WF_vars(tr_reactor_flush_tx_drained(s))

FairSpec == Spec /\ Fairness

-----------------------------------------------------------------------------
(* Properties                                                              *)

Items == [id : 1 .. MaxAccepted, left : 1 .. 2,
          type : Types \cup {"GOAWAY", "RESET"}]

\* The state variables have their types.
TypeOK ==
  /\ next_sequence \in 0 .. SequenceLimit - 1
  /\ last_processed \in 0 .. SequenceLimit - 1
  /\ Len(items) <= Capacity /\ Len(batch) <= CommandBatch
  /\ pending_count \in 0 .. 2 * Cardinality(Slots)
  /\ \A s \in Slots :
       /\ meta[s] \in [generation : 0 .. MaxGeneration,
                       state : {"FREE", "RESERVED", "ACTIVE"}]
       /\ ToSet(conn[s].tx) \subseteq Items
       /\ conn[s].control_tx_streak \in 0 .. ControlBurst

\* Requests of slot s and its current generation that are still on their way.
InFlight(s) ==
  LET mine(seq) == {k \in ToSet(seq) : /\ k.type = "SEND" /\ k.slot = s
                                       /\ k.generation = meta[s].generation}
      reserved == {f \in {"lifecycle", "stream_reset"} :
                     conn[s][f].busy /\ ~conn[s][f].enqueued}
  IN  {k.item.id : k \in mine(items) \cup mine(batch)}
        \cup {k.id : k \in ToSet(conn[s].tx)}
        \cup {conn[s][f].id : f \in reserved}

Writes(s) == meta[s].state = "ACTIVE" /\ meta'[s] = meta[s] /\ wire'[s] # wire[s]

\* What a connection writes next.  It writes only requests accepted for its
\* slot and its generation: a command queued for a closed connection never
\* reaches the connection that reuses the slot.  Whatever the mix of queued
\* commands, direct appends and reserved items, a frame accepted earlier is
\* never overtaken by one accepted later, except a DATA frame by a bypassing
\* control frame, and then by at most ControlBurst of them in a row: RESET and
\* GOAWAY leave exactly between their predecessors and successors, and control
\* traffic cannot starve data.  A frame cut short by the kernel is continued
\* before any other frame starts.
WireOrder ==
  [][\A s \in Slots : Writes(s) =>
       LET w == wire'[s]
           a == accepted[w.item.id]
       IN  /\ a.slot = s /\ a.generation = meta[s].generation
           /\ \A id \in InFlight(s) : id < w.item.id =>
                tr_tx_can_bypass_data(w.item) /\ accepted[id].type = "DATA"
           /\ w.overtaking <= ControlBurst
           /\ wire[s].halves = 1 => w.halves = 2 /\ w.item = wire[s].item]_vars

\* While a connection stays open no accepted request is lost: it is on its way
\* from its acceptance until the last half of its last frame.
NoTransmitLost ==
  [][\A s \in Slots : (meta[s].state = "ACTIVE" /\ meta'[s] = meta[s]) =>
       LET new == {id \in DOMAIN accepted' \ DOMAIN accepted :
                     accepted'[id].slot = s}
           w == wire'[s]
       IN  \A id \in (InFlight(s) \cup new) \ InFlight(s)' :
             w.item.id = id /\ w.halves = 2 /\ w.item.left = 1]_vars

\* TX_DRAINED is reported only when every request accepted before the observer
\* was registered has left the process.
DrainedAfterPredecessors ==
  [][\A s \in Slots :
       (/\ conn[s].drain.pending /\ ~conn'[s].drain.pending
        /\ meta'[s] = meta[s])
         => \A id \in InFlight(s) : id > conn[s].drain.mark]_vars

\* lifecycle_tx_pending_count, the owner's reason to look at the reserved
\* items at all, is the number of reserved items that wait for their frontier.
PendingCountExact == pending_count = TotalWaiting(conn)

\* When the owner may append directly no reserved item waits: a direct append
\* cannot slip in front of an accepted RESET or GOAWAY.
DirectAppendIsLast ==
  (~command_dispatching /\ tr_command_queue_is_empty) => pending_count = 0

\* The owner's bookkeeping of a connection.
TxBookkeeping == TypeOK /\ PendingCountExact /\ DirectAppendIsLast

\* What is accepted is served, unless its connection closes: a GOAWAY or RESET
\* is sent, because the frontier it waits for is always reached, and a
\* registered TX_DRAINED observer is notified.  The count of waiting reserved
\* items, without which the owner would not look at them, is exact, and a
\* direct append is allowed only while it is zero
\* (tr_reactor_flush_lifecycle_tx).
ReservedServed ==
  /\ []TxBookkeeping
  /\ \A s \in Slots : /\ []<>~conn[s].lifecycle.busy
                      /\ []<>~conn[s].stream_reset.busy
                      /\ []<>~conn[s].drain.pending
=============================================================================
