------------------------------ MODULE Pipeline ------------------------------
(***************************************************************************)
(* The server's record of one connection group (src/src/group/pipeline.c): *)
(* a CONTROL connection, slots for DATA connections that are reserved by   *)
(* an offer and attached by the connection that answers it, and the        *)
(* affinity of every open stream to one DATA slot.  The registry of        *)
(* pipelines (pipeline_registry.c) and the operations CONTROL makes on its *)
(* pipeline (pipeline_control.c) come after it.                            *)
(*                                                                         *)
(* Every operation runs on the owner reactor in one turn (tr_reactor_call  *)
(* runs it there), so each one is an operator from a pipeline to its       *)
(* result: [ret, p], with what the operation returns beside it.            *)
(***************************************************************************)
EXTENDS ProbeTable, Sequences

CONSTANTS DataCapacity,      \* data_capacity_per_pipeline
          AffinityCapacity,  \* stream_affinity_capacity_per_pipeline
          PipelineCapacity,  \* pipeline_capacity, also of the registry
          GenerationModulus, \* 2^32 in the code
          StreamHash(_),     \* tr_pipeline_stream_hash
          PipelineHash(_)    \* tr_pipeline_registry_hash

DataIndex == 0 .. DataCapacity - 1
NoConn == 0
FreeSlot == [state |-> "FREE", generation |-> 0, connection |-> NoConn]

tr_pipeline_next_generation(g) ==
  IF (g + 1) % GenerationModulus = 0 THEN 1 ELSE g + 1

tr_pipeline_create(id, epoch) ==
  [pipeline_id |-> id, epoch |-> epoch, control |-> NoConn,
   data_slots |-> [i \in DataIndex |-> FreeSlot],
   data_reserved_count |-> 0, data_count |-> 0, next_data_index |-> 0,
   affinities |-> EmptyTable(AffinityCapacity), affinity_count |-> 0]

\* What tr_pipeline_destroy asserts of the pipeline it frees.
DestroyAsserts(p) ==
  p.control = NoConn /\ p.data_reserved_count = 0 /\ p.data_count = 0 /\ p.affinity_count = 0

Attached(p) == {i \in DataIndex : p.data_slots[i].state = "ATTACHED"}

tr_pipeline_connection_is_data(p, conn) ==
  \E i \in Attached(p) : p.data_slots[i].connection = conn

tr_pipeline_data_ref_matches(p, data, state) ==
  /\ data.index < DataCapacity /\ data.generation # 0
  /\ p.data_slots[data.index].state = state
  /\ p.data_slots[data.index].generation = data.generation

tr_pipeline_data_ref_valid(p, data) == tr_pipeline_data_ref_matches(p, data, "ATTACHED")

Result(ret, p) == [ret |-> ret, p |-> p]

tr_pipeline_set_control(p, conn) ==
  IF p.control # NoConn \/ tr_pipeline_connection_is_data(p, conn)
  THEN Result("STATE", p)
  ELSE Result("OK", [p EXCEPT !.control = conn])

\* An offer nobody has answered yet loses its authority with CONTROL.
tr_pipeline_clear_control(p, expected) ==
  IF p.control = NoConn \/ p.control # expected THEN Result("STALE", p)
  ELSE Result("OK",
         [p EXCEPT !.control = NoConn, !.data_reserved_count = 0,
                   !.data_slots = [i \in DataIndex |->
                      IF @[i].state = "RESERVED"
                      THEN [@[i] EXCEPT !.state = "FREE", !.connection = NoConn] ELSE @[i]]])

NoData == [index |-> DataCapacity, generation |-> 0]

tr_pipeline_reserve_data(p) ==
  LET free == {i \in DataIndex : p.data_slots[i].state = "FREE"}
      i == Min(free)
      g == tr_pipeline_next_generation(p.data_slots[i].generation)
  IN  IF p.control = NoConn THEN [ret |-> "STATE", p |-> p, data |-> NoData]
      ELSE IF p.data_count + p.data_reserved_count >= DataCapacity \/ free = {}
      THEN [ret |-> "AGAIN", p |-> p, data |-> NoData]
      ELSE [ret |-> "OK",
            p |-> [p EXCEPT !.data_slots[i] = [state |-> "RESERVED", generation |-> g,
                                               connection |-> NoConn],
                            !.data_reserved_count = @ + 1],
            data |-> [index |-> i, generation |-> g]]

tr_pipeline_validate_data_reservation_on_owner(p, data) ==
  IF p.control = NoConn THEN "STATE"
  ELSE IF ~tr_pipeline_data_ref_matches(p, data, "RESERVED") THEN "STALE" ELSE "OK"

tr_pipeline_attach_data(p, data, conn) ==
  IF p.control = NoConn \/ p.control = conn \/ tr_pipeline_connection_is_data(p, conn)
  THEN Result("STATE", p)
  ELSE IF ~tr_pipeline_data_ref_matches(p, data, "RESERVED") THEN Result("STALE", p)
  ELSE Result("OK", [p EXCEPT !.data_slots[data.index].connection = conn,
                              !.data_slots[data.index].state = "ATTACHED",
                              !.data_reserved_count = @ - 1, !.data_count = @ + 1])

FreeReserved(p, i) ==
  [p EXCEPT !.data_slots[i].state = "FREE", !.data_slots[i].connection = NoConn,
            !.data_reserved_count = @ - 1]

tr_pipeline_cancel_data_reservation(p, data) ==
  IF tr_pipeline_data_ref_matches(p, data, "RESERVED")
  THEN Result("OK", FreeReserved(p, data.index)) ELSE Result("STALE", p)

\* The peer's cancellation: for the same generation an attached or a freed slot
\* has already converged, and only a reserved one is freed.
tr_pipeline_cancel_data_offer(p, data) ==
  IF \/ data.index >= DataCapacity \/ data.generation = 0
     \/ p.data_slots[data.index].generation # data.generation
  THEN Result("STALE", p)
  ELSE Result("OK", IF p.data_slots[data.index].state = "RESERVED"
                    THEN FreeReserved(p, data.index) ELSE p)

BuryAffinities(p, entries) ==
  [p EXCEPT !.affinities = Bury(@, entries), !.affinity_count = @ - Cardinality(entries)]

\* Mutant: the affinities of the removed member stay.
RemoveDataKeepsStreams(p, data) ==
  IF ~tr_pipeline_data_ref_valid(p, data) THEN Result("STALE", p)
  ELSE Result("OK", [p EXCEPT !.data_slots[data.index].state = "FREE",
                              !.data_slots[data.index].connection = NoConn,
                              !.data_count = @ - 1])

\* A stream does not outlive its DATA connection.
tr_pipeline_remove_data(p, data) ==
  IF ~tr_pipeline_data_ref_valid(p, data) THEN Result("STALE", p)
  ELSE Result("OK",
         BuryAffinities([p EXCEPT !.data_slots[data.index].state = "FREE",
                                  !.data_slots[data.index].connection = NoConn,
                                  !.data_count = @ - 1],
                        {i \in Used(p.affinities) : p.affinities[i].value = data}))

tr_pipeline_affinity_find(p, stream) ==
  TableFind(p.affinities, StreamHash(stream) % AffinityCapacity, stream)

\* The next attached slot, round robin.
NextAttached(p) ==
  LET At(offset) == (p.next_data_index + offset) % DataCapacity
  IN  At(Min({o \in DataIndex : At(o) \in Attached(p)}))

tr_pipeline_prepare_transfer(p, stream) ==
  LET find == tr_pipeline_affinity_find(p, stream)
      i == NextAttached(p)
      data == [index |-> i, generation |-> p.data_slots[i].generation]
      Refuse(ret) == [ret |-> ret, p |-> p, data |-> NoData]
  IN  IF p.control = NoConn \/ find.found THEN Refuse("STATE")
      ELSE IF find.insert = {} \/ p.data_count = 0 \/ Attached(p) = {} THEN Refuse("AGAIN")
      ELSE [ret |-> "OK", data |-> data,
            p |-> [p EXCEPT !.affinities = Insert(@, CHOOSE k \in find.insert : TRUE, stream, data),
                            !.affinity_count = @ + 1,
                            !.next_data_index = (i + 1) % DataCapacity]]

\* An affinity that points to nothing is buried when it is looked at.
tr_pipeline_stream_data(p, stream) ==
  LET find == tr_pipeline_affinity_find(p, stream)
      data == p.affinities[CHOOSE i \in find.slot : TRUE].value
      Fail(q) == [ret |-> "STALE", p |-> q, data |-> NoData, connection |-> NoConn]
  IN  IF ~find.found THEN Fail(p)
      ELSE IF ~tr_pipeline_data_ref_valid(p, data) THEN Fail(BuryAffinities(p, find.slot))
      ELSE [ret |-> "OK", p |-> p, data |-> data,
            connection |-> p.data_slots[data.index].connection]

tr_pipeline_unbind_stream(p, stream) ==
  LET find == tr_pipeline_affinity_find(p, stream)
  IN  IF find.found THEN Result("OK", BuryAffinities(p, find.slot)) ELSE Result("STALE", p)
=============================================================================
