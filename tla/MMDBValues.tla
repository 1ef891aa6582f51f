----------------------------- MODULE MMDBValues -----------------------------
(***************************************************************************)
(* Bounding the values of a GeoIP database before the library decodes them  *)
(* (internal/assets/mmdb_bounds.go).  Values may point at others and share  *)
(* them; the check walks every record once with a small direct-mapped cache *)
(* of finished pointer targets, and must still charge a record with all     *)
(* that decoding it will expand.                                            *)
(*                                                                         *)
(* A value's encoding is one cell of the data; the keys and values of a map  *)
(* (an array likewise) follow it.  The counter of bytes is charged alongside *)
(* the counter of values and is left out.  The recursion of parse is a stack. *)
(***************************************************************************)
EXTENDS Integers, Sequences, FiniteSets

CONSTANTS MaxCells, DepthLimit, RecordValueLimit, ValueLimit, WorkLimit, CacheSlots

VARIABLES data, metadata,
          offset,         \* where the current record starts
          stack,          \* activations of parse, the outermost first
          control,        \* a call of parse, or what it returned
          recordValues, expandedValues, operations,
          cache,          \* slot -> target and summary
          verdict

mmdbVars == <<data, metadata, offset, stack, control, recordValues, expandedValues, operations, cache, verdict>>

Cells == {<<"scalar", 0>>, <<"invalid", 0>>} \cup {<<"pointer", t>> : t \in 0..(MaxCells - 1)} \cup {<<"map", n>> : n \in 1..2}

At(o) == data[o + 1]
NoSummary == [end |-> 0, values |-> 0, height |-> 0]
Record == [do |-> "record", at |-> 0, depth |-> 0, target |-> FALSE, summary |-> NoSummary]
Call(at, depth, target) == [Record EXCEPT !.do = "call", !.at = at, !.depth = depth, !.target = target]
Return(s) == [Record EXCEPT !.do = "return", !.summary = s]
Free == [key |-> 0, summary |-> NoSummary]

MMDBInit ==
    /\ \E n \in 1..MaxCells : data \in [1..n -> Cells]
    /\ metadata \in BOOLEAN
    /\ offset = 0 /\ stack = << >> /\ control = Record
    /\ recordValues = 0 /\ expandedValues = 0 /\ operations = 0
    /\ cache = [s \in 0..(CacheSlots - 1) |-> Free]
    /\ verdict = IF metadata /\ data[1][1] # "map" THEN "invalid" ELSE "running"

Higher(a, b) == IF a > b THEN a ELSE b
Slot(o) == o % CacheSlots

Stop(v) == verdict' = v /\ UNCHANGED <<data, metadata, offset, stack, control, recordValues, expandedValues, cache>>

\* check: the next record, until the data ends.
BeginRecord ==
    /\ control.do = "record" /\ offset < Len(data)
    /\ recordValues' = 0 /\ control' = Call(offset, 0, FALSE)
    /\ UNCHANGED <<data, metadata, offset, stack, expandedValues, operations, cache, verdict>>

Finished ==
    /\ control.do = "record" /\ offset >= Len(data)
    /\ Stop("accepted") /\ UNCHANGED operations

\* A record is complete.
EndRecord ==
    /\ control.do = "return" /\ stack = << >>
    /\ UNCHANGED operations
    /\ LET next == control.summary.end
           total == expandedValues + recordValues IN
       IF total > ValueLimit THEN Stop("budget")
       ELSE IF metadata /\ next # Len(data) THEN Stop("invalid")
       ELSE /\ offset' = next /\ expandedValues' = total /\ control' = Record
            /\ UNCHANGED <<data, metadata, stack, recordValues, cache, verdict>>

-----------------------------------------------------------------------------
(* parse *)

\* A hit is charged with everything below the target.
Affordable(s, depth) == depth + s.height <= DepthLimit /\ recordValues + s.values <= RecordValueLimit
Charge(s) == s.values

Active == {stack[k].at : k \in 1..Len(stack)}

\* finish: what the activation has charged since it began, for its caller, and
\* for the cache when it was reached by a pointer.
FinishedAt(at, target, before, now, end, height) ==
    LET s == [end |-> end, values |-> now - before, height |-> height] IN
    /\ control' = Return(s)
    /\ cache' = IF target THEN [cache EXCEPT ![Slot(at)] = [key |-> at + 1, summary |-> s]] ELSE cache

Activation(left, end) ==
    [at |-> control.at, depth |-> control.depth, target |-> control.target, before |-> recordValues,
     kind |-> At(control.at)[1], left |-> left, end |-> end, height |-> 0]

\* A call that stops the check, in the order of the code.
Refuses ==
    /\ control.do = "call" /\ operations' = operations + 1
    /\ \/ operations + 1 > WorkLimit /\ Stop("budget")
       \/ operations + 1 <= WorkLimit /\ control.at >= Len(data) /\ Stop("invalid")
       \/ operations + 1 <= WorkLimit /\ control.at < Len(data) /\ control.depth > DepthLimit /\ Stop("budget")
       \/ /\ operations + 1 <= WorkLimit /\ control.at < Len(data) /\ control.depth <= DepthLimit
          /\ control.at \in Active /\ Stop("invalid")

Admitted ==
    /\ control.do = "call" /\ operations + 1 <= WorkLimit /\ operations' = operations + 1
    /\ control.at < Len(data) /\ control.depth <= DepthLimit /\ control.at \notin Active

Hit == control.target /\ cache[Slot(control.at)].key = control.at + 1

ParseCached ==
    /\ Admitted /\ Hit
    /\ LET s == cache[Slot(control.at)].summary IN
       IF ~ Affordable(s, control.depth) THEN Stop("budget")
       ELSE /\ recordValues' = recordValues + Charge(s) /\ control' = Return(s)
            /\ UNCHANGED <<data, metadata, offset, stack, expandedValues, cache, verdict>>

ParseValue ==
    /\ Admitted /\ ~ Hit
    /\ IF recordValues + 1 > RecordValueLimit THEN Stop("budget")
       ELSE IF At(control.at)[1] = "invalid" \/ (At(control.at)[1] = "pointer" /\ At(control.at)[2] >= Len(data)) THEN Stop("invalid")
       ELSE
         /\ recordValues' = recordValues + 1
         /\ CASE At(control.at)[1] = "scalar" ->
                   /\ FinishedAt(control.at, control.target, recordValues, recordValues + 1, control.at + 1, 0)
                   /\ UNCHANGED stack
              [] At(control.at)[1] = "pointer" ->
                   /\ stack' = Append(stack, Activation(0, control.at + 1))
                   /\ control' = Call(At(control.at)[2], control.depth + 1, TRUE) /\ UNCHANGED cache
              [] At(control.at)[1] = "map" ->
                   /\ stack' = Append(stack, Activation(At(control.at)[2], control.at + 1))
                   /\ control' = Call(control.at + 1, control.depth + 1, FALSE) /\ UNCHANGED cache
         /\ UNCHANGED <<data, metadata, offset, expandedValues, verdict>>

\* Mutant: the data behind a pointer is taken to start behind its target.
EndOfTarget(f, s) == s.end

\* A map ends with its last value, a pointer where it is written.
EndOf(f, s) == IF f.kind = "map" THEN s.end ELSE f.end

\* The call made by the innermost activation has returned.
HeightAbove(f, s) == Higher(f.height, s.height + 1)

Resume ==
    /\ control.do = "return" /\ stack # << >>
    /\ LET f == stack[Len(stack)]
           s == control.summary
           h == HeightAbove(f, s)
           outer == SubSeq(stack, 1, Len(stack) - 1) IN
       IF f.kind = "map" /\ f.left > 1
       THEN /\ stack' = Append(outer, [f EXCEPT !.left = @ - 1, !.end = s.end, !.height = h])
            /\ control' = Call(s.end, f.depth + 1, FALSE) /\ UNCHANGED cache
       ELSE /\ stack' = outer
            /\ FinishedAt(f.at, f.target, f.before, recordValues, EndOf(f, s), h)
    /\ UNCHANGED <<data, metadata, offset, recordValues, expandedValues, operations, verdict>>

\* The context ends; it is looked at now and then.
Cancel == control.do = "call" /\ operations = 0 /\ Stop("cancelled") /\ UNCHANGED operations

MMDBNext ==
    verdict = "running" /\ (BeginRecord \/ Finished \/ EndRecord \/ Refuses \/ ParseCached \/ ParseValue \/ Resume \/ Cancel)

MMDBSpec == MMDBInit /\ [][MMDBNext]_mmdbVars

-----------------------------------------------------------------------------
(* What decoding expands, without any cache. *)

Fails == [fine |-> FALSE, end |-> 0, values |-> 0]
Fine(end, values) == [fine |-> TRUE, end |-> end, values |-> values]

Expansion[d \in 0..(DepthLimit + 1), o \in 0..MaxCells] ==
    IF d > DepthLimit \/ o >= Len(data) THEN Fails
    ELSE CASE At(o)[1] = "scalar" -> Fine(o + 1, 1)
           [] At(o)[1] = "invalid" -> Fails
           [] At(o)[1] = "pointer" ->
                LET c == Expansion[d + 1, At(o)[2]] IN IF c.fine THEN Fine(o + 1, c.values + 1) ELSE Fails
           [] At(o)[1] = "map" ->
                LET a == Expansion[d + 1, o + 1]
                    b == Expansion[d + 1, a.end] IN
                IF ~ a.fine THEN Fails
                ELSE IF At(o)[2] = 1 THEN Fine(a.end, a.values + 1)
                ELSE IF b.fine THEN Fine(b.end, a.values + b.values + 1) ELSE Fails

\* All records from o on, with what they expand to.
Records[o \in 0..MaxCells] ==
    IF o >= Len(data) THEN Fine(o, 0)
    ELSE LET r == Expansion[0, o] IN
         IF ~ r.fine \/ r.values > RecordValueLimit THEN Fails
         ELSE LET rest == Records[r.end] IN IF rest.fine THEN Fine(rest.end, r.values + rest.values) ELSE Fails

Decodable ==
    /\ Records[0].fine /\ Records[0].values <= ValueLimit
    /\ metadata => At(0)[1] = "map" /\ Expansion[0, 0].end = Len(data)

-----------------------------------------------------------------------------
\* Whatever is shared, evicted from the cache or reached at another depth, the
\* data is accepted only if decoding every record afresh stays within the
\* limits, and it is refused for its contents only if that is not so.
VerdictExact ==
    /\ verdict = "accepted" => Decodable
    /\ verdict \in {"invalid", "budget"} /\ operations <= WorkLimit => ~ Decodable

\* A record is charged with its full expansion, also where the cache saved the
\* walk over it.
ChargesExact ==
    control.do = "return" /\ stack = << >> /\ Expansion[0, offset].fine => recordValues = Expansion[0, offset].values
=============================================================================
