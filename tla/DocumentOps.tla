----------------------------- MODULE DocumentOps -----------------------------
(***************************************************************************)
(* The session's operations (control/session.rs): apply_raw carries out an *)
(* op and computes its inverse from what it found, transact collects both  *)
(* and on an error runs the inverses backwards, fold_ops merges Sets of    *)
(* one property; undo and redo run a recorded transaction's inverses or    *)
(* ops through the same door.  Above them are the commands that compose    *)
(* transactions (control/mod.rs); some read the document under one lock    *)
(* and commit under another.                                               *)
(*                                                                         *)
(* A document here is the order of tracks with their routing and their     *)
(* plugin slots, clips, plugin instances with one parameter each, and what *)
(* a launcher drives.  Ids are numbers, 0 is no id, and index n is after   *)
(* the end for n beyond it.                                                *)
(***************************************************************************)
EXTENDS Naturals, Sequences, SequencesExt

CONSTANTS
  Threads,   \* threads that read the document before they commit
  Start,     \* the document that was opened
  Maps,      \* launchers
  MaxEdits   \* bound: transactions recorded

VARIABLES
  doc,    \* Session's document
  plan,   \* per thread: the ops it has prepared, or none
  undo,   \* recorded transactions with, for history, the documents around them
  redo,
  edits,  \* how many were recorded
  odd     \* history: a slot was swept by PluginRemove, or a command that had read
          \* an older document left a wire loose or bound a slotted plugin

vars == <<doc, plan, undo, redo, edits, odd>>

Has(rows, id) == \E i \in DOMAIN rows : rows[i].id = id
At(rows, id) == CHOOSE i \in DOMAIN rows : rows[i].id = id
Row(rows, id) == rows[At(rows, id)]
Least(a, b) == IF a <= b THEN a ELSE b
Put(rows, index, row) == InsertAt(rows, Least(index, Len(rows) + 1), row)
Without(rows, id) == RemoveAt(rows, At(rows, id))
End == 99

(* The document with another row for a track. *)
WithTrack(d, row) == [d EXCEPT !.tracks = ReplaceAt(@, At(@, row.id), row)]

Nothing == [ops |-> <<>>]

Init ==
  /\ doc = Start /\ plan = [t \in Threads |-> Nothing]
  /\ undo = <<>> /\ redo = <<>> /\ edits = 0 /\ odd = FALSE

----------------------------------------------------------------------------
(* What an op leads to: its document and inverse, or an error. *)
Fails(d) == [ok |-> FALSE, doc |-> d, inverse |-> <<>>]
Does(d, o) == [ok |-> TRUE, doc |-> d, inverse |-> o]

(* Set: a property of a track or a clip, or a plugin's parameter, clamped. *)
Set(what, id, to) == [op |-> "Set", what |-> what, id |-> id, from |-> 0, to |-> to]
In(what) == IF what = "start" THEN "clips" ELSE "tracks"

SetRow(d, o) ==
  LET rows == d[In(o.what)]
      row == Row(rows, o.id)
  IN  IF ~Has(rows, o.id) THEN Fails(d)
      ELSE Does([d EXCEPT ![In(o.what)] = ReplaceAt(@, At(@, o.id), [row EXCEPT ![o.what] = o.to])],
                [o EXCEPT !.from = o.to, !.to = row[o.what]])

SetParam(d, o) ==
  LET to == Least(o.to, 1)
  IN  IF ~Has(d.plugins, o.id) THEN Fails(d)
      ELSE Does([d EXCEPT !.raised = IF to = 1 THEN @ \cup {o.id} ELSE @ \ {o.id}],
                [o EXCEPT !.from = to, !.to = IF o.id \in d.raised THEN 1 ELSE 0])

(* A track takes its clips with it and brings them back to their places. *)
TrackRemove(t) == [op |-> "TrackRemove", id |-> t]
TrackAdd(row, index, clips, places) ==
  [op |-> "TrackAdd", row |-> row, index |-> index, clips |-> clips, places |-> places]

AddTrack(d, o) ==
  IF Has(d.tracks, o.row.id) THEN Fails(d)
  ELSE Does([d EXCEPT !.tracks = Put(@, o.index, o.row),
                      !.clips = FoldLeftDomain(LAMBDA cs, i : Put(cs, o.places[i], o.clips[i]), @, o.clips)],
            TrackRemove(o.row.id))

RemoveTrack(d, o) ==
  LET places == SetToSortSeq({i \in DOMAIN d.clips : d.clips[i].track = o.id}, <)
  IN  IF ~Has(d.tracks, o.id) THEN Fails(d)
      ELSE Does([d EXCEPT !.tracks = Without(@, o.id), !.clips = SelectSeq(@, LAMBDA c : c.track # o.id)],
                TrackAdd(Row(d.tracks, o.id), At(d.tracks, o.id), [i \in DOMAIN places |-> d.clips[places[i]]], places))

TrackReorder(order) == [op |-> "TrackReorder", order |-> order]

Reorder(d, o) ==
  LET now == [i \in DOMAIN d.tracks |-> d.tracks[i].id]
  IN  IF Len(o.order) # Len(now) \/ ToSet(o.order) # ToSet(now) THEN Fails(d)
      ELSE Does([d EXCEPT !.tracks = [i \in DOMAIN now |-> Row(d.tracks, o.order[i])]], TrackReorder(now))

ClipAdd(clip, index) == [op |-> "ClipAdd", row |-> clip, index |-> index]
ClipRemove(c) == [op |-> "ClipRemove", id |-> c]

AddClip(d, o) ==
  IF Has(d.clips, o.row.id) THEN Fails(d)
  ELSE Does([d EXCEPT !.clips = Put(@, o.index, o.row)], ClipRemove(o.row.id))

RemoveClip(d, o) ==
  IF ~Has(d.clips, o.id) THEN Fails(d)
  ELSE Does([d EXCEPT !.clips = Without(@, o.id)], ClipAdd(Row(d.clips, o.id), At(d.clips, o.id)))

(* A launcher's drive list: a clip is driven by one launcher at most. *)
DriveSet(map, clip, on) == [op |-> "DriveSet", map |-> map, clip |-> clip, on |-> on]

Drive(d, o) ==
  LET was == d.drives[o.clip]
      back == IF o.on /\ was # 0 THEN DriveSet(was, o.clip, TRUE)
              ELSE DriveSet(o.map, o.clip, ~o.on /\ was = o.map)
  IN  Does([d EXCEPT !.drives[o.clip] = IF o.on THEN o.map ELSE IF @ = o.map THEN 0 ELSE @], back)

----------------------------------------------------------------------------
(* Plugin instances and the slots they sit in. *)
PluginAdd(p, index) == [op |-> "PluginAdd", row |-> [id |-> p], index |-> index]
PluginRemove(p) == [op |-> "PluginRemove", id |-> p]

(* A parameter is parked while its instance is gone. *)
AddPlugin(d, o) ==
  IF Has(d.plugins, o.row.id) THEN Fails(d)
  ELSE Does([d EXCEPT !.plugins = Put(@, o.index, o.row)], PluginRemove(o.row.id))

Slotted(d, p) == \E i \in DOMAIN d.tracks : Has(d.tracks[i].inserts, p)

(* Slots of the instance are swept, and the inverse does not restore them. *)
RemovePlugin(d, o) ==
  IF ~Has(d.plugins, o.id) THEN Fails(d)
  ELSE Does([d EXCEPT !.plugins = Without(@, o.id),
                      !.tracks = [i \in DOMAIN @ |->
                         [@[i] EXCEPT !.inserts = SelectSeq(@, LAMBDA s : s.id # o.id)]]],
            PluginAdd(o.id, At(d.plugins, o.id)))

(* A slot has the id of its instance. *)
InsertAdd(t, slot, index) == [op |-> "InsertAdd", track |-> t, row |-> slot, index |-> index]
InsertRemove(t, slot) == [op |-> "InsertRemove", track |-> t, id |-> slot]
InsertMove(t, slot, to) == [op |-> "InsertMove", track |-> t, id |-> slot, to |-> to]
InsertBypass(t, slot, on) == [op |-> "InsertBypass", track |-> t, id |-> slot, to |-> on]

AddInsert(d, o) ==
  LET row == Row(d.tracks, o.track)
  IN  IF \/ ~Has(d.tracks, o.track) \/ Slotted(d, o.row.id)
         \/ \E i \in DOMAIN d.tracks : d.tracks[i].instrument = o.row.id
      THEN Fails(d)
      ELSE Does(WithTrack(d, [row EXCEPT !.inserts = Put(@, o.index, o.row)]), InsertRemove(o.track, o.row.id))

HasInsert(d, o) == Has(d.tracks, o.track) /\ Has(Row(d.tracks, o.track).inserts, o.id)

RemoveInsert(d, o) ==
  LET row == Row(d.tracks, o.track)
  IN  IF ~HasInsert(d, o) THEN Fails(d)
      ELSE Does(WithTrack(d, [row EXCEPT !.inserts = Without(@, o.id)]),
                InsertAdd(o.track, Row(row.inserts, o.id), At(row.inserts, o.id)))

MoveInsert(d, o) ==
  LET row == Row(d.tracks, o.track)
  IN  IF ~HasInsert(d, o) THEN Fails(d)
      ELSE Does(WithTrack(d, [row EXCEPT !.inserts =
                                Put(Without(@, o.id), Least(o.to, Len(@)), Row(@, o.id))]),
                InsertMove(o.track, o.id, At(row.inserts, o.id)))

BypassInsert(d, o) ==
  LET row == Row(d.tracks, o.track)
  IN  IF ~HasInsert(d, o) THEN Fails(d)
      ELSE Does(WithTrack(d, [row EXCEPT !.inserts = ReplaceAt(@, At(@, o.id), [id |-> o.id, on |-> o.to])]),
                InsertBypass(o.track, o.id, Row(row.inserts, o.id).on))

----------------------------------------------------------------------------
(* Routing: outputs and sends lead into buses and close no loop.           *)
Wires(row) == ({row.out} \cup {row.sends[i].dest : i \in DOMAIN row.sends}) \ {0}
Follow(d, S) == S \cup UNION {Wires(d.tracks[i]) : i \in {j \in DOMAIN d.tracks : d.tracks[j].id \in S}}
Reaches(d, t) == FoldLeft(LAMBDA S, r : Follow(d, S), {t}, d.tracks)

(* Faulty variant. *)
WouldCycleByOutputs(d, from, to) ==
  from \in FoldLeft(LAMBDA S, r : S \cup {d.tracks[i].out : i \in {j \in DOMAIN d.tracks : d.tracks[j].id \in S}},
                    {to}, d.tracks)

WouldCycle(d, from, to) == from \in Reaches(d, to)

IsBus(d, t) == Has(d.tracks, t) /\ Row(d.tracks, t).bus

SendAdd(t, send, index) == [op |-> "SendAdd", track |-> t, row |-> send, index |-> index]
SendRemove(t, s) == [op |-> "SendRemove", track |-> t, id |-> s]
SendSet(t, s, what, to) == [op |-> "SendSet", track |-> t, id |-> s, what |-> what, to |-> to]
SetOutput(t, dest) == [op |-> "SetOutput", track |-> t, to |-> dest]

AddSend(d, o) ==
  LET row == Row(d.tracks, o.track)
  IN  IF \/ ~IsBus(d, o.row.dest) \/ ~Has(d.tracks, o.track) \/ Has(row.sends, o.row.id)
         \/ \E i \in DOMAIN row.sends : row.sends[i].dest = o.row.dest
         \/ WouldCycle(d, o.track, o.row.dest)
      THEN Fails(d)
      ELSE Does(WithTrack(d, [row EXCEPT !.sends = Put(@, o.index, o.row)]), SendRemove(o.track, o.row.id))

HasSend(d, o) == Has(d.tracks, o.track) /\ Has(Row(d.tracks, o.track).sends, o.id)

RemoveSend(d, o) ==
  LET row == Row(d.tracks, o.track)
  IN  IF ~HasSend(d, o) THEN Fails(d)
      ELSE Does(WithTrack(d, [row EXCEPT !.sends = Without(@, o.id)]),
                SendAdd(o.track, Row(row.sends, o.id), At(row.sends, o.id)))

(* SendSetAmount and SendSetPreFader. *)
ChangeSend(d, o) ==
  LET row == Row(d.tracks, o.track)
      send == Row(row.sends, o.id)
  IN  IF ~HasSend(d, o) THEN Fails(d)
      ELSE Does(WithTrack(d, [row EXCEPT !.sends = ReplaceAt(@, At(@, o.id), [send EXCEPT ![o.what] = o.to])]),
                [o EXCEPT !.to = send[o.what]])

ChangeOutput(d, o) ==
  LET row == Row(d.tracks, o.track)
  IN  IF \/ ~Has(d.tracks, o.track)
         \/ o.to # 0 /\ (~IsBus(d, o.to) \/ WouldCycle(d, o.track, o.to))
      THEN Fails(d)
      ELSE Does(WithTrack(d, [row EXCEPT !.out = o.to]), SetOutput(o.track, row.out))

Apply(d, o) ==
  CASE o.op = "Set" -> IF o.what = "param" THEN SetParam(d, o) ELSE SetRow(d, o)
    [] o.op = "TrackAdd" -> AddTrack(d, o)
    [] o.op = "TrackRemove" -> RemoveTrack(d, o)
    [] o.op = "TrackReorder" -> Reorder(d, o)
    [] o.op = "ClipAdd" -> AddClip(d, o)
    [] o.op = "ClipRemove" -> RemoveClip(d, o)
    [] o.op = "DriveSet" -> Drive(d, o)
    [] o.op = "PluginAdd" -> AddPlugin(d, o)
    [] o.op = "PluginRemove" -> RemovePlugin(d, o)
    [] o.op = "InsertAdd" -> AddInsert(d, o)
    [] o.op = "InsertRemove" -> RemoveInsert(d, o)
    [] o.op = "InsertMove" -> MoveInsert(d, o)
    [] o.op = "InsertBypass" -> BypassInsert(d, o)
    [] o.op = "SendAdd" -> AddSend(d, o)
    [] o.op = "SendRemove" -> RemoveSend(d, o)
    [] o.op = "SendSet" -> ChangeSend(d, o)
    [] o.op = "SetOutput" -> ChangeOutput(d, o)

----------------------------------------------------------------------------
(* A transaction. *)

(* The ops up to the first that fails. *)
Run(d, ops) ==
  FoldLeft(LAMBDA r, o :
             IF ~r.ok THEN r
             ELSE LET did == Apply(r.doc, o)
                  IN  [ok |-> did.ok, doc |-> did.doc,
                       inverses |-> IF did.ok THEN Append(r.inverses, did.inverse) ELSE r.inverses,
                       swept |-> r.swept \/ (o.op = "PluginRemove" /\ Slotted(r.doc, o.id))],
           [ok |-> TRUE, doc |-> d, inverses |-> <<>>, swept |-> FALSE], ops)

(* fold_ops: Sets of one property with no structural op between them       *)
(* become one, from the first value to the last, and none if those are one.*)
Barriers(ops, i) == {j \in 1..i : ops[j].op # "Set"}

(* Faulty variant. *)
AlikeAcross(ops, i) ==
  {j \in DOMAIN ops : ops[j].op = "Set" /\ ops[j].what = ops[i].what /\ ops[j].id = ops[i].id}

Alike(ops, i) ==
  {j \in DOMAIN ops : /\ ops[j].op = "Set" /\ ops[j].what = ops[i].what /\ ops[j].id = ops[i].id
                      /\ Barriers(ops, j) = Barriers(ops, i)}

First(ops, inverses, i) == inverses[Min(Alike(ops, i))].to
Final(ops, inverses, i) == inverses[Max(Alike(ops, i))].from
Kept(ops, inverses) ==
  {i \in DOMAIN ops :
     ops[i].op = "Set" => i = Min(Alike(ops, i)) /\ First(ops, inverses, i) # Final(ops, inverses, i)}
Folded(ops, inverses, order) ==
  [ops |-> [k \in DOMAIN order |->
      IF ops[order[k]].op # "Set" THEN ops[order[k]]
      ELSE [ops[order[k]] EXCEPT !.from = First(ops, inverses, order[k]), !.to = Final(ops, inverses, order[k])]],
   inverses |-> Reverse([k \in DOMAIN order |->
      IF ops[order[k]].op # "Set" THEN inverses[order[k]]
      ELSE [inverses[order[k]] EXCEPT !.from = Final(ops, inverses, order[k]), !.to = First(ops, inverses, order[k])]])]
FoldOps(ops, inverses) == Folded(ops, inverses, SetToSortSeq(Kept(ops, inverses), <))

(* Faulty variant. *)
RollBackForward(r) == Run(r.doc, r.inverses)

RollBack(r) == Run(r.doc, Reverse(r.inverses))

Settle(r, ops) ==
  IF r.ok THEN [ok |-> TRUE, doc |-> r.doc, swept |-> r.swept] @@ FoldOps(ops, r.inverses)
  ELSE [ok |-> FALSE, doc |-> RollBack(r).doc, swept |-> FALSE, ops |-> <<>>, inverses |-> <<>>]
Transact(d, ops) == Settle(Run(d, ops), ops)

(* A wire that leads nowhere; an instrument whose instance is in a slot. *)
Loose(d) ==
  \E i \in DOMAIN d.tracks : \E w \in Wires(d.tracks[i]) : ~Has(d.tracks, w)
BindsSlotted(ops) ==
  \E i \in DOMAIN ops : ops[i].op = "Set" /\ ops[i].what = "instrument" /\ Slotted(doc, ops[i].to)

(* A commit is recorded unless nothing is left of it; redo is then over. *)
Record(t, ops, stale) ==
  /\ doc' = t.doc
  /\ IF t.ops = <<>> THEN UNCHANGED <<undo, redo, edits>>
     ELSE /\ undo' = Append(undo, [ops |-> t.ops, inverses |-> t.inverses, before |-> doc, after |-> t.doc])
          /\ redo' = <<>> /\ edits' = edits + 1
  /\ odd' = (odd \/ t.swept \/ (stale /\ (Loose(t.doc) \/ BindsSlotted(ops))))
Commit(ops, stale) == edits < MaxEdits /\ Record(Transact(doc, ops), ops, stale)

Undo ==
  /\ undo # <<>>
  /\ \E e \in {Last(undo)} : \E t \in {Transact(doc, e.inverses)} :
         /\ doc' = t.doc
         /\ IF t.ok THEN undo' = Front(undo) /\ redo' = Append(redo, e) ELSE UNCHANGED <<undo, redo>>
  /\ UNCHANGED <<plan, edits, odd>>

Redo ==
  /\ redo # <<>>
  /\ \E e \in {Last(redo)} : \E t \in {Transact(doc, e.ops)} :
         /\ doc' = t.doc
         /\ IF t.ok THEN redo' = Front(redo) /\ undo' = Append(undo, e) ELSE UNCHANGED <<undo, redo>>
  /\ UNCHANGED <<plan, edits, odd>>

----------------------------------------------------------------------------
(* The commands.  Ids are what a client has seen, or fresh.                *)
Fresh == 100 + edits
Tracks == {Start.tracks[i].id : i \in DOMAIN Start.tracks}
Clips == DOMAIN Start.drives
Instances == {Start.plugins[i].id : i \in DOMAIN Start.plugins} \cup 100..(100 + MaxEdits)

(* Those that prepare: what a thread reads now it commits later. *)
Prepare(th, ops) ==
  /\ plan[th] = Nothing /\ edits < MaxEdits
  /\ plan' = [plan EXCEPT ![th] = [ops |-> ops, read |-> doc]]
  /\ UNCHANGED <<doc, undo, redo, edits, odd>>

CommitPlan(th) ==
  /\ plan[th] # Nothing
  /\ Commit(plan[th].ops, plan[th].read # doc)
  /\ plan' = [plan EXCEPT ![th] = Nothing]

Each(rows, Keep(_), op(_)) ==
  LET some == SelectSeq(rows, Keep) IN [i \in DOMAIN some |-> op(some[i])]

(* Faulty variant. *)
RemovalLeavesWires(d, t) ==
  <<TrackRemove(t)>> \o Each(Row(d.tracks, t).inserts, LAMBDA s : Has(d.plugins, s.id), LAMBDA s : PluginRemove(s.id))

(* remove_track: first what leads into the track, then the track, then     *)
(* the instances of its slots.                                             *)
Removal(d, t) ==
  Each(d.tracks, LAMBDA r : r.out = t, LAMBDA r : SetOutput(r.id, 0))
  \o FlattenSeq(Each(d.tracks, LAMBDA r : TRUE,
                     LAMBDA r : Each(r.sends, LAMBDA s : s.dest = t, LAMBDA s : SendRemove(r.id, s.id))))
  \o <<TrackRemove(t)>>
  \o Each(Row(d.tracks, t).inserts, LAMBDA s : Has(d.plugins, s.id), LAMBDA s : PluginRemove(s.id))

PlanRemoval(th) == \E t \in Tracks : Has(doc.tracks, t) /\ Prepare(th, Removal(doc, t))

PlanSendRemove(th) ==
  \E i \in DOMAIN doc.tracks : \E j \in DOMAIN doc.tracks[i].sends :
    Prepare(th, <<SendRemove(doc.tracks[i].id, doc.tracks[i].sends[j].id)>>)

PlanInsertRemove(th) ==
  \E i \in DOMAIN doc.tracks : \E j \in DOMAIN doc.tracks[i].inserts :
    LET p == doc.tracks[i].inserts[j].id
    IN  Has(doc.plugins, p) /\ Prepare(th, <<InsertRemove(doc.tracks[i].id, p), PluginRemove(p)>>)

PlanPluginRemove(th) ==
  \E i \in DOMAIN doc.plugins : Prepare(th, <<PluginRemove(doc.plugins[i].id)>>)

(* reject_effect_as_instrument. *)
MayBeInstrument(d, p) == Has(d.plugins, p) /\ ~Slotted(d, p)

PlanInstrument(th) ==
  \E t \in Tracks, p \in Instances \cup {0} :
    /\ p = 0 \/ MayBeInstrument(doc, p)
    /\ Prepare(th, <<Set("instrument", t, p)>>)

(* arrange_lanes: an order, and the groups that change (bounded to one     *)
(* track in a group).                                                      *)
PlanLanes(th) ==
  \E order \in SetToSeqs({doc.tracks[i].id : i \in DOMAIN doc.tracks}), S \in {{}} \cup {{t} : t \in Tracks} :
    Prepare(th, <<TrackReorder(order)>>
                \o Each(doc.tracks, LAMBDA r : r.group # (IF r.id \in S THEN 1 ELSE 0),
                        LAMBDA r : Set("group", r.id, IF r.id \in S THEN 1 ELSE 0)))

Direct(ops) == Commit(ops, FALSE) /\ UNCHANGED plan

DoSendAdd ==
  \E t, dest \in Tracks :
    Direct(<<SendAdd(t, [id |-> Fresh, dest |-> dest, amount |-> 0, pre |-> 0], End)>>)
DoSendSet ==
  \E i \in DOMAIN doc.tracks : \E j \in DOMAIN doc.tracks[i].sends, what \in {"amount", "pre"} :
    Direct(<<SendSet(doc.tracks[i].id, doc.tracks[i].sends[j].id, what, 1)>>)
DoSetOutput == \E t \in Tracks, dest \in Tracks \cup {0} : Direct(<<SetOutput(t, dest)>>)
DoInsertAdd ==
  \E t \in Tracks, index \in {1, End} :
    Direct(<<PluginAdd(Fresh, End), InsertAdd(t, [id |-> Fresh, on |-> TRUE], index)>>)
DoInstantiate == Direct(<<PluginAdd(Fresh, End)>>)
DoInsertMove == \E t \in Tracks, p \in Instances, to \in {1, End} : Direct(<<InsertMove(t, p, to)>>)
DoBypass == \E t \in Tracks, p \in Instances, on \in BOOLEAN : Direct(<<InsertBypass(t, p, on)>>)
DoSetParam == \E p \in Instances, a, b \in {0, 2} : Direct(<<Set("param", p, a), Set("param", p, b)>>)
DoDrive == \E map \in Maps, c \in Clips, on \in BOOLEAN : Direct(<<DriveSet(map, c, on)>>)
DoAddTrack == Direct(<<TrackAdd([Start.tracks[1] EXCEPT !.id = Fresh, !.inserts = <<>>, !.sends = <<>>],
                                End, <<>>, <<>>)>>)

(* Edits of clips in any composition, as the clipboard and the loop jam    *)
(* make them: bounded to four ops on one clip, fewer the later, or two on  *)
(* any.                                                                    *)
ClipOps(c) ==
  {Set("start", c, 0), Set("start", c, 1), ClipRemove(c),
   ClipAdd([id |-> c, track |-> Start.tracks[1].id, start |-> 1], 1)}
DoClips ==
  \/ \E c \in Clips, n \in 1..(4 - edits) : \E ops \in [1..n -> ClipOps(c)] : Direct(ops)
  \/ \E ops \in [1..2 -> UNION {ClipOps(c) : c \in Clips}] : Direct(ops)

Routing ==
  \/ DoSendAdd \/ DoSendSet \/ DoSetOutput
  \/ \E th \in Threads : PlanRemoval(th) \/ PlanSendRemove(th) \/ CommitPlan(th)
Slots ==
  \/ DoInsertAdd \/ DoInstantiate \/ DoInsertMove \/ DoBypass \/ DoSetParam
  \/ \E th \in Threads : PlanRemoval(th) \/ PlanInsertRemove(th) \/ PlanPluginRemove(th)
                         \/ PlanInstrument(th) \/ CommitPlan(th)
Clipping ==
  \/ DoClips \/ DoDrive
  \/ \E th \in Threads : PlanRemoval(th) \/ CommitPlan(th)
Arranging ==
  \/ DoAddTrack
  \/ \E th \in Threads : PlanRemoval(th) \/ PlanLanes(th) \/ CommitPlan(th)

Next == Routing \/ Slots \/ Clipping \/ Arranging \/ Undo \/ Redo

Spec == Init /\ [][Next]_vars

----------------------------------------------------------------------------
(* Properties.                                                             *)

(* Undo leads back and redo leads forth: the step on top applies without   *)
(* an error and gives the document it was made from, or the one it made,   *)
(* whatever was folded, reordered or removed in between; until a plugin is *)
(* removed under its slot, or a stale command lands (odd).                 *)
UndoLeadsHome ==
  ~odd =>
    /\ undo # <<>> =>
         LET e == Last(undo) t == Transact(doc, e.inverses)
         IN  doc = e.after /\ t.ok /\ t.doc = e.before
    /\ redo # <<>> =>
         LET e == Last(redo) t == Transact(doc, e.ops)
         IN  doc = e.before /\ t.ok /\ t.doc = e.after

(* A transaction that fails, or nets to nothing, leaves the document as it *)
(* was: its rollback does not fail (but see odd).                          *)
FailsWhole ==
  [][undo' = undo /\ redo' = redo /\ ~odd => doc' = doc]_vars

(* However edits, undo and redo interleave, routing closes no loop, a      *)
(* plugin has one place at most and no slot is without its plugin; and,    *)
(* until a stale command lands, no wire leads to a track that is gone and  *)
(* no plugin is a track's instrument and in a slot.                        *)
Places(d, p) ==
  {<<i, j>> \in (DOMAIN d.tracks) \X (1..Len(d.plugins)) :
     j \in DOMAIN d.tracks[i].inserts /\ d.tracks[i].inserts[j].id = p}

DocumentIsSound ==
  /\ \A i \in DOMAIN doc.tracks : \A w \in Wires(doc.tracks[i]) : doc.tracks[i].id \notin Reaches(doc, w)
  /\ odd \/ ~Loose(doc)
  /\ \A p \in Instances :
       /\ \A a, b \in Places(doc, p) : a = b
       /\ Slotted(doc, p) =>
            /\ Has(doc.plugins, p)
            /\ odd \/ \A i \in DOMAIN doc.tracks : doc.tracks[i].instrument # p
=============================================================================
