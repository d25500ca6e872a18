----------------------------- MODULE ZoneProofs -----------------------------
(***************************************************************************)
(* For any zones, hosts, addresses and days: what the record operations    *)
(* preserve in one zone; that a zone file never holds a CNAME beside other *)
(* data; that a command that failed has changed no file; that every zone   *)
(* file keeps its SOA and its name server; and, while serials have room to *)
(* grow, that they never come again and that comparing them proves what    *)
(* unbound serves; and, where reverse zones are committed first, that      *)
(* forward and reverse zones stay in step, through kills as well.  The     *)
(* invariants build on one another: IInv, then FileInv, and on that one    *)
(* SerialInv, ServedInv and AgreeInv.                                      *)
(***************************************************************************)
EXTENDS Zones, WellFoundedInduction, TLAPS

-----------------------------------------------------------------------------
(* What the record operations preserve, in any zone.                       *)

(***************************************************************************)
(* Add (zones.go) never puts a CNAME beside other data: an accepted record *)
(* leaves a zone without such a name without one.                          *)
(***************************************************************************)
THEOREM AddKeepsCnamesAlone ==
  ASSUME NEW recs, NEW r, NEW apex, NEW overlay \in BOOLEAN,
         CnamesAlone(recs), ~AddRefused(recs, r, apex, overlay)
  PROVE  CnamesAlone(Added(recs, r))
<1>1. SUFFICES ASSUME NEW s \in Added(recs, r), NEW t \in Added(recs, r),
                      CnameClash(s, t)
               PROVE  FALSE
  BY DEF CnamesAlone
<1>2. CASE s \in recs /\ t \in recs
  BY <1>1, <1>2 DEF CnamesAlone
<1>3. CASE s = r
  <2>1. t \in recs
    BY <1>1, <1>3 DEF Added, CnameClash, SameData
  <2> QED BY <1>1, <1>3, <2>1 DEF AddRefused
<1>4. CASE t = r
  <2>1. s \in recs
    BY <1>1, <1>4 DEF Added, CnameClash, SameData
  <2>2. CnameClash(r, s)
    BY <1>1, <1>4 DEF CnameClash, SameData
  <2> QED BY <2>1, <2>2 DEF AddRefused
<1> QED BY <1>1, <1>2, <1>3, <1>4 DEF Added

(***************************************************************************)
(* Merge (zones.go) never serves a CNAME beside other data: if the         *)
(* provider's copy and the overlay each keep CNAMEs alone, so does what is *)
(* served, whatever hides what.                                            *)
(***************************************************************************)
THEOREM MergeKeepsCnamesAlone ==
  ASSUME NEW base, NEW ov, NEW apex,
         CnamesAlone(base), CnamesAlone(ov), ~MergeRefused(ov, apex)
  PROVE  CnamesAlone(Merged(base, ov, apex))
<1>1. ASSUME NEW r \in base, NEW o \in ov, r \notin Shadowed(base, ov, apex),
             CnameClash(r, o) \/ CnameClash(o, r)
      PROVE  FALSE
  <2>1. r.name = o.name /\ "CNAME" \in {o.type, r.type}
    BY <1>1 DEF CnameClash
  <2>2. Hides(o, r)
    BY <2>1 DEF Hides
  <2>3. Protected(r, apex)
    BY <1>1, <2>2 DEF Shadowed
  <2>4. o.name = apex /\ o.type = "CNAME"
    BY <2>1, <2>3 DEF Protected
  <2> QED BY <2>4 DEF MergeRefused
<1>2. SUFFICES ASSUME NEW s \in Merged(base, ov, apex),
                      NEW t \in Merged(base, ov, apex), CnameClash(s, t)
               PROVE  FALSE
  BY DEF CnamesAlone
<1>3. CASE s \in base /\ t \in base
  BY <1>2, <1>3 DEF CnamesAlone
<1>4. CASE s \in ov /\ t \in ov
  BY <1>2, <1>4 DEF CnamesAlone
<1>5. CASE s \notin ov /\ t \in ov
  BY <1>1, <1>2, <1>5 DEF Merged
<1>6. CASE s \in ov /\ t \notin ov
  BY <1>1, <1>2, <1>6 DEF Merged
<1> QED BY <1>2, <1>3, <1>4, <1>5, <1>6 DEF Merged

(***************************************************************************)
(* What Merge returns can be served: the provider's single SOA and its     *)
(* apex name servers are all still there and the overlay adds no other.    *)
(***************************************************************************)
THEOREM MergeIsServable ==
  ASSUME NEW base, NEW ov, NEW apex, Servable(base, apex),
         \A o \in ov : o.type # "SOA",
         \E r \in base : r.name = apex /\ r.type = "NS"
  PROVE  /\ Servable(Merged(base, ov, apex), apex)
         /\ \A r \in base : Protected(r, apex) => r \in Merged(base, ov, apex)
<1>1. \A r \in base : Protected(r, apex) => r \in Merged(base, ov, apex)
  BY DEF Merged, Shadowed
<1>2. PICK s \in base : {r \in base : r.type = "SOA"} = {s} /\ s.name = apex
  BY DEF Servable
<1>3. s.type = "SOA" /\ s \in Merged(base, ov, apex)
  BY <1>1, <1>2 DEF Protected
<1>4. {r \in Merged(base, ov, apex) : r.type = "SOA"} = {s}
  BY <1>2, <1>3 DEF Merged
<1>5. PICK n \in base : n.name = apex /\ n.type = "NS"
  OBVIOUS
<1>6. n \in Merged(base, ov, apex) /\ n.type # "SOA"
  BY <1>1, <1>5 DEF Protected
<1> QED BY <1>1, <1>2, <1>3, <1>4, <1>6 DEF Servable

(***************************************************************************)
(* nextSerial goes up whatever the clock says, as long as the counter has  *)
(* room: "never goes backwards" (zones.go).                                *)
(***************************************************************************)
THEOREM NextSerialAdvances ==
  ASSUME NEW old \in Nat, NEW today \in Nat,
         SerialSpace \in Nat, old + 1 < SerialSpace
  PROVE  NextSerial(old, today) > old /\ NextSerial(old, today) \in Nat
<1>1. (old + 1) % SerialSpace = old + 1
  OBVIOUS
<1> QED BY <1>1 DEF NextSerial

-----------------------------------------------------------------------------
\* What the commands do to the records of one zone

LEMMA SubsetAlone ==
  ASSUME NEW recs, NEW sub \in SUBSET recs, CnamesAlone(recs)
  PROVE  CnamesAlone(sub)
BY DEF CnamesAlone

LEMMA AddedAllAlone ==
  ASSUME NEW recs, NEW new, NEW z, CnamesAlone(recs),
         \A r \in new : r.type # "CNAME",
         ~AnyRefused(recs, new, z)
  PROVE  CnamesAlone(AddedAll(recs, new))
<1>1. \A r \in new : \A s \in recs : ~CnameClash(r, s) /\ ~CnameClash(s, r)
  BY DEF AnyRefused, AddRefused, CnameClash, SameData
<1>2. \A r, s \in new : ~CnameClash(r, s)
  BY DEF CnameClash
<1> QED BY <1>1, <1>2 DEF CnamesAlone, AddedAll

LEMMA CreatedAlone ==
  ASSUME NEW z, NEW today
  PROVE  CnamesAlone(Created(z, today).recs)
BY DEF CnamesAlone, CnameClash, Created

-----------------------------------------------------------------------------
\* The inductive invariant

Fcns ==
  /\ file = [z \in Zone |-> file[z]]
  /\ prev = [z \in Zone |-> prev[z]]
  /\ before = [z \in Zone |-> before[z]]

Sets ==
  /\ pc \in {"idle", "save", "activate", "verify", "undo", "takeBack"}
  /\ local \subseteq Zone /\ todo \subseteq Zone /\ done \subseteq Zone
  /\ todo \cap done = {}
  /\ pc # "idle" => report = "none"

\* What is about to be written keeps CNAMEs alone as well.
Alone == AliasesAlone /\ \A z \in todo : CnamesAlone(mem[z])

\* z has been saved by the running command and not been put back.
Saved(z) ==
  z \in done \/ (pc \in {"activate", "verify", "undo"} /\ First(z, todo))

\* Every file can be put back: it is untouched, or its .prev is what it was.
CanUndo ==
  pc # "idle" => \A z \in Zone : IF Saved(z) THEN prev[z] = before[z]
                                 ELSE file[z] = before[z]

IInv == Fcns /\ Sets /\ Alone /\ CanUndo /\ FailedChangesNothing

LEMMA FirstUnique ==
  ASSUME NEW zs \in SUBSET Zone, NEW y, NEW z, First(y, zs), First(z, zs)
  PROVE  y = z
<1>1. y \in Zone /\ z \in Zone /\ Rank[y] \in Nat /\ Rank[z] \in Nat
  BY RankAssumption DEF First
<1>2. Rank[y] <= Rank[z] /\ Rank[z] <= Rank[y]
  BY DEF First
<1> QED BY <1>1, <1>2, RankAssumption

LEMMA Initially == Init => IInv
<1> SUFFICES ASSUME Init PROVE IInv
  OBVIOUS
<1>1. Fcns
  BY DEF Init, Fcns
<1>2. Sets /\ CanUndo /\ FailedChangesNothing
  BY ZoneAssumption DEF Init, Sets, CanUndo, FailedChangesNothing
<1>3. ASSUME NEW z \in Zone
      PROVE  CnamesAlone(file[z].recs) /\ CnamesAlone(prev[z].recs)
  <2>1. CnamesAlone({}) /\ Absent.recs = {}
    BY DEF CnamesAlone, Absent
  <2>2. prev[z] = Absent
    BY DEF Init
  <2>3. CASE z \in FirstZones
    <3>1. file[z].recs = Created(z, clock).recs \cup FirstRecs[z]
      BY <2>3 DEF Init, Created
    <3> QED BY <2>1, <2>2, <3>1, FirstAssumption DEF Init
  <2>4. CASE z \notin FirstZones
    BY <2>1, <2>2, <2>4 DEF Init
  <2> QED BY <2>3, <2>4
<1>4. Alone
  BY <1>3 DEF Alone, AliasesAlone, Init
<1> QED BY <1>1, <1>2, <1>4 DEF IInv

-----------------------------------------------------------------------------
\* The commands

LEMMA BeginKeeps ==
  ASSUME IInv, NEW c, NEW new, NEW touched \in SUBSET Zone,
         Begin(c, new, touched),
         \A z \in touched : CnamesAlone(new[z])
  PROVE  IInv'
<1>1. Fcns' /\ Sets'
  BY DEF IInv, Fcns, Sets, Begin
<1>2. Alone'
  BY DEF IInv, Alone, AliasesAlone, Begin
<1>3. CanUndo'
  BY DEF CanUndo, Saved, Begin
<1>4. FailedChangesNothing'
  BY DEF FailedChangesNothing, Begin
<1> QED BY <1>1, <1>2, <1>3, <1>4 DEF IInv

LEMMA RecordKeeps ==
  ASSUME IInv, RecordCommand PROVE IInv'
<1>0. PICK z \in Zone : \E r \in Extra[z] : RecordAdd(z, r) \/ RecordRemove(z, r)
  BY DEF RecordCommand
<1>1. PICK r \in Extra[z] : RecordAdd(z, r) \/ RecordRemove(z, r)
  BY <1>0
<1>2. CnamesAlone(file[z].recs)
  BY DEF IInv, Alone, AliasesAlone
<1>3. CASE RecordAdd(z, r)
  <2>1. CnamesAlone(Added(file[z].recs, r))
    BY <1>2, <1>3, AddKeepsCnamesAlone DEF RecordAdd
  <2> QED BY <1>3, <2>1, BeginKeeps DEF RecordAdd
<1>4. CASE RecordRemove(z, r)
  <2>1. PICK vs \in {{r.value}, Values} :
          Begin(<<>>, [y \in Zone |-> Removed(file[z].recs, r.name, r.type, vs)], {z})
    BY <1>4 DEF RecordRemove
  <2>2. CnamesAlone(Removed(file[z].recs, r.name, r.type, vs))
    BY <1>2, SubsetAlone DEF Removed
  <2> QED BY <2>1, <2>2, BeginKeeps
<1> QED BY <1>1, <1>3, <1>4

LEMMA HostAddKeeps ==
  ASSUME IInv, NEW h \in Hosts, NEW as, NEW m, HostAdd(h, as, m) PROVE IInv'
<1> DEFINE new == NewOf(h, as, m)
           mems == [z \in Zone |-> IF z \in local THEN AddedAll(file[z].recs, new[z]) ELSE {}]
           touched == {z \in local : new[z] # {}}
<1>1. local \subseteq Zone
  BY DEF IInv, Sets
<1>2. ASSUME NEW z \in local PROVE CnamesAlone(AddedAll(file[z].recs, new[z]))
  <2>1. CnamesAlone(file[z].recs)
    BY <1>1 DEF IInv, Alone, AliasesAlone
  <2>2. \A r \in new[z] : r.type # "CNAME"
    <3>1. CASE z = ZoneOf[h]
      <4>1. new[z] = {ARecord(h, a, m) : a \in as}
        BY <1>1, <3>1 DEF NewOf
      <4>2. \A a : ARecord(h, a, m).type = "A"
        BY DEF ARecord
      <4> QED BY <4>1, <4>2
    <3>2. CASE z # ZoneOf[h]
      <4>1. new[z] = {PTRRecord(a, h, m) : a \in {b \in as : z \in Best(b)}}
        BY <1>1, <3>2 DEF NewOf
      <4>2. \A a : PTRRecord(a, h, m).type = "PTR"
        BY DEF PTRRecord
      <4> QED BY <4>1, <4>2
    <3> QED BY <3>1, <3>2
  <2>3. ~AnyRefused(file[z].recs, new[z], z)
    BY DEF HostAdd, AddAccepted
  <2> QED BY <2>1, <2>2, <2>3, AddedAllAlone
<1>3. \A z \in touched : CnamesAlone(mems[z])
  BY <1>1, <1>2
<1>4. Begin(<<"add", h, as, m>>, mems, touched)
  BY DEF HostAdd
<1>5. touched \in SUBSET Zone
  BY <1>1
<1> HIDE DEF mems, touched
<1> QED BY <1>3, <1>4, <1>5, BeginKeeps

LEMMA HostRemoveKeeps ==
  ASSUME IInv, NEW h \in Hosts, HostRemove(h) PROVE IInv'
<1> DEFINE mems == [z \in Zone |-> IF z \in local THEN file[z].recs \ Dropped(h, z) ELSE {}]
           touched == {z \in local : Dropped(h, z) # {}}
<1>1. local \subseteq Zone
  BY DEF IInv, Sets
<1>2. ASSUME NEW z \in local PROVE CnamesAlone(file[z].recs \ Dropped(h, z))
  BY <1>1, SubsetAlone DEF IInv, Alone, AliasesAlone
<1>3. \A z \in touched : CnamesAlone(mems[z])
  BY <1>1, <1>2
<1>4. Begin(<<"remove", h>>, mems, touched)
  BY DEF HostRemove
<1>5. touched \in SUBSET Zone
  BY <1>1
<1> HIDE DEF mems, touched
<1> QED BY <1>3, <1>4, <1>5, BeginKeeps

LEMMA HostRenameKeeps ==
  ASSUME IInv, NEW h \in Hosts, NEW g \in Hosts, HostRename(h, g) PROVE IInv'
<1> DEFINE new == Moved(h, g)
           mems == [z \in Zone |->
                      IF z \in local THEN AddedAll(file[z].recs \ Dropped(h, z), new[z]) ELSE {}]
           touched == {z \in local : Dropped(h, z) \cup new[z] # {}}
<1>1. local \subseteq Zone
  BY DEF IInv, Sets
<1>2. ASSUME NEW z \in local
      PROVE  CnamesAlone(AddedAll(file[z].recs \ Dropped(h, z), new[z]))
  <2>1. CnamesAlone(file[z].recs \ Dropped(h, z))
    BY <1>1, SubsetAlone DEF IInv, Alone, AliasesAlone
  <2>2. \A r \in new[z] : r.type # "CNAME"
    BY <1>1 DEF Moved, ARecord, PTRRecord
  <2>3. ~AnyRefused(file[z].recs \ Dropped(h, z), new[z], z)
    BY DEF HostRename, RenameAccepted
  <2> QED BY <2>1, <2>2, <2>3, AddedAllAlone
<1>3. \A z \in touched : CnamesAlone(mems[z])
  BY <1>1, <1>2
<1>4. Begin(<<"rename", h, g>>, mems, touched)
  BY DEF HostRename
<1>5. touched \in SUBSET Zone
  BY <1>1
<1> HIDE DEF mems, touched
<1> QED BY <1>3, <1>4, <1>5, BeginKeeps

LEMMA ZoneAddKeeps ==
  ASSUME IInv, NEW z \in Zone, ZoneAdd(z) PROVE IInv'
<1>1. Fcns' /\ Sets' /\ CanUndo' /\ FailedChangesNothing'
  BY DEF IInv, Fcns, Sets, CanUndo, FailedChangesNothing, ZoneAdd, command
<1>2. Alone'
  BY CreatedAlone DEF IInv, Fcns, Alone, AliasesAlone, ZoneAdd, command
<1> QED BY <1>1, <1>2 DEF IInv

-----------------------------------------------------------------------------
\* commit, its way back, and the rest of the world

LEMMA SaveKeeps ==
  ASSUME IInv, NEW z \in Zone, Save(z) PROVE IInv'
<1>1. z \notin done /\ z \in todo /\ First(z, todo)
  BY DEF IInv, Sets, Save, First
<1>2. Fcns' /\ Sets' /\ FailedChangesNothing'
  BY DEF IInv, Fcns, Sets, FailedChangesNothing, Save, history
<1>3. Alone'
  BY <1>1 DEF IInv, Fcns, Alone, AliasesAlone, Save
<1>4. CanUndo'
  <2>1. ASSUME NEW y \in Zone
        PROVE  IF Saved(y)' THEN prev'[y] = before'[y] ELSE file'[y] = before'[y]
    <3>1. CASE y = z
      <4>1. file[z] = before[z] /\ prev'[z] = file[z] /\ before' = before
        BY <1>1 DEF IInv, Fcns, CanUndo, Saved, Save, history
      <4>2. Saved(z)'
        BY <1>1 DEF Saved, Save, First
      <4> QED BY <3>1, <4>1, <4>2
    <3>2. CASE y # z
      <4>1. ~First(y, todo)
        BY <1>1, <3>2, FirstUnique DEF IInv, Sets
      <4>2. prev'[y] = prev[y] /\ file'[y] = file[y] /\ before' = before
        BY <3>2 DEF IInv, Fcns, Save, history
      <4>3. Saved(y)' <=> Saved(y)
        BY <4>1 DEF Saved, Save, First
      <4> QED BY <4>2, <4>3 DEF IInv, CanUndo, Save
    <3> QED BY <3>1, <3>2
  <2> QED BY <2>1 DEF CanUndo
<1> QED BY <1>2, <1>3, <1>4 DEF IInv

LEMMA SaveFailsKeeps ==
  ASSUME IInv, NEW z \in Zone, SaveFails(z) PROVE IInv'
<1>1. z \notin done /\ z \in todo
  BY DEF IInv, Sets, SaveFails, First
<1>2. /\ prev' \in {prev, [prev EXCEPT ![z] = file[z]]}
      /\ file' = file /\ mem' = mem /\ todo' = todo /\ done' = done
      /\ before' = before /\ local' = local /\ report' = report
      /\ pc' = "takeBack" /\ pc = "save"
  BY DEF SaveFails, history
<1>3. Fcns' /\ Sets' /\ Alone' /\ FailedChangesNothing'
  BY <1>2 DEF IInv, Fcns, Sets, Alone, AliasesAlone, FailedChangesNothing
<1>4. CanUndo'
  BY <1>1, <1>2 DEF IInv, Fcns, CanUndo, Saved
<1> QED BY <1>3, <1>4 DEF IInv

LEMMA CommitKeeps ==
  ASSUME IInv, NEW z \in Zone, pc \in {"activate", "verify"}, First(z, todo),
         Commit(z), UNCHANGED <<local, file, prev, mem, before>>
  PROVE  IInv'
<1>1. Fcns' /\ Sets' /\ Alone' /\ FailedChangesNothing'
  BY DEF IInv, Fcns, Sets, Alone, AliasesAlone, FailedChangesNothing, Commit, First
<1>2. CanUndo'
  <2>1. \A y \in Zone : y # z => ~First(y, todo)
    BY FirstUnique DEF IInv, Sets
  <2>2. \A y \in Zone : Saved(y) <=> y \in done \cup {z}
    BY <2>1 DEF Saved
  <2>3. pc' # "idle" => \A y \in Zone : Saved(y)' <=> y \in done \cup {z}
    BY DEF Saved, Commit
  <2> QED BY <2>2, <2>3 DEF IInv, CanUndo
<1> QED BY <1>1, <1>2 DEF IInv

\* Steps that only move pc, before a zone is put back.
LEMMA MoveKeeps ==
  ASSUME IInv, pc \in {"activate", "verify"}, pc' \in {"verify", "undo"},
         UNCHANGED <<local, file, prev, mem, before, todo, done, report>>
  PROVE  IInv'
<1>1. \A y \in Zone : Saved(y)' <=> Saved(y)
  BY DEF Saved, First
<1>2. CanUndo'
  BY <1>1 DEF IInv, CanUndo
<1> QED BY <1>2 DEF IInv, Fcns, Sets, Alone, AliasesAlone, FailedChangesNothing

LEMMA UndoKeeps ==
  ASSUME IInv, NEW z \in Zone, Undo(z) \/ TakeBack(z)
  PROVE  IInv'
<1>1. /\ file' = [file EXCEPT ![z] = prev[z]]
      /\ prev' = [prev EXCEPT ![z] = Absent]
      /\ UNCHANGED <<local, mem, todo, before, report>>
      /\ pc' = "takeBack" /\ done' \subseteq done /\ pc # "idle"
  BY DEF Undo, TakeBack, UndoZone, RolledBack, history
<1>2. CnamesAlone(Absent.recs)
  BY DEF CnamesAlone, Absent
<1>3. Fcns' /\ Sets' /\ Alone' /\ FailedChangesNothing'
  BY <1>1, <1>2 DEF IInv, Fcns, Sets, Alone, AliasesAlone, FailedChangesNothing
<1>4. Saved(z) /\ pc # "idle"
  BY DEF Saved, Undo, TakeBack, First
<1>5. \A y \in Zone : y # z => (Saved(y) <=> y \in done')
  <2>1. CASE Undo(z)
    <3>1. \A y \in Zone : y # z => ~First(y, todo)
      BY <2>1, FirstUnique DEF IInv, Sets, Undo
    <3> QED BY <2>1, <3>1 DEF Saved, Undo
  <2>2. CASE TakeBack(z)
    BY <2>2 DEF Saved, TakeBack
  <2> QED BY <2>1, <2>2
<1>6. z \notin done'
  BY DEF IInv, Sets, Undo, TakeBack, First
<1>7. \A y \in Zone : Saved(y)' <=> y \in done'
  BY <1>1 DEF Saved
<1>8. CanUndo'
  <2>1. file'[z] = before[z]
    BY <1>1, <1>4 DEF IInv, Fcns, CanUndo
  <2>2. \A y \in Zone : y # z => file'[y] = file[y] /\ prev'[y] = prev[y]
    BY <1>1 DEF IInv, Fcns
  <2> QED BY <1>1, <1>4, <1>5, <1>6, <1>7, <2>1, <2>2 DEF IInv, CanUndo
<1> QED BY <1>3, <1>8 DEF IInv

LEMMA FailKeeps ==
  ASSUME IInv, Fail PROVE IInv'
<1>1. \A y \in Zone : ~Saved(y)
  BY DEF Saved, Fail
<1>2. \A y \in Zone : file[y] = before[y]
  BY <1>1 DEF IInv, CanUndo, Fail
<1>3. file = before
  BY <1>2 DEF IInv, Fcns
<1> QED BY <1>3 DEF IInv, Fcns, Sets, Alone, AliasesAlone, CanUndo,
                   FailedChangesNothing, Fail, disk

LEMMA WorldKeeps ==
  ASSUME IInv, World PROVE IInv'
<1>1. CASE Kill
  BY <1>1 DEF IInv, Fcns, Sets, Alone, AliasesAlone, CanUndo,
              FailedChangesNothing, Kill, disk
<1>2. CASE DaemonStops \/ DaemonStarts \/ ClockSet
  <2>1. UNCHANGED <<local, file, prev, before, pc, mem, todo, done, report>>
    BY <1>2 DEF DaemonStops, DaemonStarts, ClockSet, disk, command, history
  <2> QED BY <2>1 DEF IInv, Fcns, Sets, Alone, AliasesAlone, CanUndo, Saved,
                     First, FailedChangesNothing
<1> QED BY <1>1, <1>2 DEF World

LEMMA NextKeeps == IInv /\ [Next]_vars => IInv'
<1> SUFFICES ASSUME IInv, [Next]_vars PROVE IInv'
  OBVIOUS
<1>1. CASE RecordCommand
  BY <1>1, RecordKeeps
<1>2. CASE HostCommand
  BY <1>2, HostAddKeeps, HostRemoveKeeps, HostRenameKeeps DEF HostCommand
<1>3. ASSUME NEW z \in Zone, ZoneAdd(z) PROVE IInv'
  BY <1>3, ZoneAddKeeps
<1>4. ASSUME NEW z \in Zone, Save(z) \/ SaveFails(z) PROVE IInv'
  BY <1>4, SaveKeeps, SaveFailsKeeps
<1>5. ASSUME NEW z \in Zone, ActivateStopped(z) \/ Verify(z) PROVE IInv'
  BY <1>5, CommitKeeps DEF ActivateStopped, Verify, disk
<1>6. ASSUME NEW z \in Zone, Reload(z) \/ VerifyFails(z) PROVE IInv'
  <2>1. /\ pc \in {"activate", "verify"} /\ pc' \in {"verify", "undo"}
        /\ UNCHANGED <<local, file, prev, mem, before, todo, done, report>>
    BY <1>6 DEF Reload, VerifyFails, disk, history
  <2> QED BY <2>1, MoveKeeps
<1>7. ASSUME NEW z \in Zone, Undo(z) \/ TakeBack(z) PROVE IInv'
  BY <1>7, UndoKeeps
<1>8. CASE Fail
  BY <1>8, FailKeeps
<1>9. CASE World
  BY <1>9, WorldKeeps
<1>10. CASE UNCHANGED vars
  BY <1>10 DEF vars, IInv, Fcns, Sets, Alone, AliasesAlone, CanUndo, Saved,
               First, FailedChangesNothing
<1> QED BY <1>1, <1>2, <1>3, <1>4, <1>5, <1>6, <1>7, <1>8, <1>9, <1>10
        DEF Next, Step

-----------------------------------------------------------------------------
\* The theorems

LEMMA IInvAlways == Spec => []IInv
BY Initially, NextKeeps, PTL DEF Spec

(***************************************************************************)
(* Whatever commands run, fail or are killed, no zone file holds a CNAME   *)
(* beside other data at its name (Zone.Add).                               *)
(***************************************************************************)
THEOREM NoFileMixesCnames == Spec => []AliasesAlone
<1>1. IInv => AliasesAlone
  BY DEF IInv, Alone
<1> QED BY <1>1, IInvAlways, PTL

(***************************************************************************)
(* A command that failed, at any of any number of zones, has put back      *)
(* every file it had replaced (zoneSet.commit, activateZone).              *)
(***************************************************************************)
THEOREM FailureIsUndone == Spec => []FailedChangesNothing
<1>1. IInv => FailedChangesNothing
  BY DEF IInv
<1> QED BY <1>1, IInvAlways, PTL

-----------------------------------------------------------------------------
(* Types.  Every local zone keeps its SOA and a name server at its apex, in *)
(* the file, in what is about to be written and in what would be put back,  *)
(* so that every zone a command writes can be served.                       *)

\* A record whose data, if it is an address record, is an address.
Typed == {r \in Record : r.type = "A" => r.value \in Addrs}
ZoneFile == [serial: Nat, recs: SUBSET Typed]

Rooted(recs, z) ==
  /\ \E s \in recs : {r \in recs : r.type = "SOA"} = {s} /\ s.name = z
  /\ \E r \in recs : r.type = "NS" /\ r.name = z

FilesTyped ==
  /\ \A z \in Zone : /\ file[z] \in ZoneFile /\ prev[z] \in ZoneFile
                     /\ served[z] \in ZoneFile /\ before[z] \in ZoneFile
                     /\ mem[z] \subseteq Typed
  /\ served = [z \in Zone |-> served[z]] /\ DOMAIN mem = Zone
  /\ clock \in Days

FilesRooted ==
  /\ \A z \in local : /\ Rooted(file[z].recs, z)
                      /\ pc # "idle" => Rooted(before[z].recs, z)
  /\ \A z \in todo : Rooted(mem[z], z)

Places ==
  /\ local \in SUBSET Zone /\ todo \in SUBSET local /\ done \in SUBSET local
  /\ pc \in {"save", "activate", "verify", "undo"} => todo # {}
  /\ report \in {"none", "ok", "failed"}

FileInv == IInv /\ FilesTyped /\ FilesRooted /\ Places

LEMMA RootedRecs ==
  ASSUME NEW recs, NEW z, Rooted(recs, z)
  PROVE  recs # {} /\ Servable(recs, z)
BY DEF Rooted, Servable

\* What commands add is typed and leaves the root alone, and so does what they drop.
LEMMA RootStays ==
  ASSUME NEW recs, NEW z, Rooted(recs, z), NEW gone, NEW new,
         \A r \in gone : r.type \notin {"SOA", "NS"},
         \A r \in new : r.type \notin {"SOA", "NS"}
  PROVE  Rooted((recs \ gone) \cup new, z)
BY DEF Rooted

LEMMA AddedRooted ==
  ASSUME NEW recs, NEW r, NEW z, Rooted(recs, z), ~AddRefused(recs, r, z, FALSE)
  PROVE  Rooted(Added(recs, r), z)
<1>1. r.type # "SOA" /\ \A s \in Twins(recs, r) : s.type = r.type /\ s.name = r.name
  BY DEF AddRefused, Twins, SameData
<1>2. Added(recs, r) = (recs \ Twins(recs, r)) \cup {r}
  BY DEF Added
<1>3. PICK s \in recs : {q \in recs : q.type = "SOA"} = {s} /\ s.name = z
  BY DEF Rooted
<1>4. PICK n \in recs : n.type = "NS" /\ n.name = z
  BY DEF Rooted
<1>5. {q \in Added(recs, r) : q.type = "SOA"} = {s} /\ s \in Added(recs, r)
  BY <1>1, <1>2, <1>3
<1>6. \E q \in Added(recs, r) : q.type = "NS" /\ q.name = z
  <2>1. CASE n \in Twins(recs, r)
    BY <1>1, <1>2, <1>4, <2>1
  <2>2. CASE n \notin Twins(recs, r)
    BY <1>2, <1>4, <2>2
  <2> QED BY <2>1, <2>2
<1> QED BY <1>3, <1>5, <1>6 DEF Rooted

LEMMA RemovedRooted ==
  ASSUME NEW recs, NEW n, NEW t, NEW vs, NEW z, Rooted(recs, z),
         ~RemoveRefused(recs, n, t, vs, z, FALSE)
  PROVE  Rooted(Removed(recs, n, t, vs), z)
<1>1. /\ t # "SOA"
      /\ t = "NS" /\ n = z => Matching(recs, z, "NS", Values \ vs) # {}
  BY DEF RemoveRefused
<1>2. Removed(recs, n, t, vs) = {r \in recs : ~(r.name = n /\ r.type = t /\ r.value \in vs)}
  BY DEF Removed, Matching
<1>3. PICK s \in recs : {q \in recs : q.type = "SOA"} = {s} /\ s.name = z
  BY DEF Rooted
<1>4. {q \in Removed(recs, n, t, vs) : q.type = "SOA"} = {s} /\ s \in Removed(recs, n, t, vs)
  BY <1>1, <1>2, <1>3
<1>5. \E q \in Removed(recs, n, t, vs) : q.type = "NS" /\ q.name = z
  <2>1. CASE t = "NS" /\ n = z
    <3>1. PICK q \in Matching(recs, z, "NS", Values \ vs) : TRUE
      BY <1>1, <2>1
    <3>2. q \in recs /\ q.name = z /\ q.type = "NS" /\ q.value \notin vs
      BY <3>1 DEF Matching
    <3> QED BY <1>2, <3>2
  <2>2. CASE ~(t = "NS" /\ n = z)
    BY <1>2, <2>2 DEF Rooted
  <2> QED BY <2>1, <2>2
<1> QED BY <1>3, <1>4, <1>5 DEF Rooted

LEMMA CreatedFacts ==
  ASSUME NEW z \in Zone, NEW today \in Days
  PROVE  Created(z, today) \in ZoneFile /\ Rooted(Created(z, today).recs, z)
<1>1. DefaultMeta \in Metas
  BY RecordAssumption DEF DefaultMeta
<1>2. z \in Owners /\ z \in Values
  BY RecordAssumption
<1> DEFINE rec(t) == [name |-> z, type |-> t, value |-> z, meta |-> DefaultMeta]
<1>3. Created(z, today).recs = {rec("SOA"), rec("NS")}
  BY DEF Created
<1>4. rec("SOA") \in Typed /\ rec("NS") \in Typed
  BY <1>1, <1>2 DEF Typed, Record, Types
<1>5. NextSerial(0, today) \in Nat
  BY RecordAssumption DEF NextSerial
<1>6. Created(z, today) = [serial |-> NextSerial(0, today), recs |-> {rec("SOA"), rec("NS")}]
  BY <1>3 DEF Created
<1>7. Created(z, today) \in ZoneFile
  BY <1>4, <1>5, <1>6 DEF ZoneFile
<1>8. Rooted({rec("SOA"), rec("NS")}, z)
  <2>1. rec("SOA").type = "SOA" /\ rec("SOA").name = z /\ rec("NS").type = "NS" /\ rec("NS").name = z
    OBVIOUS
  <2> HIDE DEF rec
  <2>2. {r \in {rec("SOA"), rec("NS")} : r.type = "SOA"} = {rec("SOA")}
    BY <2>1
  <2> QED BY <2>1, <2>2 DEF Rooted
<1> QED BY <1>3, <1>7, <1>8

\* What a command is about to write.
Writable(new, touched) ==
  /\ touched \in SUBSET local
  /\ \A z \in touched : new[z] \subseteq Typed /\ Rooted(new[z], z)

LEMMA FileTyped ==
  ASSUME FileInv, NEW z \in local
  PROVE  /\ z \in Zone /\ file[z] \in ZoneFile /\ file[z].recs \subseteq Typed
         /\ Rooted(file[z].recs, z)
BY DEF FileInv, FilesTyped, FilesRooted, Places, ZoneFile

LEMMA RecordWrites ==
  ASSUME FileInv, RecordCommand
  PROVE  \E c, new, touched : Begin(c, new, touched) /\ Writable(new, touched)
<1>1. PICK z \in Zone : \E r \in Extra[z] : RecordAdd(z, r) \/ RecordRemove(z, r)
  BY DEF RecordCommand
<1>2. PICK r \in Extra[z] : RecordAdd(z, r) \/ RecordRemove(z, r)
  BY <1>1
<1>3. z \in local
  BY <1>2 DEF RecordAdd, RecordRemove
<1>4. /\ file[z].recs \subseteq Typed /\ Rooted(file[z].recs, z) /\ r \in Typed
  BY <1>3, FileTyped, RecordAssumption, ZoneAssumption DEF Typed
<1>5. CASE RecordAdd(z, r)
  <2> DEFINE new == [y \in Zone |-> Added(file[z].recs, r)]
             touched == IF r \in file[z].recs THEN {} ELSE {z}
  <2>1. Begin(<<>>, new, touched)
    BY <1>5 DEF RecordAdd
  <2>2. Rooted(Added(file[z].recs, r), z) /\ Added(file[z].recs, r) \subseteq Typed
    BY <1>4, <1>5, AddedRooted DEF RecordAdd, Added
  <2>3. Writable(new, touched)
    BY <1>3, <2>2 DEF Writable
  <2> HIDE DEF new, touched
  <2> QED BY <2>1, <2>3
<1>6. CASE RecordRemove(z, r)
  <2>1. PICK vs \in {{r.value}, Values} :
          /\ ~RemoveRefused(file[z].recs, r.name, r.type, vs, z, FALSE)
          /\ Begin(<<>>, [y \in Zone |-> Removed(file[z].recs, r.name, r.type, vs)], {z})
    BY <1>6 DEF RecordRemove
  <2> DEFINE new == [y \in Zone |-> Removed(file[z].recs, r.name, r.type, vs)]
  <2>2. /\ Rooted(Removed(file[z].recs, r.name, r.type, vs), z)
        /\ Removed(file[z].recs, r.name, r.type, vs) \subseteq Typed
    BY <1>4, <2>1, RemovedRooted DEF Removed
  <2>3. Writable(new, {z})
    BY <1>1, <1>3, <2>2 DEF Writable
  <2>4. Begin(<<>>, new, {z})
    BY <2>1
  <2> HIDE DEF new
  <2> QED BY <2>3, <2>4
<1> QED BY <1>2, <1>5, <1>6

LEMMA DroppedFacts ==
  ASSUME NEW h, NEW z
  PROVE  Dropped(h, z) \subseteq file[z].recs /\ \A r \in Dropped(h, z) : r.type \in {"A", "PTR"}
BY DEF Dropped

LEMMA AddedAllFacts ==
  ASSUME NEW recs, NEW z, Rooted(recs, z), recs \subseteq Typed, NEW new \in SUBSET Typed,
         \A r \in new : r.type \in {"A", "PTR"}
  PROVE  Rooted(AddedAll(recs, new), z) /\ AddedAll(recs, new) \subseteq Typed
<1> DEFINE gone == {s \in recs : \E r \in new : SameData(r, s)}
<1>1. AddedAll(recs, new) = (recs \ gone) \cup new
  BY DEF AddedAll
<1>2. \A r \in gone : r.type \notin {"SOA", "NS"}
  BY DEF SameData
<1>3. \A r \in new : r.type \notin {"SOA", "NS"}
  OBVIOUS
<1>4. (recs \ gone) \cup new \subseteq Typed
  OBVIOUS
<1> HIDE DEF gone
<1>5. Rooted((recs \ gone) \cup new, z)
  BY <1>2, <1>3, RootStays
<1> QED BY <1>1, <1>4, <1>5

LEMMA ARecordTyped ==
  ASSUME NEW h \in Hosts, NEW a \in Addrs, NEW m \in Metas
  PROVE  /\ ARecord(h, a, m) \in Typed /\ ARecord(h, a, m).type = "A"
         /\ PTRRecord(a, h, m) \in Typed /\ PTRRecord(a, h, m).type = "PTR"
BY RecordAssumption DEF ARecord, PTRRecord, Typed, Record, Types

LEMMA HostAddWrites ==
  ASSUME FileInv, NEW h \in Hosts, NEW as \in SUBSET Addrs, NEW m \in Metas, HostAdd(h, as, m)
  PROVE  \E c, new, touched : Begin(c, new, touched) /\ Writable(new, touched)
<1> DEFINE new == NewOf(h, as, m)
           mems == [z \in Zone |-> IF z \in local THEN AddedAll(file[z].recs, new[z]) ELSE {}]
           touched == {z \in local : new[z] # {}}
<1>1. ASSUME NEW z \in local
      PROVE  new[z] \subseteq Typed /\ \A r \in new[z] : r.type \in {"A", "PTR"}
  <2>1. z \in Zone
    BY FileTyped
  <2>2. CASE z = ZoneOf[h]
    <3>1. new[z] = {ARecord(h, a, m) : a \in as}
      BY <2>1, <2>2 DEF NewOf
    <3>2. \A a \in as : ARecord(h, a, m) \in Typed /\ ARecord(h, a, m).type = "A"
      BY ARecordTyped
    <3> HIDE DEF new
    <3> QED BY <3>1, <3>2
  <2>3. CASE z # ZoneOf[h]
    <3>1. new[z] = {PTRRecord(a, h, m) : a \in {b \in as : z \in Best(b)}}
      BY <2>1, <2>3 DEF NewOf
    <3>2. \A a \in as : PTRRecord(a, h, m) \in Typed /\ PTRRecord(a, h, m).type = "PTR"
      BY ARecordTyped
    <3> HIDE DEF new
    <3> QED BY <3>1, <3>2
  <2> QED BY <2>2, <2>3
<1>2. Begin(<<"add", h, as, m>>, mems, touched)
  BY DEF HostAdd
<1>3. ASSUME NEW z \in touched PROVE mems[z] \subseteq Typed /\ Rooted(mems[z], z)
  <2>1. z \in local /\ z \in Zone /\ mems[z] = AddedAll(file[z].recs, new[z])
    BY FileTyped
  <2>2. new[z] \in SUBSET Typed /\ \A r \in new[z] : r.type \in {"A", "PTR"}
    BY <1>1, <2>1
  <2> HIDE DEF new, mems
  <2> QED BY <2>1, <2>2, FileTyped, AddedAllFacts
<1>4. touched \in SUBSET local
  OBVIOUS
<1> HIDE DEF mems, touched
<1> QED BY <1>2, <1>3, <1>4 DEF Writable

LEMMA HostRemoveWrites ==
  ASSUME FileInv, NEW h \in Hosts, HostRemove(h)
  PROVE  \E c, new, touched : Begin(c, new, touched) /\ Writable(new, touched)
<1> DEFINE mems == [z \in Zone |-> IF z \in local THEN file[z].recs \ Dropped(h, z) ELSE {}]
           touched == {z \in local : Dropped(h, z) # {}}
<1>1. Begin(<<"remove", h>>, mems, touched)
  BY DEF HostRemove
<1>2. ASSUME NEW z \in touched PROVE mems[z] \subseteq Typed /\ Rooted(mems[z], z)
  <2>1. z \in local /\ z \in Zone /\ mems[z] = file[z].recs \ Dropped(h, z)
    BY FileTyped
  <2>2. Rooted((file[z].recs \ Dropped(h, z)) \cup {}, z)
    BY <2>1, FileTyped, DroppedFacts, RootStays
  <2>3. mems[z] = (file[z].recs \ Dropped(h, z)) \cup {}
    BY <2>1
  <2>4. file[z].recs \subseteq Typed
    BY <2>1, FileTyped
  <2> HIDE DEF mems
  <2> QED BY <2>2, <2>3, <2>4
<1>3. touched \in SUBSET local
  OBVIOUS
<1> HIDE DEF mems, touched
<1> QED BY <1>1, <1>2, <1>3 DEF Writable

LEMMA HostRenameWrites ==
  ASSUME FileInv, NEW h \in Hosts, NEW g \in Hosts, HostRename(h, g)
  PROVE  \E c, new, touched : Begin(c, new, touched) /\ Writable(new, touched)
<1> DEFINE new == Moved(h, g)
           mems == [z \in Zone |->
                      IF z \in local THEN AddedAll(file[z].recs \ Dropped(h, z), new[z]) ELSE {}]
           touched == {z \in local : Dropped(h, z) \cup new[z] # {}}
<1>1. \A r \in AddressesOf(h) : r.value \in Addrs /\ r.meta \in Metas
  <2>1. ZoneOf[h] \in local
    BY DEF HostRename, RenameAccepted
  <2> QED BY <2>1, FileTyped DEF AddressesOf, Typed, Record
<1>2. ASSUME NEW z \in local
      PROVE  new[z] \subseteq Typed /\ \A r \in new[z] : r.type \in {"A", "PTR"}
  <2>1. z \in Zone
    BY FileTyped
  <2>2. CASE z = ZoneOf[h]
    <3>1. new[z] = {ARecord(g, r.value, r.meta) : r \in AddressesOf(h)}
      BY <2>1, <2>2 DEF Moved
    <3> QED BY <1>1, <3>1, ARecordTyped
  <2>3. CASE z # ZoneOf[h]
    <3>1. new[z] = {PTRRecord(r.value, g, r.meta) : r \in {s \in AddressesOf(h) : z \in Best(s.value)}}
      BY <2>1, <2>3 DEF Moved
    <3> QED BY <1>1, <3>1, ARecordTyped
  <2> QED BY <2>2, <2>3
<1>3. Begin(<<"rename", h, g>>, mems, touched)
  BY DEF HostRename
<1>4. ASSUME NEW z \in touched PROVE mems[z] \subseteq Typed /\ Rooted(mems[z], z)
  <2>1. z \in local /\ z \in Zone /\ mems[z] = AddedAll(file[z].recs \ Dropped(h, z), new[z])
    BY FileTyped
  <2>2. Rooted((file[z].recs \ Dropped(h, z)) \cup {}, z)
    BY <2>1, FileTyped, DroppedFacts, RootStays
  <2> DEFINE rest == file[z].recs \ Dropped(h, z)
  <2>3. rest = (file[z].recs \ Dropped(h, z)) \cup {} /\ rest \subseteq Typed
    BY <2>1, FileTyped
  <2>4. new[z] \in SUBSET Typed /\ \A r \in new[z] : r.type \in {"A", "PTR"}
    BY <1>2, <2>1
  <2>5. mems[z] = AddedAll(rest, new[z])
    BY <2>1
  <2>6. Rooted(rest, z)
    BY <2>2, <2>3
  <2> HIDE DEF new, mems, rest
  <2> QED BY <2>3, <2>4, <2>5, <2>6, AddedAllFacts
<1>5. touched \in SUBSET local
  OBVIOUS
<1> HIDE DEF mems, touched
<1> QED BY <1>3, <1>4, <1>5 DEF Writable

\* Every command begins with zones that it can write.
LEMMA CommandWrites ==
  ASSUME FileInv, RecordCommand \/ HostCommand
  PROVE  \E c, new, touched : Begin(c, new, touched) /\ Writable(new, touched)
<1>1. CASE RecordCommand
  BY <1>1, RecordWrites
<1>2. ASSUME NEW h \in Hosts, NEW as \in (SUBSET Addrs) \ {{}}, NEW m \in Metas, HostAdd(h, as, m)
      PROVE  \E c, new, touched : Begin(c, new, touched) /\ Writable(new, touched)
  BY <1>2, HostAddWrites
<1>3. ASSUME NEW h \in Hosts, HostRemove(h)
      PROVE  \E c, new, touched : Begin(c, new, touched) /\ Writable(new, touched)
  BY <1>3, HostRemoveWrites
<1>4. ASSUME NEW h \in Hosts, NEW g \in Hosts, HostRename(h, g)
      PROVE  \E c, new, touched : Begin(c, new, touched) /\ Writable(new, touched)
  BY <1>4, HostRenameWrites
<1> QED BY <1>1, <1>2, <1>3, <1>4 DEF HostCommand

LEMMA AbsentTyped == Absent \in ZoneFile
<1>1. {} \in SUBSET Typed /\ 0 \in Nat
  OBVIOUS
<1> QED BY <1>1 DEF Absent, ZoneFile

\* FileInv is inductive: what every step does to the files.
LEMMA FilesInitially == Init => FileInv
<1> SUFFICES ASSUME Init PROVE FileInv
  OBVIOUS
<1>1. clock \in Days /\ local = FirstZones /\ FirstZones \subseteq Zone
  BY ZoneAssumption DEF Init
<1>2. ASSUME NEW z \in Zone
      PROVE  file[z] \in ZoneFile /\ (z \in local => Rooted(file[z].recs, z))
  <2> DEFINE c == Created(z, clock)
  <2>1. c \in ZoneFile /\ Rooted(c.recs, z)
    BY <1>1, CreatedFacts
  <2>2. CASE z \in FirstZones
    <3>1. file[z] = [c EXCEPT !.recs = @ \cup FirstRecs[z]]
      BY <2>2 DEF Init
    <3> HIDE DEF c
    <3>2. file[z] = [serial |-> c.serial, recs |-> c.recs \cup FirstRecs[z]]
      BY <2>1, <3>1 DEF ZoneFile
    <3>3. FirstRecs[z] \subseteq Typed /\ \A r \in FirstRecs[z] : r.type # "SOA"
      BY RecordAssumption DEF Typed
    <3>4. Rooted(c.recs \cup FirstRecs[z], z)
      BY <2>1, <3>3 DEF Rooted
    <3> QED BY <2>1, <3>2, <3>3, <3>4 DEF ZoneFile
  <2>3. CASE z \notin FirstZones
    <3>1. file[z] = Absent
      BY <2>3 DEF Init
    <3> QED BY <1>1, <2>3, <3>1, AbsentTyped
  <2> QED BY <2>2, <2>3
<1>3. FilesTyped
  BY <1>1, <1>2, AbsentTyped DEF FilesTyped, Init
<1>4. FilesRooted
  BY <1>1, <1>2 DEF FilesRooted, Init
<1>5. Places
  BY <1>1 DEF Places, Init
<1> QED BY <1>3, <1>4, <1>5, Initially DEF FileInv

LEMMA BeginFiles ==
  ASSUME FileInv, NEW c, NEW new, NEW touched, Begin(c, new, touched), Writable(new, touched)
  PROVE  FilesTyped' /\ FilesRooted' /\ Places'
<1>1. /\ UNCHANGED <<local, file, prev, served, clock>> /\ before' = file /\ todo' = touched
      /\ done' = {} /\ pc' = IF touched = {} THEN "idle" ELSE "save"
      /\ report' \in {"ok", "none"}
  BY DEF Begin
<1>2. mem' = [z \in Zone |-> IF z \in touched THEN new[z] ELSE {}]
  BY DEF Begin
<1>3. touched \subseteq local /\ local \subseteq Zone
  BY DEF Writable, FileInv, Places
<1>4. \A z \in Zone : mem'[z] \subseteq Typed
  BY <1>2 DEF Writable
<1>5. \A z \in touched : Rooted(mem'[z], z)
  BY <1>2, <1>3 DEF Writable
<1>6. FilesTyped'
  BY <1>1, <1>2, <1>4 DEF FileInv, FilesTyped
<1>7. FilesRooted'
  BY <1>1, <1>5 DEF FileInv, FilesRooted
<1>8. Places'
  BY <1>1, <1>3 DEF FileInv, Places
<1> QED BY <1>6, <1>7, <1>8

LEMMA ZoneAddFiles ==
  ASSUME FileInv, NEW z \in Zone, ZoneAdd(z)
  PROVE  FilesTyped' /\ FilesRooted' /\ Places'
<1>1. /\ Created(z, clock) \in ZoneFile /\ Rooted(Created(z, clock).recs, z)
  BY CreatedFacts DEF FileInv, FilesTyped
<1>2. /\ file' = [file EXCEPT ![z] = Created(z, clock)]
      /\ served' \in {served, [served EXCEPT ![z] = file'[z]]}
      /\ local' = local \cup {z} /\ pc = "idle" /\ report' = "none"
      /\ UNCHANGED <<prev, clock, pc, mem, todo, done, before>>
  BY DEF ZoneAdd, command
<1>3. file'[z] = Created(z, clock) /\ \A y \in Zone \ {z} : file'[y] = file[y]
  BY <1>2 DEF FileInv, IInv, Fcns
<1>4. \A y \in Zone : file'[y] \in ZoneFile /\ served'[y] \in ZoneFile
  BY <1>1, <1>2, <1>3 DEF FileInv, FilesTyped
<1>5. served' = [y \in Zone |-> served'[y]]
  BY <1>2 DEF FileInv, FilesTyped
<1>6. FilesTyped'
  BY <1>2, <1>4, <1>5 DEF FileInv, FilesTyped
<1>7. FilesRooted'
  BY <1>1, <1>2, <1>3 DEF FileInv, FilesRooted, Places
<1>8. Places'
  BY <1>2 DEF FileInv, Places
<1> QED BY <1>6, <1>7, <1>8

LEMMA SaveFiles ==
  ASSUME FileInv, NEW z \in Zone, Save(z)
  PROVE  FilesTyped' /\ FilesRooted' /\ Places'
<1>1. /\ prev' = [prev EXCEPT ![z] = file[z]]
      /\ file' = [file EXCEPT ![z] =
                    [serial |-> NextSerial(file[z].serial, clock), recs |-> mem[z]]]
      /\ pc = "save" /\ pc' = "activate" /\ z \in todo
      /\ UNCHANGED <<local, served, clock, mem, todo, done, before, report>>
  BY DEF Save, First, history
<1>2. file[z].serial \in Nat /\ file[z] \in ZoneFile /\ mem[z] \subseteq Typed /\ Days \subseteq Nat /\ clock \in Days
  BY RecordAssumption DEF FileInv, FilesTyped, ZoneFile
<1>3. NextSerial(file[z].serial, clock) \in Nat
  BY <1>2, RecordAssumption DEF NextSerial
<1>4. [serial |-> NextSerial(file[z].serial, clock), recs |-> mem[z]] \in ZoneFile
  BY <1>2, <1>3 DEF ZoneFile
<1>5. \A y \in Zone : file'[y] \in ZoneFile /\ prev'[y] \in ZoneFile
  BY <1>1, <1>2, <1>4 DEF FileInv, FilesTyped, IInv, Fcns
<1>6. FilesTyped'
  BY <1>1, <1>5 DEF FileInv, FilesTyped
<1>7. \A y \in local : Rooted(file'[y].recs, y)
  BY <1>1 DEF FileInv, FilesRooted, IInv, Fcns, Places
<1>8. FilesRooted'
  BY <1>1, <1>7 DEF FileInv, FilesRooted
<1>9. Places'
  BY <1>1 DEF FileInv, Places
<1> QED BY <1>6, <1>8, <1>9

LEMMA SaveFailsFiles ==
  ASSUME FileInv, NEW z \in Zone, SaveFails(z)
  PROVE  FilesTyped' /\ FilesRooted' /\ Places'
<1>1. /\ prev' \in {prev, [prev EXCEPT ![z] = file[z]]}
      /\ pc = "save" /\ pc' = "takeBack"
      /\ UNCHANGED <<local, file, served, clock, mem, todo, done, before, report>>
  BY DEF SaveFails, First, history
<1>2. \A y \in Zone : prev'[y] \in ZoneFile
  BY <1>1 DEF FileInv, FilesTyped, IInv, Fcns
<1>3. FilesTyped'
  BY <1>1, <1>2 DEF FileInv, FilesTyped
<1>4. FilesRooted' /\ Places'
  BY <1>1 DEF FileInv, FilesRooted, Places
<1> QED BY <1>3, <1>4

LEMMA CommitFiles ==
  ASSUME FileInv, NEW z \in Zone, First(z, todo), Commit(z), pc # "idle",
         UNCHANGED <<local, file, prev, served, clock, mem, before>>
  PROVE  FilesTyped' /\ FilesRooted' /\ Places'
<1>1. /\ done' = done \cup {z} /\ todo' = todo \ {z} /\ z \in todo
      /\ pc' = IF todo' # {} THEN "save" ELSE "idle"
      /\ report' \in {report, "ok"}
  BY DEF Commit, First
<1>2. FilesTyped'
  BY DEF FileInv, FilesTyped
<1>3. FilesRooted'
  BY <1>1 DEF FileInv, FilesRooted
<1>4. Places'
  BY <1>1 DEF FileInv, Places
<1> QED BY <1>2, <1>3, <1>4

LEMMA ReloadFiles ==
  ASSUME FileInv, NEW z \in Zone, Reload(z) \/ VerifyFails(z)
  PROVE  FilesTyped' /\ FilesRooted' /\ Places'
<1>1. /\ served' \in {served, [served EXCEPT ![z] = file[z]]}
      /\ pc # "idle" /\ pc' \in {"verify", "undo"} /\ z \in todo
      /\ UNCHANGED <<local, file, prev, clock, mem, todo, done, before, report>>
  BY DEF Reload, VerifyFails, First, disk, history
<1>2. \A y \in Zone : served'[y] \in ZoneFile
  BY <1>1 DEF FileInv, FilesTyped
<1>3. served' = [y \in Zone |-> served'[y]]
  BY <1>1 DEF FileInv, FilesTyped
<1>4. FilesTyped'
  BY <1>1, <1>2, <1>3 DEF FileInv, FilesTyped
<1>5. FilesRooted' /\ Places'
  BY <1>1 DEF FileInv, FilesRooted, Places
<1> QED BY <1>4, <1>5

\* What is put back is the file as the command found it, root and all.
LEMMA UndoFiles ==
  ASSUME FileInv, NEW z \in Zone, Undo(z) \/ TakeBack(z)
  PROVE  FilesTyped' /\ FilesRooted' /\ Places'
<1>1. /\ file' = [file EXCEPT ![z] = prev[z]]
      /\ prev' = [prev EXCEPT ![z] = Absent]
      /\ served' \in {served, [served EXCEPT ![z] = file'[z]]}
      /\ pc # "idle" /\ pc' = "takeBack" /\ done' \subseteq done
      /\ UNCHANGED <<local, clock, mem, todo, before, report>>
  BY DEF Undo, TakeBack, UndoZone, RolledBack, history
<1>2. Saved(z)
  BY DEF Undo, TakeBack, Saved, First
<1>3. prev[z] = before[z] /\ z \in local
  BY <1>1, <1>2 DEF FileInv, IInv, CanUndo, Saved, Places, First
<1>4. file'[z] = before[z] /\ \A y \in Zone \ {z} : file'[y] = file[y]
  BY <1>1, <1>3 DEF FileInv, IInv, Fcns
<1>5. \A y \in Zone : file'[y] \in ZoneFile /\ prev'[y] \in ZoneFile /\ served'[y] \in ZoneFile
  BY <1>1, <1>4, AbsentTyped DEF FileInv, FilesTyped, IInv, Fcns
<1>6. served' = [y \in Zone |-> served'[y]]
  BY <1>1 DEF FileInv, FilesTyped
<1>7. FilesTyped'
  BY <1>1, <1>5, <1>6 DEF FileInv, FilesTyped
<1>8. \A y \in local : Rooted(file'[y].recs, y)
  BY <1>1, <1>4 DEF FileInv, FilesRooted, Places
<1>9. FilesRooted' /\ Places'
  BY <1>1, <1>8 DEF FileInv, FilesRooted, Places
<1> QED BY <1>7, <1>9

LEMMA FailFiles ==
  ASSUME FileInv, Fail
  PROVE  FilesTyped' /\ FilesRooted' /\ Places'
<1>1. /\ pc' = "idle" /\ todo' = {} /\ report' = "failed"
      /\ UNCHANGED <<local, file, prev, served, clock, mem, done, before>>
  BY DEF Fail, disk
<1> QED BY <1>1 DEF FileInv, FilesTyped, FilesRooted, Places

LEMMA WorldFiles ==
  ASSUME FileInv, World
  PROVE  FilesTyped' /\ FilesRooted' /\ Places'
<1>1. CASE Kill
  <2>1. /\ pc' = "idle" /\ todo' = {} /\ done' = {}
        /\ UNCHANGED <<local, file, prev, served, clock, mem, before, report>>
    BY <1>1 DEF Kill, disk
  <2> QED BY <2>1 DEF FileInv, FilesTyped, FilesRooted, Places
<1>2. CASE DaemonStops \/ DaemonStarts \/ ClockSet
  <2>1. /\ UNCHANGED <<local, file, prev, pc, mem, todo, done, before, report>>
        /\ clock' \in Days
        /\ served' \in {served, [z \in Zone |-> Absent],
                        [z \in Zone |-> IF z \in local THEN file[z] ELSE Absent]}
    BY <1>2 DEF DaemonStops, DaemonStarts, ClockSet, disk, command, history, FileInv, FilesTyped
  <2>2. \A z \in Zone : served'[z] \in ZoneFile
    BY <2>1, AbsentTyped DEF FileInv, FilesTyped
  <2>3. served' = [z \in Zone |-> served'[z]]
    BY <2>1 DEF FileInv, FilesTyped
  <2>4. FilesTyped'
    BY <2>1, <2>2, <2>3 DEF FileInv, FilesTyped
  <2>5. FilesRooted' /\ Places'
    BY <2>1 DEF FileInv, FilesRooted, Places
  <2> QED BY <2>4, <2>5
<1> QED BY <1>1, <1>2 DEF World

LEMMA FilesKept == FileInv /\ [Next]_vars => FileInv'
<1> SUFFICES ASSUME FileInv, [Next]_vars PROVE FileInv'
  OBVIOUS
<1>1. IInv'
  BY NextKeeps DEF FileInv
<1>2. CASE RecordCommand \/ HostCommand
  <2>1. PICK c, new, touched : Begin(c, new, touched) /\ Writable(new, touched)
    BY <1>2, CommandWrites
  <2> QED BY <1>1, <2>1, BeginFiles DEF FileInv
<1>3. ASSUME NEW z \in Zone, ZoneAdd(z) PROVE FileInv'
  BY <1>1, <1>3, ZoneAddFiles DEF FileInv
<1>4. ASSUME NEW z \in Zone, Save(z) PROVE FileInv'
  BY <1>1, <1>4, SaveFiles DEF FileInv
<1>5. ASSUME NEW z \in Zone, SaveFails(z) PROVE FileInv'
  BY <1>1, <1>5, SaveFailsFiles DEF FileInv
<1>6. ASSUME NEW z \in Zone, ActivateStopped(z) \/ Verify(z) PROVE FileInv'
  <2>1. /\ First(z, todo) /\ Commit(z) /\ pc # "idle"
        /\ UNCHANGED <<local, file, prev, served, clock, mem, before>>
    BY <1>6 DEF ActivateStopped, Verify, disk
  <2> QED BY <1>1, <2>1, CommitFiles DEF FileInv
<1>7. ASSUME NEW z \in Zone, Reload(z) \/ VerifyFails(z) PROVE FileInv'
  BY <1>1, <1>7, ReloadFiles DEF FileInv
<1>8. ASSUME NEW z \in Zone, Undo(z) \/ TakeBack(z) PROVE FileInv'
  BY <1>1, <1>8, UndoFiles DEF FileInv
<1>9. CASE Fail
  BY <1>1, <1>9, FailFiles DEF FileInv
<1>10. CASE World
  BY <1>1, <1>10, WorldFiles DEF FileInv
<1>11. CASE UNCHANGED vars
  BY <1>1, <1>11 DEF vars, FileInv, FilesTyped, FilesRooted, Places
<1>12. CASE Step
  BY <1>4, <1>5, <1>6, <1>7, <1>8, <1>9, <1>12 DEF Step
<1> QED BY <1>2, <1>3, <1>10, <1>11, <1>12 DEF Next

LEMMA FileInvAlways == Spec => []FileInv
BY FilesInitially, FilesKept, PTL DEF Spec

(***************************************************************************)
(* Types, and what they carry: a zone file that config.yaml names exists, and *)
(* commit takes only zones of the command.  It rests on every local zone   *)
(* keeping its SOA and a name server (Remove in zones.go refuses the last). *)
(***************************************************************************)
THEOREM ZoneTypes == Spec => []TypeOK
<1>1. FileInv => TypeOK
  <2> SUFFICES ASSUME FileInv PROVE TypeOK
    OBVIOUS
  <2>1. ASSUME NEW z \in Zone
        PROVE  {file[z], prev[z], served[z]} \subseteq [serial: Nat, recs: SUBSET Record]
    <3>1. ZoneFile \subseteq [serial: Nat, recs: SUBSET Record]
      BY DEF ZoneFile, Typed
    <3>2. file[z] \in ZoneFile /\ prev[z] \in ZoneFile /\ served[z] \in ZoneFile
      BY DEF FileInv, FilesTyped
    <3> QED BY <3>1, <3>2
  <2>2. ASSUME NEW z \in local PROVE file[z] # Absent
    BY RootedRecs DEF FileInv, FilesRooted, Absent
  <2>3. /\ local \in SUBSET Zone /\ clock \in Days
        /\ pc \in {"idle", "save", "activate", "verify", "undo", "takeBack"}
        /\ todo \in SUBSET local /\ done \in SUBSET local /\ todo \cap done = {}
        /\ pc \in {"save", "activate", "verify", "undo"} => todo # {}
        /\ report \in {"none", "ok", "failed"}
    BY DEF FileInv, FilesTyped, Places, IInv, Sets
  <2> QED BY <2>1, <2>2, <2>3 DEF TypeOK
<1> QED BY <1>1, FileInvAlways, PTL

-----------------------------------------------------------------------------
(* Serials.  As long as the counter has room for a run's commands after the *)
(* last of its days, a zone's serial only grows: a command adds at most one *)
(* to what it found, and what it puts back is what it found.                *)

Room == \E top \in Nat : (\A d \in Days : d < top) /\ top + MaxCommands < SerialSpace
Top == CHOOSE top \in Nat : (\A d \in Days : d < top) /\ top + MaxCommands < SerialSpace

\* File f is g or a later one.
Fresh(f, g) == f.serial >= g.serial /\ (f.serial = g.serial => f = g)

SerialsBounded ==
  /\ commands \in 0..MaxCommands
  /\ \A z \in Zone : file[z].serial <= Top + commands
  /\ pc # "idle" => /\ commands >= 1
                    /\ \A z \in Zone : before[z].serial < Top + commands

SerialsGrow ==
  pc # "idle" => \A z \in Zone : Saved(z) => before[z].serial < file[z].serial

AckedFresh ==
  /\ acked \subseteq local \X ZoneFile
  /\ \A a \in acked : /\ Fresh(file[a[1]], a[2])
                      /\ pc # "idle" => Fresh(before[a[1]], a[2])

SerialInv == FileInv /\ SerialsBounded /\ SerialsGrow /\ AckedFresh

LEMMA TopFacts ==
  ASSUME Room
  PROVE  /\ Top \in Nat /\ Top + MaxCommands < SerialSpace /\ \A d \in Days : d < Top
         /\ MaxCommands \in Nat /\ SerialSpace \in Nat /\ Days \subseteq Nat
BY RecordAssumption DEF Room, Top

LEMMA NextBounded ==
  ASSUME Room, NEW old \in Nat, NEW today \in Days, NEW n \in Nat, n <= MaxCommands,
         old < Top + n
  PROVE  /\ NextSerial(old, today) \in Nat
         /\ old < NextSerial(old, today) /\ NextSerial(old, today) <= Top + n
<1>1. today \in Nat /\ today < Top /\ Top \in Nat /\ old + 1 < SerialSpace /\ SerialSpace \in Nat
  BY TopFacts
<1>2. NextSerial(old, today) = IF today > old THEN today ELSE old + 1
  <2>1. (old + 1) % SerialSpace = old + 1
    BY <1>1
  <2> QED BY <2>1 DEF NextSerial
<1> QED BY <1>1, <1>2

LEMMA CreatedBounded ==
  ASSUME Room, NEW z, NEW today \in Days
  PROVE  Created(z, today).serial \in Nat /\ Created(z, today).serial <= Top
<1>1. today \in Nat /\ today < Top /\ Top \in Nat /\ Top < SerialSpace /\ SerialSpace \in Nat
  BY TopFacts
<1>2. NextSerial(0, today) \in Nat /\ NextSerial(0, today) <= Top
  <2>1. (0 + 1) % SerialSpace = 1
    BY <1>1
  <2> QED BY <1>1, <2>1 DEF NextSerial
<1> QED BY <1>2 DEF Created

LEMMA SerialsTyped ==
  ASSUME FileInv
  PROVE  \A z \in Zone : file[z].serial \in Nat /\ before[z].serial \in Nat
BY DEF FileInv, FilesTyped, ZoneFile

\* SerialInv is inductive.
LEMMA SerialsInitially == ASSUME Room PROVE Init => SerialInv
<1> SUFFICES ASSUME Init PROVE SerialInv
  OBVIOUS
<1>1. FileInv
  BY FilesInitially
<1>2. clock \in Days /\ commands = 0 /\ pc = "idle" /\ acked = {}
  BY DEF Init
<1>3. ASSUME NEW z \in Zone PROVE file[z].serial <= Top
  <2> DEFINE c == Created(z, clock)
  <2>1. c \in ZoneFile /\ c.serial <= Top
    BY <1>2, CreatedBounded, CreatedFacts
  <2>2. CASE z \in FirstZones
    <3>1. file[z] = [c EXCEPT !.recs = @ \cup FirstRecs[z]]
      BY <2>2 DEF Init
    <3> HIDE DEF c
    <3> QED BY <2>1, <3>1 DEF ZoneFile
  <2>3. CASE z \notin FirstZones
    <3>1. file[z] = Absent
      BY <2>3 DEF Init
    <3> QED BY <3>1, TopFacts DEF Absent
  <2> QED BY <2>2, <2>3
<1>4. SerialsBounded
  BY <1>2, <1>3, TopFacts DEF SerialsBounded
<1> QED BY <1>1, <1>2, <1>4 DEF SerialInv, SerialsGrow, AckedFresh

LEMMA BeginSerials ==
  ASSUME Room, SerialInv, NEW c, NEW new, NEW touched, Begin(c, new, touched)
  PROVE  SerialsBounded' /\ SerialsGrow' /\ AckedFresh'
<1>1. /\ UNCHANGED <<local, file, acked>> /\ before' = file /\ done' = {}
      /\ pc' \in {"idle", "save"} /\ commands < MaxCommands /\ commands' = commands + 1
  BY DEF Begin
<1>2. Top \in Nat /\ MaxCommands \in Nat /\ commands \in Nat
  BY TopFacts DEF SerialInv, SerialsBounded
<1>3. \A z \in Zone : file[z].serial < Top + (commands + 1)
  BY <1>2, SerialsTyped DEF SerialInv, SerialsBounded
<1>4. SerialsBounded'
  BY <1>1, <1>2, <1>3, SerialsTyped DEF SerialInv, SerialsBounded
<1>5. SerialsGrow'
  BY <1>1 DEF SerialsGrow, Saved
<1>6. AckedFresh'
  BY <1>1 DEF SerialInv, AckedFresh
<1> QED BY <1>4, <1>5, <1>6

LEMMA ZoneAddSerials ==
  ASSUME Room, SerialInv, NEW z \in Zone, ZoneAdd(z)
  PROVE  SerialsBounded' /\ SerialsGrow' /\ AckedFresh'
<1>1. /\ file' = [file EXCEPT ![z] = Created(z, clock)]
      /\ z \notin local /\ local' = local \cup {z} /\ pc = "idle"
      /\ UNCHANGED <<pc, commands, acked>>
  BY DEF ZoneAdd, command
<1>2. file'[z] = Created(z, clock) /\ \A y \in Zone \ {z} : file'[y] = file[y]
  BY <1>1 DEF SerialInv, FileInv, IInv, Fcns
<1>3. Created(z, clock).serial \in Nat /\ Created(z, clock).serial <= Top
  BY CreatedBounded DEF SerialInv, FileInv, FilesTyped
<1>4. Created(z, clock).serial <= Top + commands
  BY <1>3, TopFacts DEF SerialInv, SerialsBounded
<1>5. SerialsBounded'
  BY <1>1, <1>2, <1>4 DEF SerialInv, SerialsBounded
<1>6. AckedFresh'
  <2>1. \A a \in acked : a[1] \in local /\ a[1] \in Zone
    BY DEF SerialInv, AckedFresh, FileInv, Places
  <2> QED BY <1>1, <1>2, <2>1 DEF SerialInv, AckedFresh
<1> QED BY <1>1, <1>5, <1>6 DEF SerialsGrow

LEMMA SaveSerials ==
  ASSUME Room, SerialInv, NEW z \in Zone, Save(z)
  PROVE  SerialsBounded' /\ SerialsGrow' /\ AckedFresh'
<1> DEFINE s == NextSerial(file[z].serial, clock)
           f == [serial |-> s, recs |-> mem[z]]
<1>1. /\ file' = [file EXCEPT ![z] = f]
      /\ pc = "save" /\ pc' = "activate" /\ First(z, todo)
      /\ UNCHANGED <<local, todo, done, before, commands, acked>>
  BY DEF Save, history
<1>2. ~Saved(z) /\ file[z] = before[z]
  <2>1. ~Saved(z)
    BY <1>1 DEF Saved, First, SerialInv, FileInv, IInv, Sets
  <2> QED BY <1>1, <2>1 DEF SerialInv, FileInv, IInv, CanUndo
<1>3. /\ file[z].serial \in Nat /\ clock \in Days /\ commands \in Nat /\ commands <= MaxCommands
      /\ file[z].serial < Top + commands
  BY <1>1, <1>2, TopFacts, SerialsTyped DEF SerialInv, SerialsBounded, FileInv, FilesTyped
<1>4. s \in Nat /\ file[z].serial < s /\ s <= Top + commands
  BY <1>3, NextBounded
<1>5. f.serial = s
  OBVIOUS
<1>6. z \in todo /\ \A y \in Zone : First(y, todo) => y = z
  BY <1>1, FirstUnique DEF First, SerialInv, FileInv, IInv, Sets
<1> HIDE DEF s, f
<1>7. file'[z] = f /\ \A y \in Zone \ {z} : file'[y] = file[y]
  BY <1>1 DEF SerialInv, FileInv, IInv, Fcns
<1>8. SerialsBounded'
  BY <1>1, <1>4, <1>5, <1>7 DEF SerialInv, SerialsBounded
<1>9. SerialsGrow'
  <2> SUFFICES ASSUME NEW y \in Zone, Saved(y)' PROVE before'[y].serial < file'[y].serial
    BY DEF SerialsGrow
  <2>1. CASE y = z
    BY <1>1, <1>2, <1>4, <1>5, <1>7, <2>1
  <2>2. CASE y # z
    <3>1. y \in done
      BY <1>1, <1>6, <2>2 DEF Saved, First
    <3> QED BY <1>1, <1>7, <2>2, <3>1 DEF Saved, SerialInv, SerialsGrow
  <2> QED BY <2>1, <2>2
<1>10. AckedFresh'
  <2> SUFFICES ASSUME NEW a \in acked PROVE Fresh(file'[a[1]], a[2])
    BY <1>1 DEF SerialInv, AckedFresh
  <2>1. a[1] \in Zone /\ a[2].serial \in Nat /\ Fresh(file[a[1]], a[2])
    BY DEF SerialInv, AckedFresh, FileInv, Places, ZoneFile
  <2>2. CASE a[1] = z
    <3>1. file[z].serial >= a[2].serial
      BY <2>1, <2>2 DEF Fresh
    <3>2. f.serial > a[2].serial
      BY <1>3, <1>4, <1>5, <2>1, <3>1
    <3> QED BY <1>4, <1>5, <1>7, <2>1, <2>2, <3>2 DEF Fresh
  <2>3. CASE a[1] # z
    BY <1>7, <2>1, <2>3
  <2> QED BY <2>2, <2>3
<1> QED BY <1>8, <1>9, <1>10

LEMMA UndoSerials ==
  ASSUME Room, SerialInv, NEW z \in Zone, Undo(z) \/ TakeBack(z)
  PROVE  SerialsBounded' /\ SerialsGrow' /\ AckedFresh'
<1>1. /\ file' = [file EXCEPT ![z] = prev[z]]
      /\ pc # "idle" /\ pc' = "takeBack" /\ done' \subseteq done /\ z \notin done'
      /\ UNCHANGED <<local, todo, before, commands, acked>>
  BY DEF Undo, TakeBack, UndoZone, RolledBack, history, First, SerialInv, FileInv, IInv, Sets
<1>2. prev[z] = before[z]
  <2>1. Saved(z)
    BY DEF Undo, TakeBack, Saved, First
  <2> QED BY <1>1, <2>1 DEF SerialInv, FileInv, IInv, CanUndo
<1>3. file'[z] = before[z] /\ \A y \in Zone \ {z} : file'[y] = file[y]
  BY <1>1, <1>2 DEF SerialInv, FileInv, IInv, Fcns
<1>4. before[z].serial \in Nat /\ before[z].serial <= Top + commands
  BY <1>1, SerialsTyped, TopFacts DEF SerialInv, SerialsBounded
<1>5. SerialsBounded'
  BY <1>1, <1>3, <1>4 DEF SerialInv, SerialsBounded
<1>6. \A y \in Zone : Saved(y)' => y # z /\ Saved(y)
  BY <1>1 DEF Saved
<1>7. SerialsGrow'
  BY <1>1, <1>3, <1>6 DEF SerialInv, SerialsGrow
<1>8. AckedFresh'
  <2>1. \A a \in acked : a[1] \in Zone
    BY DEF SerialInv, AckedFresh, FileInv, Places
  <2> QED BY <1>1, <1>3, <2>1 DEF SerialInv, AckedFresh
<1> QED BY <1>5, <1>7, <1>8

LEMMA CommitSerials ==
  ASSUME Room, SerialInv, NEW z \in Zone, Commit(z), pc \in {"activate", "verify"}, First(z, todo),
         UNCHANGED <<local, file, before, commands>>
  PROVE  SerialsBounded' /\ SerialsGrow' /\ AckedFresh'
<1>1. /\ done' = done \cup {z} /\ todo' = todo \ {z} /\ z \in todo
      /\ pc' = IF todo' # {} THEN "save" ELSE "idle"
      /\ acked' = IF todo' # {} THEN acked ELSE acked \cup {<<y, file[y]>> : y \in done'}
  BY DEF Commit, First
<1>2. SerialsBounded'
  BY <1>1 DEF SerialInv, SerialsBounded
<1>3. \A y \in Zone : Saved(y)' => Saved(y)
  BY <1>1 DEF Saved
<1>4. SerialsGrow'
  BY <1>1, <1>3 DEF SerialInv, SerialsGrow
<1>5. CASE todo' # {}
  BY <1>1, <1>2, <1>4, <1>5 DEF SerialInv, AckedFresh
<1>6. CASE todo' = {}
  <2>1. pc' = "idle" /\ acked' = acked \cup {<<y, file[y]>> : y \in done'}
    BY <1>1, <1>6
  <2>2. ASSUME NEW y \in done'
        PROVE  <<y, file[y]>> \in local \X ZoneFile /\ Fresh(file[y], file[y])
    <3>1. y \in local /\ y \in Zone /\ file[y] \in ZoneFile /\ file[y].serial \in Nat
      BY <1>1, SerialsTyped DEF SerialInv, FileInv, FilesTyped, Places
    <3> QED BY <3>1 DEF Fresh
  <2>3. \A a \in acked' : /\ a \in local \X ZoneFile
                          /\ Fresh(file[a[1]], a[2])
    BY <2>1, <2>2 DEF SerialInv, AckedFresh
  <2>4. AckedFresh'
    BY <2>1, <2>3 DEF AckedFresh
  <2> QED BY <1>2, <1>4, <2>4
<1> QED BY <1>5, <1>6

\* The other steps write no zone file.
LEMMA RestSerials ==
  ASSUME SerialInv, UNCHANGED <<local, file, before, commands, acked>>,
         pc' # "idle" => pc # "idle" /\ \A y \in Zone : Saved(y)' => Saved(y)
  PROVE  SerialsBounded' /\ SerialsGrow' /\ AckedFresh'
BY DEF SerialInv, SerialsBounded, SerialsGrow, AckedFresh

LEMMA SerialsKept == ASSUME Room PROVE SerialInv /\ [Next]_vars => SerialInv'
<1> SUFFICES ASSUME SerialInv, [Next]_vars PROVE SerialInv'
  OBVIOUS
<1>1. FileInv'
  BY FilesKept DEF SerialInv
<1>2. CASE RecordCommand \/ HostCommand
  <2>1. PICK c, new, touched : Begin(c, new, touched) /\ Writable(new, touched)
    BY <1>2, CommandWrites DEF SerialInv
  <2> QED BY <1>1, <2>1, BeginSerials DEF SerialInv
<1>3. ASSUME NEW z \in Zone, ZoneAdd(z) PROVE SerialInv'
  BY <1>1, <1>3, ZoneAddSerials DEF SerialInv
<1>4. ASSUME NEW z \in Zone, Save(z) PROVE SerialInv'
  BY <1>1, <1>4, SaveSerials DEF SerialInv
<1>5. ASSUME NEW z \in Zone, SaveFails(z) \/ Reload(z) \/ VerifyFails(z) PROVE SerialInv'
  <2>1. /\ UNCHANGED <<local, file, before, commands, acked, todo, done>> /\ pc # "idle"
    BY <1>5 DEF SaveFails, Reload, VerifyFails, disk, history
  <2>2. pc' = "takeBack" \/ (pc \in {"activate", "verify"} /\ pc' \in {"verify", "undo"})
    BY <1>5 DEF SaveFails, Reload, VerifyFails
  <2>3. \A y \in Zone : Saved(y)' => Saved(y)
    BY <2>1, <2>2 DEF Saved, First
  <2> QED BY <1>1, <2>1, <2>3, RestSerials DEF SerialInv
<1>6. ASSUME NEW z \in Zone, ActivateStopped(z) \/ Verify(z) PROVE SerialInv'
  <2>1. /\ First(z, todo) /\ Commit(z) /\ pc \in {"activate", "verify"}
        /\ UNCHANGED <<local, file, before, commands>>
    BY <1>6 DEF ActivateStopped, Verify, disk
  <2> QED BY <1>1, <2>1, CommitSerials DEF SerialInv
<1>7. ASSUME NEW z \in Zone, Undo(z) \/ TakeBack(z) PROVE SerialInv'
  BY <1>1, <1>7, UndoSerials DEF SerialInv
<1>8. CASE Fail
  <2>1. UNCHANGED <<local, file, before, commands, acked>> /\ pc' = "idle"
    BY <1>8 DEF Fail, disk
  <2> QED BY <1>1, <2>1, RestSerials DEF SerialInv
<1>9. CASE Kill
  <2>1. UNCHANGED <<local, file, before, commands, acked>> /\ pc' = "idle"
    BY <1>9 DEF Kill, disk
  <2> QED BY <1>1, <2>1, RestSerials DEF SerialInv
<1>10. CASE DaemonStops \/ DaemonStarts \/ ClockSet \/ UNCHANGED vars
  <2>1. UNCHANGED <<local, file, before, commands, acked, pc, todo, done>>
    BY <1>10 DEF DaemonStops, DaemonStarts, ClockSet, disk, history, command, vars
  <2>2. \A y \in Zone : Saved(y)' => Saved(y)
    BY <2>1 DEF Saved, First
  <2> QED BY <1>1, <2>1, <2>2, RestSerials DEF SerialInv
<1>11. CASE Step
  BY <1>4, <1>5, <1>6, <1>7, <1>8, <1>11 DEF Step
<1> QED BY <1>2, <1>3, <1>9, <1>10, <1>11 DEF Next, World

(***************************************************************************)
(* While the counter has room after the last day for a run's commands, a   *)
(* zone's serial never goes back behind what a command has reported and never *)
(* comes again with other records (nextSerial, Save, rollback).            *)
(***************************************************************************)
THEOREM SerialsNeverComeAgain ==
  ASSUME Room PROVE Spec => []SerialsMoveOn
<1>1. Init => SerialInv
  BY SerialsInitially
<1>2. SerialInv /\ [Next]_vars => SerialInv'
  BY SerialsKept
<1>3. SerialInv => SerialsMoveOn
  BY DEF SerialInv, AckedFresh, Fresh, SerialsMoveOn
<1> QED BY <1>1, <1>2, <1>3, PTL DEF Spec

-----------------------------------------------------------------------------
(* What unbound serves.  A zone that is being activated is served as it was *)
(* or as it is, and the serials tell which; every other zone as it is.      *)

Served(z) == served[z] = file[z]

\* Nothing is undone without a fault.
FaultsSeen ==
  /\ faults \in Nat
  /\ faults = 0 => up
  /\ pc \in {"undo", "takeBack"} => faults >= 1
  /\ pc = "verify" /\ faults = 0 => \A z \in todo : First(z, todo) => Served(z)

ServedAsWritten ==
  up /\ synced => \A z \in local :
    /\ pc = "save" \/ (pc = "idle" /\ report = "ok") => Served(z)
    /\ pc \in {"activate", "verify"} =>
         Served(z) \/ (First(z, todo) /\ served[z] = before[z])
    /\ pc = "undo" => Served(z) \/ First(z, todo)
    /\ (pc = "takeBack" \/ (pc = "idle" /\ report = "failed")) /\ faults <= 1 => Served(z)

ServedInv == SerialInv /\ FaultsSeen /\ ServedAsWritten

LEMMA ServedInitially == ASSUME Room PROVE Init => ServedInv
<1> SUFFICES ASSUME Init PROVE ServedInv
  OBVIOUS
<1>1. SerialInv
  BY SerialsInitially
<1>2. FaultsSeen /\ ServedAsWritten
  BY DEF Init, FaultsSeen, ServedAsWritten
<1> QED BY <1>1, <1>2 DEF ServedInv

LEMMA BeginServed ==
  ASSUME ServedInv, NEW c, NEW new, NEW touched, Begin(c, new, touched)
  PROVE  FaultsSeen' /\ ServedAsWritten'
<1>1. /\ UNCHANGED <<local, file, served, up, faults>> /\ synced' = (~up \/ served = file)
      /\ pc' \in {"idle", "save"}
  BY DEF Begin
<1> QED BY <1>1 DEF ServedInv, FaultsSeen, ServedAsWritten, Served

LEMMA ZoneAddServed ==
  ASSUME ServedInv, NEW z \in Zone, ZoneAdd(z)
  PROVE  FaultsSeen' /\ ServedAsWritten'
<1>1. pc = "idle" /\ pc' = "idle" /\ report' = "none" /\ UNCHANGED <<up, faults>>
  BY DEF ZoneAdd, command
<1> QED BY <1>1 DEF ServedInv, FaultsSeen, ServedAsWritten

LEMMA SaveServed ==
  ASSUME ServedInv, NEW z \in Zone, Save(z)
  PROVE  FaultsSeen' /\ ServedAsWritten'
<1>1. /\ \E f : file' = [file EXCEPT ![z] = f]
      /\ pc = "save" /\ pc' = "activate" /\ First(z, todo)
      /\ UNCHANGED <<local, served, up, synced, todo, done, before, faults>>
  BY DEF Save, history
<1>2. file[z] = before[z]
  <2>1. ~Saved(z)
    BY <1>1 DEF Saved, First, ServedInv, SerialInv, FileInv, IInv, Sets
  <2> QED BY <1>1, <2>1 DEF ServedInv, SerialInv, FileInv, IInv, CanUndo
<1>3. \A y \in Zone \ {z} : file'[y] = file[y]
  BY <1>1 DEF ServedInv, SerialInv, FileInv, IInv, Fcns
<1>4. FaultsSeen'
  BY <1>1 DEF ServedInv, FaultsSeen
<1>5. ServedAsWritten'
  <2> SUFFICES ASSUME up', synced', NEW y \in local'
               PROVE  Served(y)' \/ (First(y, todo)' /\ served'[y] = before'[y])
    BY <1>1 DEF ServedAsWritten
  <2>1. y \in local /\ Served(y) /\ y \in Zone
    BY <1>1 DEF ServedInv, ServedAsWritten, SerialInv, FileInv, Places
  <2>2. CASE y = z
    BY <1>1, <1>2, <2>1, <2>2 DEF Served, First
  <2>3. CASE y # z
    BY <1>1, <1>3, <2>1, <2>3 DEF Served
  <2> QED BY <2>2, <2>3
<1> QED BY <1>4, <1>5

\* Only a fault keeps a zone from being saved: what commands write can be served.
LEMMA SaveFailsServed ==
  ASSUME ServedInv, NEW z \in Zone, SaveFails(z)
  PROVE  FaultsSeen' /\ ServedAsWritten'
<1>1. Servable(mem[z], z)
  BY RootedRecs DEF SaveFails, First, ServedInv, SerialInv, FileInv, FilesRooted
<1>2. faults' = faults + 1 /\ faults \in Nat
  BY <1>1 DEF SaveFails, Fault, ServedInv, FaultsSeen
<1>3. /\ pc = "save" /\ pc' = "takeBack"
      /\ UNCHANGED <<local, file, served, up, synced>>
  BY DEF SaveFails, history
<1>4. faults' >= 1 /\ faults' \in Nat
  BY <1>2
<1>5. FaultsSeen'
  BY <1>3, <1>4 DEF FaultsSeen
<1>6. ServedAsWritten'
  BY <1>3 DEF ServedInv, ServedAsWritten, Served
<1> QED BY <1>5, <1>6

LEMMA CommitServed ==
  ASSUME ServedInv, NEW z \in Zone, Commit(z), First(z, todo), pc \in {"activate", "verify"},
         UNCHANGED <<local, file, served, up, synced, faults>>,
         up /\ synced => Served(z)
  PROVE  FaultsSeen' /\ ServedAsWritten'
<1>1. pc' \in {"save", "idle"} /\ (pc' = "idle" => report' = "ok")
  BY DEF Commit
<1>2. FaultsSeen'
  BY <1>1 DEF ServedInv, FaultsSeen
<1>3. ASSUME up, synced, NEW y \in local PROVE Served(y)
  <2>1. CASE y = z
    BY <1>3, <2>1
  <2>2. CASE y # z
    <3>1. ~First(y, todo)
      BY <2>2, FirstUnique DEF First, ServedInv, SerialInv, FileInv, IInv, Sets
    <3> QED BY <1>3, <3>1 DEF ServedInv, ServedAsWritten
  <2> QED BY <2>1, <2>2
<1>4. ServedAsWritten'
  BY <1>1, <1>3 DEF ServedAsWritten, Served
<1> QED BY <1>2, <1>4

\* The serial check: unbound that answers with the new serial has the new file.
LEMMA VerifyServed ==
  ASSUME ServedInv, NEW z \in Zone, Verify(z)
  PROVE  up /\ synced => Served(z)
<1> SUFFICES ASSUME up, synced, ~Served(z) PROVE FALSE
  OBVIOUS
<1>1. z \in local /\ First(z, todo) /\ pc = "verify"
  BY DEF Verify, First, ServedInv, SerialInv, FileInv, Places
<1>2. served[z] = before[z]
  BY <1>1 DEF ServedInv, ServedAsWritten
<1>3. before[z].serial < file[z].serial
  BY <1>1 DEF ServedInv, SerialInv, SerialsGrow, Saved
<1>4. before[z].serial \in Nat /\ before[z].serial = file[z].serial
  BY <1>2, SerialsTyped DEF Verify, Answers, ServedInv, SerialInv
<1> QED BY <1>3, <1>4

LEMMA ReloadServed ==
  ASSUME ServedInv, NEW z \in Zone, Reload(z)
  PROVE  FaultsSeen' /\ ServedAsWritten'
<1>1. /\ pc = "activate" /\ First(z, todo) /\ up /\ z \in local
      /\ UNCHANGED <<local, file, up, synced, todo, before>>
  BY DEF Reload, disk, history, First, ServedInv, SerialInv, FileInv, Places
<1>2. CASE served' = [served EXCEPT ![z] = file[z]] /\ pc' = "verify" /\ NoFault
  <2>1. served'[z] = file[z] /\ \A y \in Zone \ {z} : served'[y] = served[y]
    BY <1>2 DEF ServedInv, SerialInv, FileInv, FilesTyped
  <2>2. FaultsSeen'
    <3>1. \A y \in todo : First(y, todo) => y = z
      BY <1>1, FirstUnique DEF First, ServedInv, SerialInv, FileInv, IInv, Sets
    <3> QED BY <1>1, <1>2, <2>1, <3>1 DEF ServedInv, FaultsSeen, NoFault, Served
  <2>3. ServedAsWritten'
    <3> SUFFICES ASSUME synced, NEW y \in local
                 PROVE  served'[y] = file[y] \/ (First(y, todo) /\ served'[y] = before[y])
      BY <1>1, <1>2 DEF ServedAsWritten, Served, First
    <3>1. y \in Zone /\ (Served(y) \/ (First(y, todo) /\ served[y] = before[y]))
      BY <1>1 DEF ServedInv, ServedAsWritten, SerialInv, FileInv, Places
    <3>2. CASE y = z
      BY <2>1, <3>2
    <3>3. CASE y # z
      BY <2>1, <3>1, <3>3 DEF Served
    <3> QED BY <3>2, <3>3
  <2> QED BY <2>2, <2>3
<1>3. CASE Fault /\ pc' \in {"verify", "undo"} /\ UNCHANGED served
  <2>1. faults \in Nat /\ faults' = faults + 1
    BY <1>3 DEF Fault, ServedInv, FaultsSeen
  <2>2. faults' \in Nat /\ faults' >= 1 /\ faults' # 0
    BY <2>1
  <2>3. FaultsSeen'
    BY <1>3, <2>2 DEF FaultsSeen
  <2>4. ServedAsWritten'
    BY <1>1, <1>3 DEF ServedInv, ServedAsWritten, Served, First
  <2> QED BY <2>3, <2>4
<1> QED BY <1>2, <1>3 DEF Reload

LEMMA VerifyFailsServed ==
  ASSUME ServedInv, NEW z \in Zone, VerifyFails(z)
  PROVE  FaultsSeen' /\ ServedAsWritten'
<1>1. /\ pc = "verify" /\ First(z, todo) /\ pc' = "undo" /\ z \in local
      /\ UNCHANGED <<local, file, served, up, synced, todo>>
  BY DEF VerifyFails, disk, history, First, ServedInv, SerialInv, FileInv, Places
<1>2. faults \in Nat /\ faults' \in Nat /\ faults' >= 1
  <2>1. faults \in Nat
    BY DEF ServedInv, FaultsSeen
  <2>2. CASE faults' = faults + 1
    BY <2>1, <2>2
  <2>3. CASE ~Answers(z) /\ faults' = faults
    <3>1. faults # 0
      <4> SUFFICES ASSUME faults = 0 PROVE Answers(z)
        BY <2>3
      <4>1. up /\ served[z] = file[z]
        BY <1>1 DEF ServedInv, FaultsSeen, First, Served
      <4>2. file[z] # Absent
        BY <1>1, RootedRecs DEF ServedInv, SerialInv, FileInv, FilesRooted, Absent
      <4> QED BY <4>1, <4>2 DEF Answers
    <3> QED BY <2>1, <2>3, <3>1
  <2> QED BY <2>1, <2>2, <2>3 DEF VerifyFails, Fault, NoFault
<1>3. FaultsSeen'
  <2>1. faults' # 0
    BY <1>2
  <2> QED BY <1>1, <1>2, <2>1 DEF FaultsSeen
<1>4. ServedAsWritten'
  BY <1>1 DEF ServedInv, ServedAsWritten, Served, First
<1> QED BY <1>3, <1>4

\* One fault began the undoing; without a second every zone put back is served.
LEMMA UndoServed ==
  ASSUME ServedInv, NEW z \in Zone, Undo(z) \/ TakeBack(z)
  PROVE  FaultsSeen' /\ ServedAsWritten'
<1>1. /\ pc \in {"undo", "takeBack"} /\ pc' = "takeBack"
      /\ pc = "undo" => First(z, todo)
      /\ UndoZone(z)
      /\ file' = [file EXCEPT ![z] = prev[z]]
      /\ UNCHANGED <<local, up, synced, todo>>
  BY DEF Undo, TakeBack, UndoZone, RolledBack, history
<1>2. faults \in Nat /\ faults >= 1
  BY <1>1 DEF ServedInv, FaultsSeen
<1>3. CASE /\ served' = IF up THEN [served EXCEPT ![z] = file'[z]] ELSE served
           /\ faults' = faults
  <2>1. FaultsSeen'
    BY <1>1, <1>3 DEF ServedInv, FaultsSeen
  <2>2. ServedAsWritten'
    <3> SUFFICES ASSUME up, synced, NEW y \in local, faults <= 1
                 PROVE  served'[y] = file'[y]
      BY <1>1, <1>3 DEF ServedAsWritten, Served
    <3>1. y \in Zone
      BY DEF ServedInv, SerialInv, FileInv, Places
    <3>2. CASE y = z
      BY <1>3, <3>1, <3>2 DEF ServedInv, SerialInv, FileInv, FilesTyped
    <3>3. CASE y # z
      <4>1. pc = "undo" => ~First(y, todo)
        BY <1>1, <3>1, <3>3, FirstUnique DEF ServedInv, SerialInv, FileInv, IInv, Sets
      <4>2. served[y] = file[y]
        BY <1>1, <4>1 DEF ServedInv, ServedAsWritten, Served
      <4>3. served'[y] = served[y] /\ file'[y] = file[y]
        BY <1>1, <1>3, <3>1, <3>3 DEF ServedInv, SerialInv, FileInv, FilesTyped, IInv, Fcns
      <4> QED BY <4>2, <4>3
    <3> QED BY <3>2, <3>3
  <2> QED BY <2>1, <2>2
<1>4. CASE faults' = faults + 1
  <2>1. faults' \in Nat /\ faults' # 0 /\ faults' >= 1 /\ ~(faults' <= 1)
    BY <1>2, <1>4
  <2> QED BY <1>1, <2>1 DEF FaultsSeen, ServedAsWritten
<1> QED BY <1>1, <1>3, <1>4 DEF UndoZone, Fault, NoFault

LEMMA FailServed ==
  ASSUME ServedInv, Fail
  PROVE  FaultsSeen' /\ ServedAsWritten'
<1>1. /\ pc = "takeBack" /\ pc' = "idle" /\ report' = "failed"
      /\ UNCHANGED <<local, file, served, up, synced, faults>>
  BY DEF Fail, disk
<1> QED BY <1>1 DEF ServedInv, FaultsSeen, ServedAsWritten, Served

LEMMA WorldServed ==
  ASSUME ServedInv, World
  PROVE  FaultsSeen' /\ ServedAsWritten'
<1>1. CASE Kill
  <2>1. pc # "idle" /\ pc' = "idle" /\ UNCHANGED <<up, faults, report>>
    BY <1>1 DEF Kill
  <2>2. report' = "none"
    BY <2>1 DEF ServedInv, SerialInv, FileInv, IInv, Sets
  <2> QED BY <2>1, <2>2 DEF ServedInv, FaultsSeen, ServedAsWritten
<1>2. CASE DaemonStops
  <2>1. ~up' /\ faults' = faults + 1 /\ UNCHANGED <<pc, todo, file>>
    BY <1>2 DEF DaemonStops, Fault, disk, command
  <2>2. faults' \in Nat /\ faults' # 0 /\ faults' >= 1
    BY <2>1 DEF ServedInv, FaultsSeen
  <2> QED BY <2>1, <2>2 DEF FaultsSeen, ServedAsWritten
<1>3. CASE DaemonStarts
  <2>1. /\ served' = [z \in Zone |-> IF z \in local THEN file[z] ELSE Absent]
        /\ ~up /\ up' /\ UNCHANGED <<local, file, pc, todo, synced, report, faults>>
    BY <1>3 DEF DaemonStarts, disk, command, history
  <2>2. faults # 0
    BY <2>1 DEF ServedInv, FaultsSeen
  <2>3. \A z \in local : served'[z] = file'[z]
    BY <2>1 DEF ServedInv, SerialInv, FileInv, Places
  <2>4. FaultsSeen'
    BY <2>1, <2>2 DEF ServedInv, FaultsSeen
  <2>5. ServedAsWritten'
    BY <2>1, <2>3 DEF ServedAsWritten, Served
  <2> QED BY <2>4, <2>5
<1>4. CASE ClockSet
  <2>1. UNCHANGED <<local, file, served, up, pc, todo, synced, report, faults, before>>
    BY <1>4 DEF ClockSet, disk, command, history
  <2> QED BY <2>1 DEF ServedInv, FaultsSeen, ServedAsWritten, Served, First
<1> QED BY <1>1, <1>2, <1>3, <1>4 DEF World

LEMMA ServedKept == ASSUME Room PROVE ServedInv /\ [Next]_vars => ServedInv'
<1> SUFFICES ASSUME ServedInv, [Next]_vars PROVE ServedInv'
  OBVIOUS
<1>1. SerialInv'
  BY SerialsKept DEF ServedInv
<1>2. CASE RecordCommand \/ HostCommand
  <2>1. PICK c, new, touched : Begin(c, new, touched) /\ Writable(new, touched)
    BY <1>2, CommandWrites DEF ServedInv, SerialInv
  <2> QED BY <1>1, <2>1, BeginServed DEF ServedInv
<1>3. ASSUME NEW z \in Zone, ZoneAdd(z) PROVE ServedInv'
  BY <1>1, <1>3, ZoneAddServed DEF ServedInv
<1>4. ASSUME NEW z \in Zone, Save(z) PROVE ServedInv'
  BY <1>1, <1>4, SaveServed DEF ServedInv
<1>5. ASSUME NEW z \in Zone, SaveFails(z) PROVE ServedInv'
  BY <1>1, <1>5, SaveFailsServed DEF ServedInv
<1>6. ASSUME NEW z \in Zone, ActivateStopped(z) \/ Verify(z) PROVE ServedInv'
  <2>1. /\ First(z, todo) /\ Commit(z) /\ pc \in {"activate", "verify"}
        /\ UNCHANGED <<local, file, served, up, synced, faults>>
    BY <1>6 DEF ActivateStopped, Verify, disk
  <2>2. up /\ synced => Served(z)
    BY <1>6, VerifyServed DEF ActivateStopped
  <2> QED BY <1>1, <2>1, <2>2, CommitServed DEF ServedInv
<1>7. ASSUME NEW z \in Zone, Reload(z) PROVE ServedInv'
  BY <1>1, <1>7, ReloadServed DEF ServedInv
<1>8. ASSUME NEW z \in Zone, VerifyFails(z) PROVE ServedInv'
  BY <1>1, <1>8, VerifyFailsServed DEF ServedInv
<1>9. ASSUME NEW z \in Zone, Undo(z) \/ TakeBack(z) PROVE ServedInv'
  BY <1>1, <1>9, UndoServed DEF ServedInv
<1>10. CASE Fail
  BY <1>1, <1>10, FailServed DEF ServedInv
<1>11. CASE World
  BY <1>1, <1>11, WorldServed DEF ServedInv
<1>12. CASE UNCHANGED vars
  BY <1>1, <1>12 DEF vars, ServedInv, FaultsSeen, ServedAsWritten, Served, First
<1>13. CASE Step
  BY <1>4, <1>5, <1>6, <1>7, <1>8, <1>9, <1>10, <1>13 DEF Step
<1> QED BY <1>2, <1>3, <1>11, <1>12, <1>13 DEF Next

(***************************************************************************)
(* Comparing serials is enough (servedSerial in localzone.go): a running   *)
(* unbound that served the files before a command serves exactly the files *)
(* after it, whether it succeeded or failed because of one fault.          *)
(***************************************************************************)
THEOREM SerialsProveServed ==
  ASSUME Room PROVE Spec => []StaysServed
<1>1. Init => ServedInv
  BY ServedInitially
<1>2. ServedInv /\ [Next]_vars => ServedInv'
  BY ServedKept
<1>3. ServedInv => StaysServed
  BY DEF ServedInv, ServedAsWritten, Served, StaysServed
<1> QED BY <1>1, <1>2, <1>3, PTL DEF Spec

-----------------------------------------------------------------------------
(* Forward and reverse, if reverse zones are committed first or no command *)
(* is killed, if `record` leaves addresses and PTRs to the host commands,  *)
(* and if the zones agree to begin with.  What a host command makes of a zone is told by the      *)
(* links it has ahead of their addresses and by the host it takes away;    *)
(* a command killed on the way has made some zones and not the others.     *)

HasCname(recs, n) == \E r \in recs : r.type = "CNAME" /\ r.name = n

HostHas(f, h, a) == HasA(f[ZoneOf[h]].recs, h, a)

\* Host command c writes the PTR of h and a before the address.
Ahead(c, f, h, a) ==
  /\ c # <<>>
  /\ \/ c[1] = "add" /\ h = c[2] /\ a \in c[3]
     \/ c[1] = "rename" /\ h = c[3] /\ HostHas(f, c[2], a)

\* c takes the PTRs of h away before its addresses.
Leaving(c, h) == c # <<>> /\ c[1] \in {"remove", "rename"} /\ h = c[2]

\* Forward and reverse agree, apart from what c has begun; c = <<>> is nothing.
AgreeBut(c, f) ==
  /\ \A z \in local \cap ReverseZones, a \in Owners, h \in Values :
       HasPTR(f[z].recs, a, h) => h \in Hosts /\ (HostHas(f, h, a) \/ Ahead(c, f, h, a))
  /\ \A h \in Hosts, a \in Addrs :
       HostHas(f, h, a) /\ Covers[a] \cap FirstZones # {} /\ ~Leaving(c, h) =>
         \E z \in local \cap ReverseZones : HasPTR(f[z].recs, a, h)

\* No alias is in the way of the PTR of a.
Free(f, a) == \A z \in Best(a) : ~HasCname(f[z].recs, a)

\* c can be run, or run again: Accepted, told by links.
Can(c, f) ==
  c # <<>> =>
    /\ ZoneOf[c[2]] \in local
    /\ c[1] = "add" => /\ ~HasCname(f[ZoneOf[c[2]]].recs, c[2])
                       /\ \A a \in c[3] : Free(f, a)
    /\ c[1] \in {"remove", "rename"} => \E a \in Addrs : HostHas(f, c[2], a)
    /\ c[1] = "rename" =>
         /\ ZoneOf[c[3]] = ZoneOf[c[2]]
         /\ ~HasCname(f[ZoneOf[c[3]]].recs, c[3])
         /\ \A a \in Addrs : HostHas(f, c[2], a) => Free(f, a)

\* The host commands there are.
Known(c) ==
  \/ c = <<>>
  \/ c[1] = "add" /\ c[2] \in Hosts /\ c[3] \in (SUBSET Addrs) \ {{}} /\ c[4] \in Metas
  \/ c[1] = "remove" /\ c[2] \in Hosts
  \/ c[1] = "rename" /\ c[2] \in Hosts /\ c[3] \in Hosts

\* recs is what c makes of zone z, with files f as it found them.
Made(c, f, z, recs) ==
  /\ c # <<>> => \A n \in Owners : HasCname(recs, n) <=> HasCname(f[z].recs, n)
  /\ z \in ReverseZones =>
       \A a \in Owners, h \in Values :
         HasPTR(recs, a, h) <=>
           \/ HasPTR(f[z].recs, a, h) /\ ~Leaving(c, h)
           \/ Ahead(c, f, h, a) /\ z \in Best(a)
  /\ \A h \in Hosts, a \in Owners : z = ZoneOf[h] =>
       (HasA(recs, h, a) <=> (HostHas(f, h, a) /\ ~Leaving(c, h)) \/ Ahead(c, f, h, a))

\* The zones as far as the running command has come, the forward zone last.
Making ==
  /\ \A z \in local :
       /\ z \in todo => Made(running, before, z, mem[z])
       /\ Saved(z) \/ (z \notin todo /\ pc # "takeBack") =>
            Made(running, before, z, file[z].recs)
  /\ running # <<>> =>
       /\ ReverseFirst => done \subseteq ReverseZones
       /\ \A y, z \in todo \ ReverseZones : y = z

\* Only a kill tears a command.
Kills == killed \in Nat /\ (killed = 0 => torn = <<>>)

\* Whatever is killed can be repeated, or nothing has been.
Repairable == killed = 0 \/ ReverseFirst

\* Forward and reverse are apart by no more than what a killed command has
\* begun, and then it can be run again; a running command has found them so and
\* has made what it says of the zones that it has come to.
AgreeInv ==
  /\ FirstZones \subseteq local /\ Kills
  /\ Known(running) /\ (Known(torn) \/ torn = Lost)
  /\ torn # Lost /\ Repairable /\ pc = "idle" =>
       /\ AgreeBut(torn, file)
       /\ Can(torn, file) \/ AgreeBut(<<>>, file)
  /\ torn # Lost /\ Repairable /\ pc # "idle" =>
       /\ torn \in {<<>>, running}
       /\ AgreeBut(torn, before) /\ Can(running, before)
       /\ Making

\* What the operations on a zone do to its addresses, PTRs and aliases.
LEMMA AddedAllHas ==
  ASSUME NEW recs, NEW new, \A r \in new : r.type # "CNAME", NEW h, NEW a
  PROVE  /\ HasA(AddedAll(recs, new), h, a) <=> HasA(recs, h, a) \/ HasA(new, h, a)
         /\ HasPTR(AddedAll(recs, new), a, h) <=> HasPTR(recs, a, h) \/ HasPTR(new, a, h)
         /\ HasCname(AddedAll(recs, new), h) <=> HasCname(recs, h)
<1>1. \A s \in AddedAll(recs, new) : s \in recs \/ s \in new
  BY DEF AddedAll
<1>2. new \subseteq AddedAll(recs, new)
  BY DEF AddedAll
<1>3. \A s \in recs : s \in AddedAll(recs, new) \/ \E r \in new : SameData(r, s)
  BY DEF AddedAll
<1>4. HasA(AddedAll(recs, new), h, a) <=> HasA(recs, h, a) \/ HasA(new, h, a)
  BY <1>1, <1>2, <1>3 DEF HasA, SameData
<1>5. HasPTR(AddedAll(recs, new), a, h) <=> HasPTR(recs, a, h) \/ HasPTR(new, a, h)
  BY <1>1, <1>2, <1>3 DEF HasPTR, SameData
<1>6. HasCname(AddedAll(recs, new), h) <=> HasCname(recs, h)
  BY <1>1, <1>3 DEF HasCname, SameData
<1> QED BY <1>4, <1>5, <1>6

LEMMA NewOfTypes ==
  ASSUME NEW h, NEW addrs, NEW m, NEW z \in Zone
  PROVE  \A r \in NewOf(h, addrs, m)[z] : r.type \in {"A", "PTR"}
<1>1. \A b : ARecord(h, b, m).type = "A" /\ PTRRecord(b, h, m).type = "PTR"
  BY DEF ARecord, PTRRecord
<1>2. CASE z = ZoneOf[h]
  <2>1. NewOf(h, addrs, m)[z] = {ARecord(h, b, m) : b \in addrs}
    BY <1>2 DEF NewOf
  <2> QED BY <1>1, <2>1
<1>3. CASE z # ZoneOf[h]
  <2>1. NewOf(h, addrs, m)[z] = {PTRRecord(b, h, m) : b \in {d \in addrs : z \in Best(d)}}
    BY <1>3 DEF NewOf
  <2> QED BY <1>1, <2>1
<1> QED BY <1>2, <1>3

LEMMA NewOfHasA ==
  ASSUME NEW h, NEW addrs, NEW m, NEW z \in Zone, NEW k, NEW a
  PROVE  HasA(NewOf(h, addrs, m)[z], k, a) <=> z = ZoneOf[h] /\ k = h /\ a \in addrs
<1>1. CASE z = ZoneOf[h]
  <2>1. NewOf(h, addrs, m)[z] = {ARecord(h, b, m) : b \in addrs}
    BY <1>1 DEF NewOf
  <2>2. \A b : LET r == ARecord(h, b, m) IN r.type = "A" /\ r.name = h /\ r.value = b
    BY DEF ARecord
  <2> QED BY <1>1, <2>1, <2>2 DEF HasA
<1>2. CASE z # ZoneOf[h]
  <2>1. NewOf(h, addrs, m)[z] = {PTRRecord(b, h, m) : b \in {d \in addrs : z \in Best(d)}}
    BY <1>2 DEF NewOf
  <2>2. \A b : PTRRecord(b, h, m).type = "PTR"
    BY DEF PTRRecord
  <2> QED BY <1>2, <2>1, <2>2 DEF HasA
<1> QED BY <1>1, <1>2

LEMMA NewOfHasPTR ==
  ASSUME NEW h, NEW addrs, NEW m, NEW z \in Zone, NEW k, NEW a
  PROVE  HasPTR(NewOf(h, addrs, m)[z], a, k) <=>
           z # ZoneOf[h] /\ k = h /\ a \in addrs /\ z \in Best(a)
<1>1. CASE z = ZoneOf[h]
  <2>1. NewOf(h, addrs, m)[z] = {ARecord(h, b, m) : b \in addrs}
    BY <1>1 DEF NewOf
  <2>2. \A b : ARecord(h, b, m).type = "A"
    BY DEF ARecord
  <2> QED BY <1>1, <2>1, <2>2 DEF HasPTR
<1>2. CASE z # ZoneOf[h]
  <2>1. NewOf(h, addrs, m)[z] = {PTRRecord(b, h, m) : b \in {d \in addrs : z \in Best(d)}}
    BY <1>2 DEF NewOf
  <2>2. \A b : LET r == PTRRecord(b, h, m) IN r.type = "PTR" /\ r.name = b /\ r.value = h
    BY DEF PTRRecord
  <2>3. \A r \in NewOf(h, addrs, m)[z] :
          r.type = "PTR" /\ r.value = h /\ r.name \in addrs /\ z \in Best(r.name)
    BY <2>1, <2>2
  <2>4. a \in addrs /\ z \in Best(a) => PTRRecord(a, h, m) \in NewOf(h, addrs, m)[z]
    BY <2>1
  <2> QED BY <1>2, <2>2, <2>3, <2>4 DEF HasPTR
<1> QED BY <1>1, <1>2

LEMMA MovedTypes ==
  ASSUME NEW h, NEW g, NEW z \in Zone
  PROVE  \A r \in Moved(h, g)[z] : r.type \in {"A", "PTR"}
<1>1. \A b, m : ARecord(g, b, m).type = "A" /\ PTRRecord(b, g, m).type = "PTR"
  BY DEF ARecord, PTRRecord
<1>2. CASE z = ZoneOf[h]
  <2>1. Moved(h, g)[z] = {ARecord(g, r.value, r.meta) : r \in AddressesOf(h)}
    BY <1>2 DEF Moved
  <2> QED BY <1>1, <2>1
<1>3. CASE z # ZoneOf[h]
  <2>1. Moved(h, g)[z] = {PTRRecord(r.value, g, r.meta) :
                            r \in {s \in AddressesOf(h) : z \in Best(s.value)}}
    BY <1>3 DEF Moved
  <2> QED BY <1>1, <2>1
<1> QED BY <1>2, <1>3

LEMMA MovedHasA ==
  ASSUME NEW h, NEW g, NEW z \in Zone, NEW k, NEW a
  PROVE  HasA(Moved(h, g)[z], k, a) <=> z = ZoneOf[h] /\ k = g /\ HostHas(file, h, a)
<1>1. \A b : HostHas(file, h, b) <=> \E r \in AddressesOf(h) : r.value = b
  BY DEF HostHas, HasA, AddressesOf
<1>2. CASE z = ZoneOf[h]
  <2>1. Moved(h, g)[z] = {ARecord(g, r.value, r.meta) : r \in AddressesOf(h)}
    BY <1>2 DEF Moved
  <2>2. \A b, m : LET r == ARecord(g, b, m) IN r.type = "A" /\ r.name = g /\ r.value = b
    BY DEF ARecord
  <2> QED BY <1>1, <1>2, <2>1, <2>2 DEF HasA
<1>3. CASE z # ZoneOf[h]
  <2>1. \A r \in Moved(h, g)[z] : r.type = "PTR"
    BY <1>3 DEF Moved, PTRRecord
  <2> QED BY <1>3, <2>1 DEF HasA
<1> QED BY <1>2, <1>3

LEMMA MovedHasPTR ==
  ASSUME NEW h, NEW g, NEW z \in Zone, NEW k, NEW a
  PROVE  HasPTR(Moved(h, g)[z], a, k) <=>
           z # ZoneOf[h] /\ k = g /\ HostHas(file, h, a) /\ z \in Best(a)
<1>1. \A b : HostHas(file, h, b) <=> \E r \in AddressesOf(h) : r.value = b
  BY DEF HostHas, HasA, AddressesOf
<1>2. CASE z = ZoneOf[h]
  <2>1. \A r \in Moved(h, g)[z] : r.type = "A"
    BY <1>2 DEF Moved, ARecord
  <2> QED BY <1>2, <2>1 DEF HasPTR
<1>3. CASE z # ZoneOf[h]
  <2>1. Moved(h, g)[z] = {PTRRecord(r.value, g, r.meta) :
                            r \in {s \in AddressesOf(h) : z \in Best(s.value)}}
    BY <1>3 DEF Moved
  <2>2. \A b, m : LET r == PTRRecord(b, g, m) IN r.type = "PTR" /\ r.name = b /\ r.value = g
    BY DEF PTRRecord
  <2> QED BY <1>1, <1>3, <2>1, <2>2 DEF HasPTR
<1> QED BY <1>2, <1>3

LEMMA DroppedHas ==
  ASSUME NEW h, NEW z, NEW k, NEW a
  PROVE  LET rest == file[z].recs \ Dropped(h, z) IN
         /\ z \notin ReverseZones =>
              (HasA(rest, k, a) <=> HasA(file[z].recs, k, a) /\ ~(k = h /\ z = ZoneOf[h]))
         /\ z \in ReverseZones => (HasPTR(rest, a, k) <=> HasPTR(file[z].recs, a, k) /\ k # h)
         /\ HasCname(rest, k) <=> HasCname(file[z].recs, k)
BY DEF Dropped, HasA, HasPTR, HasCname

\* Adding an address or a PTR is refused where there is an alias of that name.
LEMMA RefusedForAlias ==
  ASSUME NEW recs, NEW new, NEW z, \A r \in new : r.type \in {"A", "PTR"}
  PROVE  AnyRefused(recs, new, z) <=> \E r \in new : HasCname(recs, r.name)
BY DEF AnyRefused, AddRefused, CnameClash, SameData, HasCname

LEMMA BestFacts ==
  ASSUME NEW a \in Addrs
  PROVE  Best(a) \subseteq local /\ Best(a) \subseteq ReverseZones
BY ZoneAssumption DEF Best

\* An address that some local zone covers has a best zone.
LEMMA BestThere ==
  ASSUME NEW a \in Addrs, local \subseteq Zone, Covers[a] \cap local # {}
  PROVE  Best(a) # {}
<1> DEFINE S == local \cap Covers[a]
           gaps == {255 - Labels[z] : z \in S}
<1>1. \A z \in S : Labels[z] \in 0..255
  BY ZoneAssumption
<1>2. gaps \in SUBSET Nat /\ gaps # {}
  <2>1. \A z \in S : 255 - Labels[z] \in Nat
    BY <1>1
  <2>2. PICK z \in S : TRUE
    OBVIOUS
  <2>3. 255 - Labels[z] \in gaps
    BY <2>2
  <2> QED BY <2>1, <2>3
<1>3. PICK m \in gaps : \A k \in gaps : <<k, m>> \notin OpToRel(<, Nat)
  <2> HIDE DEF gaps
  <2> QED BY <1>2, NatLessThanWellFounded, WFMin
<1>4. \A k \in gaps : ~(k < m)
  BY <1>2, <1>3 DEF OpToRel
<1>5. PICK z \in S : m = 255 - Labels[z]
  BY <1>3
<1>6. ASSUME NEW y \in S PROVE Labels[y] <= Labels[z]
  <2>1. 255 - Labels[y] \in gaps /\ m \in Nat
    BY <1>2, <1>3
  <2>2. ~(255 - Labels[y] < m)
    BY <1>4, <2>1
  <2>3. Labels[y] \in 0..255 /\ Labels[z] \in 0..255 /\ m = 255 - Labels[z]
    BY <1>1, <1>5
  <2>4. \A p, q \in 0..255 : ~(255 - p < 255 - q) => p <= q
    OBVIOUS
  <2> HIDE DEF gaps, S
  <2> QED BY <2>2, <2>3, <2>4
<1> QED BY <1>5, <1>6 DEF Best

\* What is in the zones of hosts.
LEMMA HostFacts ==
  ASSUME FilesTyped, NEW h \in Hosts
  PROVE  /\ ZoneOf[h] \in Zone /\ ZoneOf[h] \notin ReverseZones /\ h \in Owners /\ h \in Values
         /\ \A a : HostHas(file, h, a) => a \in Addrs /\ a \in Owners
<1>1. file[ZoneOf[h]].recs \subseteq Typed
  BY ZoneAssumption DEF FilesTyped, ZoneFile
<1> QED BY <1>1, ZoneAssumption, RecordAssumption DEF HostHas, HasA, Typed

\* The commands make of the zones what Made says, and can be run.
LEMMA AddMade ==
  ASSUME FileInv, NEW h \in Hosts, NEW addrs \in SUBSET Addrs, NEW m \in Metas, NEW z \in local
  PROVE  Made(<<"add", h, addrs, m>>, file, z, AddedAll(file[z].recs, NewOf(h, addrs, m)[z]))
<1> DEFINE c == <<"add", h, addrs, m>>
           new == NewOf(h, addrs, m)[z]
           made == AddedAll(file[z].recs, new)
<1>0. z \in Zone
  BY FileTyped
<1>1. z \in Zone /\ c[1] = "add" /\ c[2] = h /\ c[3] = addrs
  BY FileTyped
<1>2. \A k, a : Ahead(c, file, k, a) <=> k = h /\ a \in addrs
  BY <1>1 DEF Ahead
<1>3. \A k : ~Leaving(c, k)
  BY <1>1 DEF Leaving
<1>4. \A r \in new : r.type # "CNAME"
  BY <1>0, NewOfTypes
<1>5. ASSUME NEW k, NEW a
      PROVE  /\ HasA(made, k, a) <=> HasA(file[z].recs, k, a) \/ HasA(new, k, a)
             /\ HasPTR(made, a, k) <=> HasPTR(file[z].recs, a, k) \/ HasPTR(new, a, k)
             /\ HasCname(made, k) <=> HasCname(file[z].recs, k)
  <2> HIDE DEF new
  <2> QED BY <1>4, AddedAllHas
<1>6. ASSUME NEW k, NEW a
      PROVE  /\ HasA(new, k, a) <=> z = ZoneOf[h] /\ k = h /\ a \in addrs
             /\ HasPTR(new, a, k) <=> z # ZoneOf[h] /\ k = h /\ a \in addrs /\ z \in Best(a)
  <2>1. HasA(new, k, a) <=> z = ZoneOf[h] /\ k = h /\ a \in addrs
    BY <1>0, NewOfHasA
  <2>2. HasPTR(new, a, k) <=> z # ZoneOf[h] /\ k = h /\ a \in addrs /\ z \in Best(a)
    BY <1>0, NewOfHasPTR
  <2> QED BY <2>1, <2>2
<1>7. ZoneOf[h] \notin ReverseZones
  BY ZoneAssumption
<1> HIDE DEF c, new, made
<1>8. \A k, a : z = ZoneOf[k] => (HostHas(file, k, a) <=> HasA(file[z].recs, k, a))
  BY DEF HostHas
<1>9. c # <<>> => \A n \in Owners : HasCname(made, n) <=> HasCname(file[z].recs, n)
  BY <1>5
<1>10. z \in ReverseZones =>
         \A a \in Owners, k \in Values :
           HasPTR(made, a, k) <=>
             \/ HasPTR(file[z].recs, a, k) /\ ~Leaving(c, k)
             \/ Ahead(c, file, k, a) /\ z \in Best(a)
  BY <1>2, <1>3, <1>5, <1>6, <1>7
<1>11. ASSUME NEW k \in Hosts, NEW a \in Owners, z = ZoneOf[k]
       PROVE  HasA(made, k, a) <=> (HostHas(file, k, a) /\ ~Leaving(c, k)) \/ Ahead(c, file, k, a)
  BY <1>2, <1>3, <1>5, <1>6, <1>8, <1>11
<1>12. Made(c, file, z, made)
  BY <1>9, <1>10, <1>11 DEF Made
<1> QED BY <1>12 DEF c, new, made

LEMMA RemoveMade ==
  ASSUME FileInv, NEW h \in Hosts, NEW z \in local
  PROVE  Made(<<"remove", h>>, file, z, file[z].recs \ Dropped(h, z))
<1> DEFINE c == <<"remove", h>>
           rest == file[z].recs \ Dropped(h, z)
<1>1. c[1] = "remove" /\ c[2] = h /\ c # <<>>
  OBVIOUS
<1>2. \A k, a : ~Ahead(c, file, k, a)
  BY <1>1 DEF Ahead
<1>3. \A k : Leaving(c, k) <=> k = h
  BY <1>1 DEF Leaving
<1>4. ASSUME NEW k, NEW a
      PROVE  /\ z \notin ReverseZones =>
                  (HasA(rest, k, a) <=> HasA(file[z].recs, k, a) /\ ~(k = h /\ z = ZoneOf[h]))
             /\ z \in ReverseZones => (HasPTR(rest, a, k) <=> HasPTR(file[z].recs, a, k) /\ k # h)
             /\ HasCname(rest, k) <=> HasCname(file[z].recs, k)
  BY DroppedHas
<1>5. \A k \in Hosts : ZoneOf[k] \notin ReverseZones
  BY ZoneAssumption
<1> HIDE DEF c, rest
<1>6. \A k, a : z = ZoneOf[k] => (HostHas(file, k, a) <=> HasA(file[z].recs, k, a))
  BY DEF HostHas
<1>7. Made(c, file, z, rest)
  BY <1>2, <1>3, <1>4, <1>5, <1>6 DEF Made
<1> QED BY <1>7 DEF c, rest

LEMMA RenameMade ==
  ASSUME FileInv, NEW h \in Hosts, NEW g \in Hosts, ZoneOf[g] = ZoneOf[h], NEW z \in local
  PROVE  Made(<<"rename", h, g>>, file, z,
              AddedAll(file[z].recs \ Dropped(h, z), Moved(h, g)[z]))
<1> DEFINE c == <<"rename", h, g>>
           rest == file[z].recs \ Dropped(h, z)
           new == Moved(h, g)[z]
           made == AddedAll(rest, new)
<1>1. z \in Zone /\ c[1] = "rename" /\ c[2] = h /\ c[3] = g /\ c # <<>>
  BY FileTyped
<1>2. \A k, a : Ahead(c, file, k, a) <=> k = g /\ HostHas(file, h, a)
  BY <1>1 DEF Ahead
<1>3. \A k : Leaving(c, k) <=> k = h
  BY <1>1 DEF Leaving
<1>4. \A r \in new : r.type # "CNAME"
  BY <1>1, MovedTypes
<1>5. ASSUME NEW k, NEW a
      PROVE  /\ HasA(made, k, a) <=> HasA(rest, k, a) \/ HasA(new, k, a)
             /\ HasPTR(made, a, k) <=> HasPTR(rest, a, k) \/ HasPTR(new, a, k)
             /\ HasCname(made, k) <=> HasCname(rest, k)
  <2> HIDE DEF new, rest
  <2> QED BY <1>4, AddedAllHas
<1>6. ASSUME NEW k, NEW a
      PROVE  /\ HasA(new, k, a) <=> z = ZoneOf[h] /\ k = g /\ HostHas(file, h, a)
             /\ HasPTR(new, a, k) <=> z # ZoneOf[h] /\ k = g /\ HostHas(file, h, a) /\ z \in Best(a)
  <2>1. HasA(new, k, a) <=> z = ZoneOf[h] /\ k = g /\ HostHas(file, h, a)
    BY <1>1, MovedHasA
  <2>2. HasPTR(new, a, k) <=> z # ZoneOf[h] /\ k = g /\ HostHas(file, h, a) /\ z \in Best(a)
    BY <1>1, MovedHasPTR
  <2> QED BY <2>1, <2>2
<1>7. ASSUME NEW k, NEW a
      PROVE  /\ z \notin ReverseZones =>
                  (HasA(rest, k, a) <=> HasA(file[z].recs, k, a) /\ ~(k = h /\ z = ZoneOf[h]))
             /\ z \in ReverseZones => (HasPTR(rest, a, k) <=> HasPTR(file[z].recs, a, k) /\ k # h)
             /\ HasCname(rest, k) <=> HasCname(file[z].recs, k)
  BY DroppedHas
<1>8. \A k \in Hosts : ZoneOf[k] \notin ReverseZones
  BY ZoneAssumption
<1> HIDE DEF c, rest, new, made
<1>9. \A k, a : z = ZoneOf[k] => (HostHas(file, k, a) <=> HasA(file[z].recs, k, a))
  BY DEF HostHas
<1>10. c # <<>> => \A n \in Owners : HasCname(made, n) <=> HasCname(file[z].recs, n)
  BY <1>5, <1>7
<1>11. z \in ReverseZones =>
         \A a \in Owners, k \in Values :
           HasPTR(made, a, k) <=>
             \/ HasPTR(file[z].recs, a, k) /\ ~Leaving(c, k)
             \/ Ahead(c, file, k, a) /\ z \in Best(a)
  BY <1>2, <1>3, <1>5, <1>6, <1>7, <1>8
<1>12. ASSUME NEW k \in Hosts, NEW a \in Owners, z = ZoneOf[k]
       PROVE  HasA(made, k, a) <=> (HostHas(file, k, a) /\ ~Leaving(c, k)) \/ Ahead(c, file, k, a)
  BY <1>2, <1>3, <1>5, <1>6, <1>7, <1>8, <1>9, <1>12
<1>13. Made(c, file, z, made)
  BY <1>10, <1>11, <1>12 DEF Made
<1> QED BY <1>13 DEF c, rest, new, made

\* record, which has no PTRs or addresses to add or to remove.
LEMMA NothingMade ==
  ASSUME NEW f, NEW z, NEW recs,
         \A r \in f[z].recs : r.type \in {"A", "PTR"} => r \in recs,
         \A r \in recs : r.type \in {"A", "PTR"} => r \in f[z].recs
  PROVE  Made(<<>>, f, z, recs)
BY DEF Made, HasA, HasPTR, HostHas, Ahead, Leaving

LEMMA AddCan ==
  ASSUME FileInv, NEW h \in Hosts, NEW addrs \in (SUBSET Addrs) \ {{}}, NEW m \in Metas
  PROVE  AddAccepted(h, addrs, m) <=> Can(<<"add", h, addrs, m>>, file)
<1> DEFINE c == <<"add", h, addrs, m>>
<1>1. c[1] = "add" /\ c[2] = h /\ c[3] = addrs /\ c # <<>>
  OBVIOUS
<1>2. Can(c, file) <=> /\ ZoneOf[h] \in local /\ ~HasCname(file[ZoneOf[h]].recs, h)
                       /\ \A a \in addrs : Free(file, a)
  BY <1>1 DEF Can
<1>3. ASSUME NEW z \in local
      PROVE  /\ z \in Zone
             /\ AnyRefused(file[z].recs, NewOf(h, addrs, m)[z], z) <=>
                  \E r \in NewOf(h, addrs, m)[z] : HasCname(file[z].recs, r.name)
  <2>1. z \in Zone
    BY FileTyped
  <2>2. \A r \in NewOf(h, addrs, m)[z] : r.type \in {"A", "PTR"}
    BY <2>1, NewOfTypes
  <2> QED BY <2>1, <2>2, RefusedForAlias
<1>4. \A a \in addrs : Best(a) \subseteq local /\ ZoneOf[h] \notin Best(a)
  BY BestFacts, ZoneAssumption
<1>5. ASSUME NEW z \in local
      PROVE  (\E r \in NewOf(h, addrs, m)[z] : HasCname(file[z].recs, r.name)) <=>
               \/ z = ZoneOf[h] /\ HasCname(file[z].recs, h)
               \/ \E a \in addrs : z \in Best(a) /\ HasCname(file[z].recs, a)
  <2>1. CASE z = ZoneOf[h]
    <3>1. NewOf(h, addrs, m)[z] = {ARecord(h, b, m) : b \in addrs}
      BY <1>3, <2>1 DEF NewOf
    <3>2. \A b : ARecord(h, b, m).name = h
      BY DEF ARecord
    <3>3. PICK b \in addrs : TRUE
      OBVIOUS
    <3>4. ARecord(h, b, m) \in NewOf(h, addrs, m)[z]
      BY <3>1, <3>3
    <3>5. \A r \in NewOf(h, addrs, m)[z] : r.name = h
      BY <3>1, <3>2
    <3> QED BY <1>4, <2>1, <3>4, <3>5
  <2>2. CASE z # ZoneOf[h]
    <3>1. NewOf(h, addrs, m)[z] = {PTRRecord(b, h, m) : b \in {d \in addrs : z \in Best(d)}}
      BY <1>3, <2>2 DEF NewOf
    <3>2. \A b : PTRRecord(b, h, m).name = b
      BY DEF PTRRecord
    <3> QED BY <2>2, <3>1, <3>2
  <2> QED BY <2>1, <2>2
<1> HIDE DEF c
<1>6. AddAccepted(h, addrs, m) <=> Can(c, file)
  BY <1>2, <1>3, <1>4, <1>5 DEF AddAccepted, Free
<1> QED BY <1>6 DEF c

LEMMA RemoveCan ==
  ASSUME FilesTyped, NEW h \in Hosts
  PROVE  RemoveAccepted(h) <=> Can(<<"remove", h>>, file)
<1> DEFINE c == <<"remove", h>>
<1>1. c[1] = "remove" /\ c[2] = h /\ c # <<>>
  OBVIOUS
<1>2. Can(c, file) <=> ZoneOf[h] \in local /\ \E a \in Addrs : HostHas(file, h, a)
  BY <1>1 DEF Can
<1>3. AddressesOf(h) # {} <=> \E a \in Addrs : HostHas(file, h, a)
  <2>1. AddressesOf(h) # {} <=> \E a : HostHas(file, h, a)
    BY DEF HostHas, HasA, AddressesOf
  <2> QED BY <2>1, HostFacts
<1> HIDE DEF c
<1>4. RemoveAccepted(h) <=> Can(c, file)
  BY <1>2, <1>3 DEF RemoveAccepted
<1> QED BY <1>4 DEF c

LEMMA RenameCan ==
  ASSUME FileInv, NEW h \in Hosts, NEW g \in Hosts
  PROVE  RenameAccepted(h, g) <=> Can(<<"rename", h, g>>, file)
<1> DEFINE c == <<"rename", h, g>>
<1>1. c[1] = "rename" /\ c[2] = h /\ c[3] = g /\ c # <<>>
  OBVIOUS
<1>2. Can(c, file) <=>
        /\ ZoneOf[h] \in local /\ ZoneOf[g] = ZoneOf[h]
        /\ \E a \in Addrs : HostHas(file, h, a)
        /\ ~HasCname(file[ZoneOf[g]].recs, g)
        /\ \A a \in Addrs : HostHas(file, h, a) => Free(file, a)
  BY <1>1 DEF Can
<1>3. \A a : HostHas(file, h, a) <=> \E r \in AddressesOf(h) : r.value = a
  BY DEF HostHas, HasA, AddressesOf
<1>4. \A a : HostHas(file, h, a) => a \in Addrs
  BY HostFacts DEF FileInv
<1>5. AddressesOf(h) # {} <=> \E a \in Addrs : HostHas(file, h, a)
  BY <1>3, <1>4
<1>6. ASSUME NEW z \in local
      PROVE  AnyRefused(file[z].recs \ Dropped(h, z), Moved(h, g)[z], z) <=>
               \E r \in Moved(h, g)[z] : HasCname(file[z].recs, r.name)
  <2>1. z \in Zone
    BY FileTyped
  <2>2. \A r \in Moved(h, g)[z] : r.type \in {"A", "PTR"}
    BY <2>1, MovedTypes
  <2>3. \A n : HasCname(file[z].recs \ Dropped(h, z), n) <=> HasCname(file[z].recs, n)
    BY DroppedHas
  <2> QED BY <2>2, <2>3, RefusedForAlias
<1>7. ASSUME NEW z \in local, AddressesOf(h) # {}
      PROVE  (\E r \in Moved(h, g)[z] : HasCname(file[z].recs, r.name)) <=>
               \/ z = ZoneOf[h] /\ HasCname(file[z].recs, g)
               \/ \E a \in Addrs : HostHas(file, h, a) /\ z \in Best(a) /\ HasCname(file[z].recs, a)
  <2>1. z \in Zone
    BY FileTyped
  <2>2. CASE z = ZoneOf[h]
    <3>1. Moved(h, g)[z] = {ARecord(g, r.value, r.meta) : r \in AddressesOf(h)}
      BY <2>1, <2>2 DEF Moved
    <3>2. \A b, m : ARecord(g, b, m).name = g
      BY DEF ARecord
    <3>3. \A r \in Moved(h, g)[z] : r.name = g
      BY <3>1, <3>2
    <3>4. \E r \in Moved(h, g)[z] : TRUE
      BY <1>7, <3>1
    <3>5. \A a \in Addrs : z \notin Best(a)
      BY <2>2, BestFacts, ZoneAssumption
    <3> QED BY <2>2, <3>3, <3>4, <3>5
  <2>3. CASE z # ZoneOf[h]
    <3>1. Moved(h, g)[z] = {PTRRecord(r.value, g, r.meta) :
                              r \in {s \in AddressesOf(h) : z \in Best(s.value)}}
      BY <2>1, <2>3 DEF Moved
    <3>2. \A b, m : PTRRecord(b, g, m).name = b
      BY DEF PTRRecord
    <3>3. \A r \in Moved(h, g)[z] : \E s \in AddressesOf(h) : z \in Best(s.value) /\ r.name = s.value
      BY <3>1, <3>2
    <3>4. \A s \in AddressesOf(h) : z \in Best(s.value) =>
            \E r \in Moved(h, g)[z] : r.name = s.value
      BY <3>1, <3>2
    <3> QED BY <1>3, <1>4, <2>3, <3>3, <3>4
  <2> QED BY <2>2, <2>3
<1>8. \A a \in Addrs : Best(a) \subseteq local
  BY BestFacts
<1> HIDE DEF c
<1>9. ASSUME ZoneOf[h] \in local, ZoneOf[g] = ZoneOf[h], AddressesOf(h) # {}
      PROVE  (\A z \in local : ~AnyRefused(file[z].recs \ Dropped(h, z), Moved(h, g)[z], z)) <=>
               /\ ~HasCname(file[ZoneOf[g]].recs, g)
               /\ \A a \in Addrs : HostHas(file, h, a) => Free(file, a)
  BY <1>6, <1>7, <1>8, <1>9 DEF Free
<1>10. RenameAccepted(h, g) <=> Can(c, file)
  BY <1>2, <1>5, <1>9 DEF RenameAccepted
<1> QED BY <1>10 DEF c


LEMMA AcceptedIsCan ==
  ASSUME FileInv, NEW c, Known(c), c # <<>>
  PROVE  Accepted(c) <=> Can(c, file)
<1>1. CASE c[1] = "add" /\ c[2] \in Hosts /\ c[3] \in (SUBSET Addrs) \ {{}} /\ c[4] \in Metas
  <2>1. Accepted(c) <=> AddAccepted(c[2], c[3], c[4])
    BY <1>1 DEF Accepted
  <2> DEFINE d == <<"add", c[2], c[3], c[4]>>
  <2>2. d[1] = "add" /\ d[2] = c[2] /\ d[3] = c[3] /\ d # <<>>
    OBVIOUS
  <2>3. AddAccepted(c[2], c[3], c[4]) <=> Can(d, file)
    BY <1>1, AddCan
  <2> HIDE DEF d
  <2>4. Can(d, file) <=> Can(c, file)
    BY <1>1, <2>2 DEF Can
  <2> QED BY <2>1, <2>3, <2>4
<1>2. CASE c[1] = "remove" /\ c[2] \in Hosts
  <2>1. Accepted(c) <=> RemoveAccepted(c[2])
    BY <1>2 DEF Accepted
  <2> DEFINE d == <<"remove", c[2]>>
  <2>2. d[1] = "remove" /\ d[2] = c[2] /\ d # <<>>
    OBVIOUS
  <2>3. RemoveAccepted(c[2]) <=> Can(d, file)
    BY <1>2, RemoveCan DEF FileInv
  <2> HIDE DEF d
  <2>4. Can(d, file) <=> Can(c, file)
    BY <1>2, <2>2 DEF Can
  <2> QED BY <2>1, <2>3, <2>4
<1>3. CASE c[1] = "rename" /\ c[2] \in Hosts /\ c[3] \in Hosts
  <2>1. Accepted(c) <=> RenameAccepted(c[2], c[3])
    BY <1>3 DEF Accepted
  <2> DEFINE d == <<"rename", c[2], c[3]>>
  <2>2. d[1] = "rename" /\ d[2] = c[2] /\ d[3] = c[3] /\ d # <<>>
    OBVIOUS
  <2>3. RenameAccepted(c[2], c[3]) <=> Can(d, file)
    BY <1>3, RenameCan
  <2> HIDE DEF d
  <2>4. Can(d, file) <=> Can(c, file)
    BY <1>3, <2>2 DEF Can
  <2> QED BY <2>1, <2>3, <2>4
<1> QED BY <1>1, <1>2, <1>3 DEF Known

\* What a command that begins is about to make of every zone.
Planned(c, new, touched) ==
  /\ Known(c) /\ Can(c, file) /\ touched \subseteq local
  /\ \A z \in local : Made(c, file, z, IF z \in touched THEN new[z] ELSE file[z].recs)
  /\ c # <<>> => \A y, z \in touched \ ReverseZones : y = z

LEMMA RecordPlans ==
  ASSUME FileInv, HostsManaged, RecordCommand
  PROVE  \E c, new, touched : Begin(c, new, touched) /\ Planned(c, new, touched)
<1>0. PICK z \in Zone : \E r \in Extra[z] : RecordAdd(z, r) \/ RecordRemove(z, r)
  BY DEF RecordCommand
<1>1. PICK r \in Extra[z] : RecordAdd(z, r) \/ RecordRemove(z, r)
  BY <1>0
<1>2. r.type \notin {"A", "PTR"}
  BY <1>1 DEF HostsManaged
<1>3. Known(<<>>) /\ Can(<<>>, file)
  BY DEF Known, Can
<1>4. CASE RecordAdd(z, r)
  <2> DEFINE new == [y \in Zone |-> Added(file[z].recs, r)]
             touched == IF r \in file[z].recs THEN {} ELSE {z}
  <2>1. Begin(<<>>, new, touched) /\ z \in local
    BY <1>4 DEF RecordAdd
  <2>2. \A s \in Twins(file[z].recs, r) : s.type = r.type
    BY DEF Twins, SameData
  <2>3. ASSUME NEW y \in local
        PROVE  Made(<<>>, file, y, IF y \in touched THEN new[y] ELSE file[y].recs)
    <3>1. CASE y \in touched
      <4>1. y = z /\ new[y] = (file[y].recs \ Twins(file[y].recs, r)) \cup {r}
        BY <1>1, <3>1 DEF Added
      <4>2. Made(<<>>, file, y, (file[y].recs \ Twins(file[y].recs, r)) \cup {r})
        <5> DEFINE recs == (file[y].recs \ Twins(file[y].recs, r)) \cup {r}
        <5>1. \A s \in file[y].recs : s.type \in {"A", "PTR"} => s \in recs
          BY <1>2, <2>2, <4>1
        <5>2. \A s \in recs : s.type \in {"A", "PTR"} => s \in file[y].recs
          BY <1>2
        <5> HIDE DEF recs
        <5> QED BY <5>1, <5>2, NothingMade DEF recs
      <4> QED BY <3>1, <4>1, <4>2
    <3>2. CASE y \notin touched
      BY <3>2, NothingMade
    <3> QED BY <3>1, <3>2
  <2>4. touched \subseteq local
    BY <2>1
  <2> HIDE DEF new, touched
  <2> QED BY <1>3, <2>1, <2>3, <2>4 DEF Planned
<1>5. CASE RecordRemove(z, r)
  <2>1. PICK vs \in {{r.value}, Values} :
          Begin(<<>>, [y \in Zone |-> Removed(file[z].recs, r.name, r.type, vs)], {z})
    BY <1>5 DEF RecordRemove
  <2> DEFINE new == [y \in Zone |-> Removed(file[z].recs, r.name, r.type, vs)]
             touched == {z}
  <2>2. Begin(<<>>, new, touched) /\ z \in local
    BY <1>5, <2>1 DEF RecordRemove
  <2>3. ASSUME NEW y \in local
        PROVE  Made(<<>>, file, y, IF y \in touched THEN new[y] ELSE file[y].recs)
    <3>1. CASE y \in touched
      <4>1. y = z /\ new[y] = Removed(file[y].recs, r.name, r.type, vs)
        BY <1>1, <3>1
      <4>2. Made(<<>>, file, y, Removed(file[y].recs, r.name, r.type, vs))
        <5> DEFINE recs == Removed(file[y].recs, r.name, r.type, vs)
        <5>1. \A s \in file[y].recs : s.type \in {"A", "PTR"} => s \in recs
          BY <1>2 DEF Removed, Matching
        <5>2. \A s \in recs : s.type \in {"A", "PTR"} => s \in file[y].recs
          BY DEF Removed
        <5> HIDE DEF recs
        <5> QED BY <5>1, <5>2, NothingMade DEF recs
      <4> QED BY <3>1, <4>1, <4>2
    <3>2. CASE y \notin touched
      BY <3>2, NothingMade
    <3> QED BY <3>1, <3>2
  <2>4. touched \subseteq local
    BY <2>2
  <2> HIDE DEF new, touched
  <2> QED BY <1>3, <2>2, <2>3, <2>4 DEF Planned
<1> QED BY <1>1, <1>4, <1>5

LEMMA HostAddPlans ==
  ASSUME FileInv, NEW h \in Hosts, NEW addrs \in (SUBSET Addrs) \ {{}}, NEW m \in Metas,
         HostAdd(h, addrs, m)
  PROVE  \E c, new, touched : Begin(c, new, touched) /\ Planned(c, new, touched)
<1> DEFINE c == <<"add", h, addrs, m>>
           more == NewOf(h, addrs, m)
           new == [z \in Zone |-> IF z \in local THEN AddedAll(file[z].recs, more[z]) ELSE {}]
           touched == {z \in local : more[z] # {}}
<1>1. Begin(c, new, touched) /\ AddAccepted(h, addrs, m)
  BY DEF HostAdd
<1>2. Can(c, file)
  BY <1>1, AddCan
<1>3. Known(c)
  <2>1. c[1] = "add" /\ c[2] = h /\ c[3] = addrs /\ c[4] = m
    OBVIOUS
  <2> QED BY <2>1 DEF Known
<1>4. ASSUME NEW z \in local
      PROVE  Made(c, file, z, IF z \in touched THEN new[z] ELSE file[z].recs)
  <2>1. Made(c, file, z, AddedAll(file[z].recs, more[z]))
    BY AddMade
  <2>2. z \in Zone
    BY FileTyped
  <2>3. z \in touched => new[z] = AddedAll(file[z].recs, more[z])
    BY <2>2
  <2>4. z \notin touched => AddedAll(file[z].recs, more[z]) = file[z].recs
    <3> HIDE DEF more
    <3> QED BY DEF AddedAll
  <2> HIDE DEF c, more, new, touched
  <2> QED BY <2>1, <2>3, <2>4
<1>5. ASSUME NEW z \in touched \ ReverseZones
      PROVE  z = ZoneOf[h]
  <2>1. z \in Zone /\ z \in local
    BY FileTyped
  <2>2. \A b \in addrs : z \notin Best(b)
    BY BestFacts
  <2>3. CASE z # ZoneOf[h]
    <3>1. more[z] = {PTRRecord(b, h, m) : b \in {d \in addrs : z \in Best(d)}}
      BY <2>1, <2>3 DEF NewOf
    <3>2. more[z] = {}
      BY <2>2, <3>1
    <3> QED BY <3>2
  <2> QED BY <2>3
<1>6. touched \subseteq local
  OBVIOUS
<1> HIDE DEF c, more, new, touched
<1>7. Planned(c, new, touched)
  BY <1>2, <1>3, <1>4, <1>5, <1>6 DEF Planned
<1> QED BY <1>1, <1>7

LEMMA HostRemovePlans ==
  ASSUME FileInv, NEW h \in Hosts, HostRemove(h)
  PROVE  \E c, new, touched : Begin(c, new, touched) /\ Planned(c, new, touched)
<1> DEFINE c == <<"remove", h>>
           new == [z \in Zone |-> IF z \in local THEN file[z].recs \ Dropped(h, z) ELSE {}]
           touched == {z \in local : Dropped(h, z) # {}}
<1>1. Begin(c, new, touched) /\ RemoveAccepted(h)
  BY DEF HostRemove
<1>2. Can(c, file)
  BY <1>1, RemoveCan DEF FileInv
<1>3. Known(c)
  <2>1. c[1] = "remove" /\ c[2] = h
    OBVIOUS
  <2> QED BY <2>1 DEF Known
<1>4. ASSUME NEW z \in local
      PROVE  Made(c, file, z, IF z \in touched THEN new[z] ELSE file[z].recs)
  <2>1. Made(c, file, z, file[z].recs \ Dropped(h, z))
    BY RemoveMade
  <2>2. z \in Zone
    BY FileTyped
  <2>3. z \in touched => new[z] = file[z].recs \ Dropped(h, z)
    BY <2>2
  <2>4. z \notin touched => file[z].recs \ Dropped(h, z) = file[z].recs
    OBVIOUS
  <2> HIDE DEF c, new, touched
  <2> QED BY <2>1, <2>3, <2>4
<1>5. \A z \in touched \ ReverseZones : z = ZoneOf[h]
  BY DEF Dropped
<1>6. touched \subseteq local
  OBVIOUS
<1> HIDE DEF c, new, touched
<1>7. Planned(c, new, touched)
  BY <1>2, <1>3, <1>4, <1>5, <1>6 DEF Planned
<1> QED BY <1>1, <1>7

LEMMA HostRenamePlans ==
  ASSUME FileInv, NEW h \in Hosts, NEW g \in Hosts, HostRename(h, g)
  PROVE  \E c, new, touched : Begin(c, new, touched) /\ Planned(c, new, touched)
<1> DEFINE c == <<"rename", h, g>>
           more == Moved(h, g)
           new == [z \in Zone |->
                     IF z \in local THEN AddedAll(file[z].recs \ Dropped(h, z), more[z]) ELSE {}]
           touched == {z \in local : Dropped(h, z) \cup more[z] # {}}
<1>1. Begin(c, new, touched) /\ RenameAccepted(h, g)
  BY DEF HostRename
<1>2. Can(c, file) /\ ZoneOf[g] = ZoneOf[h]
  BY <1>1, RenameCan DEF RenameAccepted
<1>3. Known(c)
  <2>1. c[1] = "rename" /\ c[2] = h /\ c[3] = g
    OBVIOUS
  <2> QED BY <2>1 DEF Known
<1>4. ASSUME NEW z \in local
      PROVE  Made(c, file, z, IF z \in touched THEN new[z] ELSE file[z].recs)
  <2>1. Made(c, file, z, AddedAll(file[z].recs \ Dropped(h, z), more[z]))
    BY <1>2, RenameMade
  <2>2. z \in Zone
    BY FileTyped
  <2>3. z \in touched => new[z] = AddedAll(file[z].recs \ Dropped(h, z), more[z])
    BY <2>2
  <2>4. z \notin touched => AddedAll(file[z].recs \ Dropped(h, z), more[z]) = file[z].recs
    <3> HIDE DEF more
    <3> QED BY DEF AddedAll
  <2> HIDE DEF c, more, new, touched
  <2> QED BY <2>1, <2>3, <2>4
<1>5. ASSUME NEW z \in touched \ ReverseZones
      PROVE  z = ZoneOf[h]
  <2>1. z \in Zone /\ z \in local
    BY FileTyped
  <2>2. \A s \in AddressesOf(h) : z \notin Best(s.value)
    <3>1. \A s \in AddressesOf(h) : s.value \in Addrs
      BY HostFacts DEF FileInv, HostHas, HasA, AddressesOf
    <3> QED BY <3>1, BestFacts
  <2>3. CASE z # ZoneOf[h]
    <3>1. more[z] = {PTRRecord(r.value, g, r.meta) :
                       r \in {s \in AddressesOf(h) : z \in Best(s.value)}}
      BY <2>1, <2>3 DEF Moved
    <3>2. more[z] = {}
      BY <2>2, <3>1
    <3>3. Dropped(h, z) = {}
      BY <2>3 DEF Dropped
    <3> HIDE DEF more
    <3> QED BY <3>2, <3>3
  <2> QED BY <2>3
<1>6. touched \subseteq local
  OBVIOUS
<1> HIDE DEF c, more, new, touched
<1>7. Planned(c, new, touched)
  BY <1>2, <1>3, <1>4, <1>5, <1>6 DEF Planned
<1> QED BY <1>1, <1>7

LEMMA CommandPlans ==
  ASSUME FileInv, HostsManaged, RecordCommand \/ HostCommand
  PROVE  \E c, new, touched : Begin(c, new, touched) /\ Planned(c, new, touched)
<1>1. CASE RecordCommand
  BY <1>1, RecordPlans
<1>2. ASSUME NEW h \in Hosts, NEW addrs \in (SUBSET Addrs) \ {{}}, NEW m \in Metas,
             HostAdd(h, addrs, m)
      PROVE  \E c, new, touched : Begin(c, new, touched) /\ Planned(c, new, touched)
  BY <1>2, HostAddPlans
<1>3. ASSUME NEW h \in Hosts, HostRemove(h)
      PROVE  \E c, new, touched : Begin(c, new, touched) /\ Planned(c, new, touched)
  BY <1>3, HostRemovePlans
<1>4. ASSUME NEW h \in Hosts, NEW g \in Hosts, HostRename(h, g)
      PROVE  \E c, new, touched : Begin(c, new, touched) /\ Planned(c, new, touched)
  BY <1>4, HostRenamePlans
<1> QED BY <1>1, <1>2, <1>3, <1>4 DEF HostCommand

\* Zones that agree still do when a command is yet to begin.
LEMMA AgreeWeakens ==
  ASSUME NEW c, NEW f, AgreeBut(<<>>, f)
  PROVE  AgreeBut(c, f)
BY DEF AgreeBut, Ahead, Leaving

\* Names and addresses own records and are their data.
LEMMA NamesOwn ==
  /\ Hosts \subseteq Owners /\ Hosts \subseteq Values /\ Addrs \subseteq Owners
  /\ \A h \in Hosts : ZoneOf[h] \in Zone /\ ZoneOf[h] \notin ReverseZones
BY ZoneAssumption, RecordAssumption

LEMMA KnownHosts ==
  ASSUME NEW c, Known(c), NEW f, NEW h
  PROVE  /\ c # <<>> => c[2] \in Hosts
         /\ Leaving(c, h) => h \in Hosts /\ h = c[2]
         /\ \A a : Ahead(c, f, h, a) => h \in Hosts
         /\ \A a : Ahead(c, f, h, a) /\ Can(c, f) => ZoneOf[h] \in local
<1>1. c # <<>> => c[2] \in Hosts
  BY DEF Known
<1>2. Leaving(c, h) => h \in Hosts /\ h = c[2]
  BY <1>1 DEF Leaving
<1>3. ASSUME NEW a, Ahead(c, f, h, a) PROVE h \in Hosts
  BY <1>3 DEF Known, Ahead
<1>4. ASSUME NEW a, Ahead(c, f, h, a), Can(c, f) PROVE ZoneOf[h] \in local
  BY <1>4 DEF Ahead, Can
<1> QED BY <1>1, <1>2, <1>3, <1>4

\* A command that has made every zone leaves forward and reverse in agreement.
LEMMA Whole ==
  ASSUME local \subseteq Zone, FirstZones \subseteq local,
         NEW c, Known(c), NEW B, NEW f, AgreeBut(c, B), Can(c, B),
         \A z \in Zone : B[z].recs \subseteq Typed,
         \A z \in local : Made(c, B, z, f[z].recs),
         \A z \in Zone \ local : f[z] = B[z]
  PROVE  AgreeBut(<<>>, f)
<1>1. ASSUME NEW h \in Hosts, NEW a \in Owners
      PROVE  HostHas(f, h, a) <=> (HostHas(B, h, a) /\ ~Leaving(c, h)) \/ Ahead(c, B, h, a)
  <2>1. ZoneOf[h] \in Zone
    BY NamesOwn
  <2>2. CASE ZoneOf[h] \in local
    <3>1. Made(c, B, ZoneOf[h], f[ZoneOf[h]].recs)
      BY <2>2
    <3>2. HasA(f[ZoneOf[h]].recs, h, a) <=>
            (HostHas(B, h, a) /\ ~Leaving(c, h)) \/ Ahead(c, B, h, a)
      BY <3>1 DEF Made
    <3> QED BY <3>2 DEF HostHas
  <2>3. CASE ZoneOf[h] \notin local
    <3>1. ~Ahead(c, B, h, a)
      BY <2>3, KnownHosts
    <3>2. ~Leaving(c, h)
      BY <2>3 DEF Leaving, Can
    <3>3. f[ZoneOf[h]] = B[ZoneOf[h]]
      BY <2>1, <2>3
    <3> QED BY <3>1, <3>2, <3>3 DEF HostHas
  <2> QED BY <2>2, <2>3
<1>2. ASSUME NEW z \in local \cap ReverseZones, NEW a \in Owners, NEW h \in Values
      PROVE  HasPTR(f[z].recs, a, h) <=>
               \/ HasPTR(B[z].recs, a, h) /\ ~Leaving(c, h)
               \/ Ahead(c, B, h, a) /\ z \in Best(a)
  <2>1. Made(c, B, z, f[z].recs)
    OBVIOUS
  <2> QED BY <2>1 DEF Made
<1>3. ASSUME NEW z \in local \cap ReverseZones, NEW a \in Owners, NEW h \in Values,
             HasPTR(f[z].recs, a, h)
      PROVE  h \in Hosts /\ HostHas(f, h, a)
  <2>1. CASE HasPTR(B[z].recs, a, h) /\ ~Leaving(c, h)
    <3>1. h \in Hosts /\ (HostHas(B, h, a) \/ Ahead(c, B, h, a))
      BY <2>1 DEF AgreeBut
    <3> QED BY <1>1, <2>1, <3>1
  <2>2. CASE Ahead(c, B, h, a)
    <3>1. h \in Hosts
      BY <2>2, KnownHosts
    <3> QED BY <1>1, <2>2, <3>1
  <2> QED BY <1>2, <1>3, <2>1, <2>2
<1>4. ASSUME NEW h \in Hosts, NEW a \in Addrs, HostHas(f, h, a), Covers[a] \cap FirstZones # {}
      PROVE  \E z \in local \cap ReverseZones : HasPTR(f[z].recs, a, h)
  <2>1. a \in Owners /\ h \in Values
    BY NamesOwn
  <2>2. CASE HostHas(B, h, a) /\ ~Leaving(c, h)
    <3>1. PICK z \in local \cap ReverseZones : HasPTR(B[z].recs, a, h)
      BY <1>4, <2>2 DEF AgreeBut
    <3> QED BY <1>2, <2>1, <2>2, <3>1
  <2>3. CASE Ahead(c, B, h, a)
    <3>1. Covers[a] \cap local # {}
      BY <1>4
    <3>2. PICK z \in Best(a) : TRUE
      BY <3>1, BestThere
    <3>3. z \in local \cap ReverseZones
      BY <3>2, BestFacts
    <3> QED BY <1>2, <2>1, <2>3, <3>2, <3>3
  <2> QED BY <1>1, <1>4, <2>1, <2>2, <2>3
<1> QED BY <1>3, <1>4 DEF AgreeBut, Leaving

\* One that has made some of the reverse zones can still make the rest.
LEMMA Part ==
  ASSUME local \subseteq Zone,
         NEW c, Known(c), NEW B, NEW f, AgreeBut(c, B), Can(c, B),
         \A z \in Zone \ ReverseZones : f[z].recs = B[z].recs,
         \A z \in local \cap ReverseZones :
           f[z].recs = B[z].recs \/ Made(c, B, z, f[z].recs)
  PROVE  AgreeBut(c, f) /\ Can(c, f)
<1>1. \A h \in Hosts : \A a : HostHas(f, h, a) <=> HostHas(B, h, a)
  BY NamesOwn DEF HostHas
<1>2. \A h, a : Ahead(c, f, h, a) <=> Ahead(c, B, h, a)
  BY <1>1, KnownHosts DEF Ahead
<1>3. ASSUME NEW z \in local \cap ReverseZones, NEW a \in Owners, NEW h \in Values
      PROVE  /\ HasPTR(f[z].recs, a, h) => HasPTR(B[z].recs, a, h) \/ Ahead(c, B, h, a)
             /\ HasPTR(B[z].recs, a, h) /\ ~Leaving(c, h) => HasPTR(f[z].recs, a, h)
  <2>1. CASE f[z].recs = B[z].recs
    BY <2>1
  <2>2. CASE Made(c, B, z, f[z].recs)
    BY <2>2 DEF Made
  <2> QED BY <2>1, <2>2
<1>4. ASSUME NEW z \in local \cap ReverseZones, NEW a \in Owners, NEW h \in Values,
             HasPTR(f[z].recs, a, h)
      PROVE  h \in Hosts /\ (HostHas(f, h, a) \/ Ahead(c, f, h, a))
  <2>1. CASE HasPTR(B[z].recs, a, h)
    BY <1>1, <1>2, <2>1 DEF AgreeBut
  <2>2. CASE Ahead(c, B, h, a)
    BY <1>2, <2>2, KnownHosts
  <2> QED BY <1>3, <1>4, <2>1, <2>2
<1>5. ASSUME NEW h \in Hosts, NEW a \in Addrs, HostHas(f, h, a), Covers[a] \cap FirstZones # {},
             ~Leaving(c, h)
      PROVE  \E z \in local \cap ReverseZones : HasPTR(f[z].recs, a, h)
  <2>1. PICK z \in local \cap ReverseZones : HasPTR(B[z].recs, a, h)
    BY <1>1, <1>5 DEF AgreeBut
  <2>2. a \in Owners /\ h \in Values
    BY NamesOwn
  <2> QED BY <1>3, <1>5, <2>1, <2>2
<1>6. AgreeBut(c, f)
  BY <1>4, <1>5 DEF AgreeBut
<1>7. ASSUME c # <<>>, NEW z \in local, NEW n \in Owners
      PROVE  HasCname(f[z].recs, n) <=> HasCname(B[z].recs, n)
  <2>1. CASE f[z].recs = B[z].recs
    BY <2>1
  <2>2. CASE Made(c, B, z, f[z].recs)
    BY <1>7, <2>2 DEF Made
  <2> QED BY <2>1, <2>2
<1>8. ASSUME c # <<>>, NEW a \in Addrs
      PROVE  Free(f, a) <=> Free(B, a)
  <2>1. Best(a) \subseteq local /\ a \in Owners
    BY BestFacts, NamesOwn
  <2> QED BY <1>7, <1>8, <2>1 DEF Free
<1>9. Can(c, f)
  <2>1. SUFFICES ASSUME c # <<>> PROVE Can(c, f)
    BY DEF Can
  <2>2. c[2] \in Hosts /\ c[2] \in Owners /\ ZoneOf[c[2]] \in local
    BY <2>1, KnownHosts, NamesOwn DEF Can
  <2>3. HasCname(f[ZoneOf[c[2]]].recs, c[2]) <=> HasCname(B[ZoneOf[c[2]]].recs, c[2])
    BY <1>7, <2>1, <2>2
  <2>4. CASE c[1] = "add"
    <3>1. c[3] \subseteq Addrs
      BY <2>1, <2>4 DEF Known
    <3> QED BY <1>8, <2>1, <2>2, <2>3, <2>4, <3>1 DEF Can
  <2>5. CASE c[1] = "remove"
    BY <1>1, <2>1, <2>2, <2>5 DEF Can
  <2>6. CASE c[1] = "rename"
    <3>1. c[3] \in Hosts /\ c[3] \in Owners
      BY <2>1, <2>6, NamesOwn DEF Known
    <3>2. ZoneOf[c[3]] = ZoneOf[c[2]]
      BY <2>1, <2>6 DEF Can
    <3>3. HasCname(f[ZoneOf[c[3]]].recs, c[3]) <=> HasCname(B[ZoneOf[c[3]]].recs, c[3])
      BY <1>7, <2>1, <2>2, <3>1, <3>2
    <3> QED BY <1>1, <1>8, <2>1, <2>2, <2>6, <3>2, <3>3 DEF Can
  <2> QED BY <2>1, <2>4, <2>5, <2>6 DEF Known
<1> QED BY <1>6, <1>9

-----------------------------------------------------------------------------
\* AgreeInv is inductive, where reverse zones come first.

LEMMA SameZones ==
  ASSUME local' = local
  PROVE  /\ AgreeBut(torn, file)' <=> AgreeBut(torn', file')
         /\ AgreeBut(<<>>, file)' <=> AgreeBut(<<>>, file')
         /\ Can(torn, file)' <=> Can(torn', file')
         /\ AgreeBut(torn, before)' <=> AgreeBut(torn', before')
         /\ Can(running, before)' <=> Can(running', before')
         /\ \A z : Made(running, before, z, mem[z])' <=> Made(running', before', z, mem'[z])
         /\ \A z : Made(running, before, z, file[z].recs)' <=>
                     Made(running', before', z, file'[z].recs)
<1>1. /\ AgreeBut(torn, file)' <=> AgreeBut(torn', file')
      /\ AgreeBut(<<>>, file)' <=> AgreeBut(<<>>, file')
      /\ AgreeBut(torn, before)' <=> AgreeBut(torn', before')
  BY DEF AgreeBut
<1>2. \A a : Best(a)' = Best(a)
  BY DEF Best
<1>3. /\ Can(torn, file)' <=> Can(torn', file')
      /\ Can(running, before)' <=> Can(running', before')
  BY <1>2 DEF Can, Free
<1>4. \A z : Made(running, before, z, mem[z])' <=> Made(running', before', z, mem'[z])
  BY <1>2 DEF Made
<1>5. \A z : Made(running, before, z, file[z].recs)' <=>
               Made(running', before', z, file'[z].recs)
  BY <1>2 DEF Made
<1> QED BY <1>1, <1>3, <1>4, <1>5

\* Lost is no command that can be repeated.
LEMMA LostUnknown ==
  ASSUME NEW c, Known(c)
  PROVE  c # Lost
<1>1. Lost[1] = "lost" /\ Lost # <<>>
  BY DEF Lost
<1> QED BY <1>1 DEF Known

LEMMA BeginAgrees ==
  ASSUME AgreeInv, NEW c, NEW new, NEW touched, Begin(c, new, touched),
         Planned(c, new, touched), FileInv
  PROVE  AgreeInv'
<1>1. /\ pc = "idle" /\ local' = local /\ file' = file /\ before' = file /\ todo' = touched
      /\ done' = {} /\ pc' = (IF touched = {} THEN "idle" ELSE "save")
      /\ running' = c /\ torn' = (IF torn \in {<<>>, c} THEN torn ELSE Lost)
      /\ killed' = killed
  BY DEF Begin
<1>2. \A z \in touched : mem'[z] = new[z]
  <2>1. mem' = [z \in Zone |-> IF z \in touched THEN new[z] ELSE {}]
    BY DEF Begin
  <2>2. touched \subseteq Zone
    BY FileTyped DEF Planned
  <2> QED BY <2>1, <2>2
<1>3. (FirstZones \subseteq local)' /\ Kills' /\ Known(running)' /\ (Known(torn) \/ torn = Lost)'
  BY <1>1 DEF AgreeInv, Planned, Kills, Known, Lost
<1>4. ASSUME torn' # Lost, Repairable'
      PROVE  torn' = torn /\ torn \in {<<>>, c} /\ torn # Lost
  BY <1>1, <1>4
<1>5. ASSUME torn' # Lost, Repairable'
      PROVE  AgreeBut(torn', file) /\ (Can(torn', file) \/ AgreeBut(<<>>, file))
  BY <1>1, <1>4, <1>5 DEF AgreeInv, Repairable
<1>6. ASSUME torn' # Lost, Repairable', pc' = "idle"
      PROVE  AgreeBut(torn, file)' /\ (Can(torn, file)' \/ AgreeBut(<<>>, file)')
  BY <1>1, <1>5, <1>6, SameZones
<1>7. ASSUME torn' # Lost, Repairable', pc' # "idle"
      PROVE  (torn \in {<<>>, running})' /\ AgreeBut(torn, before)' /\ Can(running, before)'
  BY <1>1, <1>4, <1>5, <1>7, SameZones DEF Planned
<1>8. ASSUME pc' # "idle"
      PROVE  Making'
  <2>1. pc' = "save"
    BY <1>1, <1>8
  <2>2. \A z : ~Saved(z)'
    BY <1>1, <2>1 DEF Saved
  <2>3. ASSUME NEW z \in local
        PROVE  /\ z \in todo' => Made(running', before', z, mem'[z])
               /\ z \notin todo' => Made(running', before', z, file'[z].recs)
    BY <1>1, <1>2 DEF Planned
  <2>4. running' # <<>> => done' \subseteq ReverseZones /\ \A y, z \in todo' \ ReverseZones : y = z
    BY <1>1 DEF Planned
  <2> QED BY <1>1, <2>2, <2>3, <2>4, SameZones DEF Making
<1> QED BY <1>3, <1>6, <1>7, <1>8 DEF AgreeInv

LEMMA ZoneAddAgrees ==
  ASSUME FileInv, AgreeInv, NEW z \in Zone, ZoneAdd(z)
  PROVE  AgreeInv'
<1>1. /\ pc = "idle" /\ z \notin local /\ file[z] = Absent /\ local' = local \cup {z}
      /\ file' = [file EXCEPT ![z] = Created(z, clock)]
      /\ UNCHANGED <<pc, running, torn, killed>>
  BY DEF ZoneAdd, command
<1> DEFINE made == Created(z, clock).recs
<1>2. file'[z].recs = made /\ file[z].recs = {} /\ \A y \in Zone \ {z} : file'[y] = file[y]
  BY <1>1 DEF FileInv, IInv, Fcns, Absent
<1>3. \A h, a : ~HasA(made, h, a) /\ ~HasPTR(made, a, h) /\ ~HasCname(made, h)
  BY DEF Created, HasA, HasPTR, HasCname
<1> HIDE DEF made
<1>4. \A h \in Hosts : \A a : HostHas(file', h, a) <=> HostHas(file, h, a)
  <2>1. ASSUME NEW h \in Hosts, NEW a PROVE HostHas(file', h, a) <=> HostHas(file, h, a)
    <3>1. CASE ZoneOf[h] = z
      BY <1>2, <1>3, <3>1 DEF HostHas, HasA
    <3>2. CASE ZoneOf[h] # z
      BY <1>2, <3>2, NamesOwn DEF HostHas
    <3> QED BY <3>1, <3>2
  <2> QED BY <2>1
<1>5. local \subseteq Zone
  BY DEF FileInv, Places
<1>6. ASSUME NEW c, Known(c), AgreeBut(c, file)
      PROVE  AgreeBut(c, file)'
  <2>1. \A h, a : Ahead(c, file', h, a) <=> Ahead(c, file, h, a)
    BY <1>4, <1>6, KnownHosts DEF Ahead
  <2>2. ASSUME NEW y \in local' \cap ReverseZones, NEW a \in Owners, NEW h \in Values,
               HasPTR(file'[y].recs, a, h)
        PROVE  h \in Hosts /\ (HostHas(file', h, a) \/ Ahead(c, file', h, a))
    <3>1. y # z
      BY <1>2, <1>3, <2>2
    <3>2. y \in local \cap ReverseZones /\ file'[y] = file[y]
      BY <1>1, <1>2, <1>5, <3>1
    <3>3. h \in Hosts /\ (HostHas(file, h, a) \/ Ahead(c, file, h, a))
      BY <1>6, <2>2, <3>2 DEF AgreeBut
    <3> QED BY <1>4, <2>1, <3>3
  <2>3. ASSUME NEW h \in Hosts, NEW a \in Addrs, HostHas(file', h, a),
               Covers[a] \cap FirstZones # {}, ~Leaving(c, h)
        PROVE  \E y \in local' \cap ReverseZones : HasPTR(file'[y].recs, a, h)
    <3>1. PICK y \in local \cap ReverseZones : HasPTR(file[y].recs, a, h)
      BY <1>4, <1>6, <2>3 DEF AgreeBut
    <3>2. y # z /\ y \in Zone /\ y \in local'
      BY <1>1, <1>5
    <3> QED BY <1>2, <3>1, <3>2
  <2> QED BY <2>2, <2>3 DEF AgreeBut
<1>7. ASSUME NEW c, Known(c), Can(c, file)
      PROVE  Can(c, file)'
  <2>1. ASSUME NEW a \in Addrs, Free(file, a)
        PROVE  Free(file, a)'
    <3>1. ASSUME NEW y \in Best(a)', y # z
          PROVE  y \in Best(a) /\ file'[y] = file[y]
      BY <1>1, <1>2, <1>5, <3>1 DEF Best
    <3>2. ASSUME NEW y \in Best(a)'
          PROVE  ~HasCname(file'[y].recs, a)
      <4>1. CASE y = z
        BY <1>2, <1>3, <4>1
      <4>2. CASE y # z
        BY <2>1, <3>1, <4>2 DEF Free
      <4> QED BY <4>1, <4>2
    <3> QED BY <3>2 DEF Free
  <2>2. SUFFICES ASSUME c # <<>> PROVE Can(c, file)'
    BY DEF Can
  <2>3. c[2] \in Hosts /\ ZoneOf[c[2]] \in local /\ ZoneOf[c[2]] \in local'
    BY <1>1, <1>7, <2>2, KnownHosts DEF Can
  <2>4. file'[ZoneOf[c[2]]] = file[ZoneOf[c[2]]]
    BY <1>1, <1>2, <1>5, <2>3
  <2>5. CASE c[1] = "add"
    <3>1. c[3] \subseteq Addrs
      BY <1>7, <2>2, <2>5 DEF Known
    <3> QED BY <1>7, <2>1, <2>2, <2>3, <2>4, <2>5, <3>1 DEF Can
  <2>6. CASE c[1] = "remove"
    BY <1>4, <1>7, <2>2, <2>3, <2>6 DEF Can
  <2>7. CASE c[1] = "rename"
    <3>1. ZoneOf[c[3]] = ZoneOf[c[2]]
      BY <1>7, <2>2, <2>7 DEF Can
    <3> QED BY <1>4, <1>7, <2>1, <2>2, <2>3, <2>4, <2>7, <3>1 DEF Can
  <2> QED BY <1>7, <2>2, <2>5, <2>6, <2>7 DEF Known
<1>8. Known(<<>>)
  BY DEF Known
<1>9. (FirstZones \subseteq local)' /\ Kills' /\ Known(running)' /\ (Known(torn) \/ torn = Lost)'
  BY <1>1 DEF AgreeInv, Kills, Known, Lost
<1>10. ASSUME torn # Lost, Repairable
       PROVE  /\ Known(torn) /\ AgreeBut(torn, file)
              /\ Can(torn, file) \/ AgreeBut(<<>>, file)
  BY <1>1, <1>10 DEF AgreeInv, Repairable
<1>11. ASSUME torn' # Lost, Repairable'
       PROVE  /\ AgreeBut(torn, file)'
              /\ Can(torn, file)' \/ AgreeBut(<<>>, file)'
  <2>1. torn # Lost /\ Repairable
    BY <1>1, <1>11 DEF Repairable
  <2>2. AgreeBut(torn, file)'
    BY <1>1, <1>6, <1>10, <2>1 DEF AgreeBut
  <2>3. CASE Can(torn, file)
    <3>1. PICK c : c = torn
      OBVIOUS
    <3>2. Can(c, file)'
      BY <1>7, <1>10, <2>1, <2>3, <3>1
    <3>3. torn' = c
      BY <1>1, <3>1
    <3> QED BY <2>2, <3>2, <3>3 DEF Can
  <2>4. CASE AgreeBut(<<>>, file)
    <3>1. PICK c : c = <<>>
      OBVIOUS
    <3>2. AgreeBut(c, file)'
      BY <1>6, <1>8, <2>4, <3>1
    <3> QED BY <2>2, <3>1, <3>2 DEF AgreeBut
  <2> QED BY <1>10, <2>1, <2>2, <2>3, <2>4
<1> QED BY <1>1, <1>9, <1>11 DEF AgreeInv


LEMMA StaysMidway ==
  ASSUME AgreeInv, pc # "idle", pc' # "idle", Making => Making',
         UNCHANGED <<local, before, running, torn, killed>>
  PROVE  AgreeInv'
<1>1. (FirstZones \subseteq local)' /\ Kills' /\ Known(running)' /\ (Known(torn) \/ torn = Lost)'
  BY DEF AgreeInv, Kills, Known, Lost
<1>2. ASSUME torn' # Lost, Repairable'
      PROVE  (torn \in {<<>>, running})' /\ AgreeBut(torn, before)' /\ Can(running, before)' /\ Making'
  <2>1. torn \in {<<>>, running} /\ AgreeBut(torn, before) /\ Can(running, before) /\ Making
    BY <1>2 DEF AgreeInv, Repairable
  <2>2. AgreeBut(torn', before') /\ Can(running', before')
    BY <2>1
  <2> QED BY <2>1, <2>2, SameZones
<1> QED BY <1>1, <1>2 DEF AgreeInv

LEMMA SaveAgrees ==
  ASSUME FileInv, AgreeInv, NEW z \in Zone, Save(z)
  PROVE  AgreeInv'
<1>1. /\ pc = "save" /\ First(z, todo) /\ pc' = "activate"
      /\ file' = [file EXCEPT ![z] =
                    [serial |-> NextSerial(file[z].serial, clock), recs |-> mem[z]]]
      /\ UNCHANGED <<local, mem, todo, done, before, running, torn, killed>>
  BY DEF Save, history
<1>2. z \in todo /\ z \in local /\ todo \cap done = {} /\ todo \subseteq Zone /\ local \subseteq Zone
  BY <1>1 DEF First, FileInv, IInv, Sets, Places
<1>3. file'[z].recs = mem[z] /\ \A y \in Zone \ {z} : file'[y] = file[y]
  BY <1>1 DEF FileInv, IInv, Fcns
<1>4. ASSUME Making PROVE Making'
  <2>1. ASSUME NEW y \in local, Saved(y)' \/ y \notin todo
        PROVE  Made(running, before, y, file'[y].recs)
    <3>1. CASE y = z
      BY <1>2, <1>3, <1>4, <3>1 DEF Making
    <3>2. CASE y # z
      <4>1. Saved(y) \/ y \notin todo
        BY <1>1, <1>2, <2>1, <3>2, FirstUnique DEF Saved
      <4>2. file'[y] = file[y]
        BY <1>2, <1>3, <3>2
      <4> QED BY <1>1, <1>4, <4>1, <4>2 DEF Making
    <3> QED BY <3>1, <3>2
  <2>2. \A y \in local : y \in todo => Made(running, before, y, mem[y])
    BY <1>4 DEF Making
  <2>3. running # <<>> => /\ ReverseFirst => done \subseteq ReverseZones
                          /\ \A x, y \in todo \ ReverseZones : x = y
    BY <1>4 DEF Making
  <2> QED BY <1>1, <2>1, <2>2, <2>3, SameZones DEF Making
<1> QED BY <1>1, <1>4, StaysMidway

\* A step that leaves the files as they are and saves no other.
LEMMA StillMaking ==
  ASSUME Making, pc' = "takeBack" \/ (pc' # "takeBack" /\ pc # "takeBack"),
         \A y : Saved(y)' => Saved(y),
         \A y \in local : Saved(y)' \/ pc' # "takeBack" => file'[y].recs = file[y].recs,
         UNCHANGED <<local, mem, todo, before, running>>, done' \subseteq done
  PROVE  Making'
<1>1. ASSUME NEW y \in local, Saved(y)' \/ (y \notin todo /\ pc' # "takeBack")
      PROVE  Made(running, before, y, file'[y].recs)
  <2>1. Saved(y) \/ (y \notin todo /\ pc # "takeBack")
    BY <1>1
  <2>2. file'[y].recs = file[y].recs
    BY <1>1
  <2> QED BY <2>1, <2>2 DEF Making
<1>2. \A y \in local : y \in todo => Made(running, before, y, mem[y])
  BY DEF Making
<1>3. running # <<>> => /\ ReverseFirst => done' \subseteq ReverseZones
                        /\ \A x, y \in todo \ ReverseZones : x = y
  BY DEF Making
<1> QED BY <1>1, <1>2, <1>3, SameZones DEF Making

LEMMA HoldingAgrees ==
  ASSUME FileInv, AgreeInv, NEW z \in Zone, SaveFails(z) \/ Reload(z) \/ VerifyFails(z)
  PROVE  AgreeInv'
<1>1. /\ pc # "idle" /\ pc' # "idle"
      /\ \/ pc' = "takeBack"
         \/ pc \in {"activate", "verify"} /\ pc' \in {"verify", "undo"}
      /\ UNCHANGED <<local, file, mem, todo, done, before, running, torn, killed>>
  BY DEF SaveFails, Reload, VerifyFails, disk, history
<1>2. \A y : Saved(y)' => Saved(y)
  BY <1>1 DEF Saved
<1>3. Making => Making'
  BY <1>1, <1>2, StillMaking
<1> QED BY <1>1, <1>3, StaysMidway

LEMMA UndoAgrees ==
  ASSUME FileInv, AgreeInv, NEW z \in Zone, Undo(z) \/ TakeBack(z)
  PROVE  AgreeInv'
<1>1. /\ pc # "idle" /\ pc' = "takeBack" /\ done' \subseteq done /\ z \notin done'
      /\ file' = [file EXCEPT ![z] = prev[z]]
      /\ UNCHANGED <<local, mem, todo, before, running, torn, killed>>
  BY DEF Undo, TakeBack, UndoZone, RolledBack, history, First, FileInv, IInv, Sets
<1>2. \A y : Saved(y)' => Saved(y) /\ y # z
  BY <1>1 DEF Saved
<1>3. \A y \in local : Saved(y)' => file'[y].recs = file[y].recs
  BY <1>1, <1>2 DEF FileInv, IInv, Fcns, Places
<1>4. Making => Making'
  BY <1>1, <1>2, <1>3, StillMaking
<1> QED BY <1>1, <1>4, StaysMidway

\* The forward zone is the last of a host command.
LEMMA ForwardLast ==
  ASSUME ReverseFirst, FileInv, Making, running # <<>>,
         NEW z, First(z, todo), z \notin ReverseZones
  PROVE  todo = {z}
<1>1. z \in todo /\ todo \subseteq Zone
  BY DEF First, FileInv, IInv, Sets
<1>2. ASSUME NEW y \in todo PROVE y = z
  <2>1. CASE y \in ReverseZones
    <3>1. Rank[y] < Rank[z] /\ Rank[z] <= Rank[y]
      BY <1>1, <2>1 DEF ReverseFirst, First
    <3>2. Rank[y] \in Nat /\ Rank[z] \in Nat
      BY <1>1, RankAssumption
    <3> QED BY <3>1, <3>2
  <2>2. CASE y \notin ReverseZones
    BY <1>1, <2>2 DEF Making
  <2> QED BY <2>1, <2>2
<1> QED BY <1>1, <1>2

\* Every zone is made: forward and reverse agree.
LEMMA AllMade ==
  ASSUME FileInv, AgreeInv, pc # "idle", torn # Lost, Repairable,
         \A z \in local : Made(running, before, z, file[z].recs)
  PROVE  AgreeBut(<<>>, file)
<1>1. /\ local \subseteq Zone /\ FirstZones \subseteq local /\ Known(running)
      /\ AgreeBut(torn, before) /\ Can(running, before) /\ torn \in {<<>>, running}
  BY DEF FileInv, Places, AgreeInv
<1>2. AgreeBut(running, before)
  BY <1>1, AgreeWeakens
<1>3. \A z \in Zone : before[z].recs \subseteq Typed
  BY DEF FileInv, FilesTyped, ZoneFile
<1>4. \A z \in Zone \ local : ~Saved(z)
  BY DEF Saved, First, FileInv, Places
<1>5. \A z \in Zone \ local : file[z] = before[z]
  BY <1>4 DEF FileInv, IInv, CanUndo
<1> QED BY <1>1, <1>2, <1>3, <1>5, Whole

LEMMA CommitAgrees ==
  ASSUME FileInv, AgreeInv, NEW z \in Zone, ActivateStopped(z) \/ Verify(z)
  PROVE  AgreeInv'
<1>1. /\ pc \in {"activate", "verify"} /\ First(z, todo) /\ z \in todo
      /\ done' = done \cup {z} /\ todo' = todo \ {z}
      /\ UNCHANGED <<local, file, mem, before, running, killed>>
  BY DEF ActivateStopped, Verify, Commit, disk, First
<1>2. Saved(z) /\ \A y \in done : Saved(y)
  BY <1>1 DEF Saved
<1>3. CASE todo' # {}
  <2>1. pc' = "save" /\ torn' = torn
    BY <1>3 DEF ActivateStopped, Verify, Commit
  <2>2. ASSUME Making PROVE Making'
    <3>1. ASSUME NEW y \in local, Saved(y)' \/ y \notin todo'
          PROVE  Made(running, before, y, file[y].recs)
      <4>1. Saved(y) \/ y \notin todo
        BY <1>1, <1>2, <2>1, <3>1 DEF Saved
      <4> QED BY <1>1, <2>2, <4>1 DEF Making
    <3>2. \A y \in local : y \in todo' => Made(running, before, y, mem[y])
      BY <1>1, <2>2 DEF Making
    <3>3. running # <<>> /\ ReverseFirst => z \in ReverseZones
      BY <1>1, <1>3, <2>2, ForwardLast
    <3>4. running # <<>> => /\ ReverseFirst => done' \subseteq ReverseZones
                            /\ \A x, y \in todo' \ ReverseZones : x = y
      BY <1>1, <2>2, <3>3 DEF Making
    <3> QED BY <1>1, <3>1, <3>2, <3>4, SameZones DEF Making
  <2> QED BY <1>1, <2>1, <2>2, StaysMidway
<1>4. CASE todo' = {}
  <2>1. pc' = "idle" /\ torn' = IF running = torn THEN <<>> ELSE torn
    BY <1>4 DEF ActivateStopped, Verify, Commit
  <2>2. Known(<<>>) /\ Known(running) /\ running # Lost
    BY LostUnknown DEF Known, AgreeInv
  <2>3. (FirstZones \subseteq local)' /\ Kills' /\ Known(running)' /\ (Known(torn) \/ torn = Lost)'
    BY <1>1, <2>1, <2>2 DEF AgreeInv, Kills, Known, Lost
  <2>4. ASSUME torn' # Lost, Repairable'
        PROVE  AgreeBut(torn, file)' /\ AgreeBut(<<>>, file)'
    <3>1. /\ torn # Lost /\ Repairable /\ torn \in {<<>>, running}
          /\ torn' = <<>> /\ Making
      <4>1. torn # Lost
        BY <2>1, <2>2, <2>4
      <4> QED BY <1>1, <2>1, <2>4, <4>1 DEF AgreeInv, Repairable
    <3>2. \A y \in local : Made(running, before, y, file[y].recs)
      BY <1>1, <1>2, <1>4, <3>1 DEF Making
    <3>3. AgreeBut(<<>>, file)
      BY <1>1, <3>1, <3>2, AllMade
    <3> QED BY <1>1, <3>1, <3>3, SameZones
  <2> QED BY <2>1, <2>3, <2>4 DEF AgreeInv
<1> QED BY <1>3, <1>4

LEMMA FailAgrees ==
  ASSUME FileInv, AgreeInv, Fail
  PROVE  AgreeInv'
<1>1. /\ pc = "takeBack" /\ done = {} /\ pc' = "idle"
      /\ UNCHANGED <<local, file, before, running, torn, killed>>
  BY DEF Fail, disk
<1>2. \A z \in Zone : ~Saved(z)
  BY <1>1 DEF Saved
<1>3. \A z \in Zone : file[z] = before[z]
  BY <1>1, <1>2 DEF FileInv, IInv, CanUndo
<1>4. file = before
  BY <1>3 DEF FileInv, IInv, Fcns
<1>5. (FirstZones \subseteq local)' /\ Kills' /\ Known(running)' /\ (Known(torn) \/ torn = Lost)'
  BY <1>1 DEF AgreeInv, Kills, Known, Lost
<1>6. ASSUME torn' # Lost, Repairable'
      PROVE  AgreeBut(torn, file)' /\ Can(torn, file)'
  <2>1. torn \in {<<>>, running} /\ AgreeBut(torn, file) /\ Can(running, file)
    BY <1>1, <1>4, <1>6 DEF AgreeInv, Repairable
  <2>2. Can(torn, file)
    BY <2>1 DEF Can
  <2>3. torn' = torn /\ file' = file
    BY <1>1
  <2> QED BY <1>1, <2>1, <2>2, <2>3, SameZones
<1> QED BY <1>1, <1>5, <1>6 DEF AgreeInv

LEMMA KillAgrees ==
  ASSUME FileInv, AgreeInv, Kill
  PROVE  AgreeInv'
<1>1. /\ pc # "idle" /\ pc' = "idle" /\ killed' = killed + 1
      /\ torn' = (IF torn = <<>> THEN running ELSE torn)
      /\ UNCHANGED <<local, file, before, running>>
  BY DEF Kill, disk
<1>2. (FirstZones \subseteq local)' /\ Kills' /\ Known(running)' /\ (Known(torn) \/ torn = Lost)'
  BY <1>1 DEF AgreeInv, Kills, Known, Lost
<1>3. ASSUME torn' # Lost, Repairable'
      PROVE  AgreeBut(torn, file)' /\ (Can(torn, file)' \/ AgreeBut(<<>>, file)')
  <2>1. torn # Lost /\ ReverseFirst /\ Repairable
    <3>1. killed \in Nat
      BY DEF AgreeInv, Kills
    <3>2. killed' # 0
      BY <1>1, <3>1
    <3> QED BY <1>1, <1>3, <3>2 DEF Lost, Repairable
  <2>2. /\ torn \in {<<>>, running} /\ AgreeBut(torn, before) /\ Can(running, before) /\ Making
        /\ Known(running) /\ torn' = running
    BY <1>1, <2>1 DEF AgreeInv
  <2>3. AgreeBut(running, before)
    BY <2>2, AgreeWeakens
  <2>4. \A z \in Zone : ~Saved(z) => file[z] = before[z]
    BY <1>1 DEF FileInv, IInv, CanUndo
  <2>5. local \subseteq Zone
    BY DEF FileInv, Places
  <2>6. ASSUME AgreeBut(<<>>, file)
        PROVE  AgreeBut(torn', file') /\ AgreeBut(<<>>, file')
    BY <1>1, <2>2, <2>6, AgreeWeakens
  <2>7. CASE running = <<>>
    <3>1. ASSUME NEW z \in local PROVE Made(running, before, z, file[z].recs)
      <4>1. CASE Saved(z)
        BY <2>2, <4>1 DEF Making
      <4>2. CASE ~Saved(z)
        <5>1. file[z].recs = before[z].recs
          BY <2>4, <2>5, <4>2
        <5> QED BY <2>7, <5>1, NothingMade
      <4> QED BY <4>1, <4>2
    <3> QED BY <1>1, <2>1, <2>6, <3>1, AllMade, SameZones
  <2>8. CASE running # <<>> /\ \E z \in Zone \ ReverseZones : Saved(z)
    <3>1. PICK z \in Zone \ ReverseZones : Saved(z)
      BY <2>8
    <3>2. pc \in {"activate", "verify", "undo"} /\ First(z, todo)
      BY <2>1, <2>2, <2>8, <3>1 DEF Saved, Making
    <3>3. todo = {z}
      BY <2>1, <2>2, <2>8, <3>1, <3>2, ForwardLast
    <3>4. \A y \in local : Made(running, before, y, file[y].recs)
      BY <2>2, <3>1, <3>2, <3>3 DEF Making
    <3> QED BY <1>1, <2>1, <2>6, <3>4, AllMade, SameZones
  <2>9. CASE running # <<>> /\ ~\E z \in Zone \ ReverseZones : Saved(z)
    <3>1. \A z \in Zone \ ReverseZones : file[z].recs = before[z].recs
      BY <2>4, <2>9
    <3>2. \A z \in local \cap ReverseZones :
            file[z].recs = before[z].recs \/ Made(running, before, z, file[z].recs)
      BY <2>2, <2>4, <2>5 DEF Making
    <3>3. AgreeBut(running, file) /\ Can(running, file)
      BY <2>2, <2>3, <2>5, <3>1, <3>2, Part
    <3>4. AgreeBut(torn', file') /\ Can(torn', file')
      BY <1>1, <2>2, <3>3
    <3> QED BY <1>1, <3>4, SameZones
  <2> QED BY <2>7, <2>8, <2>9
<1> QED BY <1>1, <1>2, <1>3 DEF AgreeInv

LEMMA RestAgrees ==
  ASSUME AgreeInv, UNCHANGED <<local, file, pc, mem, todo, done, before, running, torn, killed>>
  PROVE  AgreeInv'
<1>1. (FirstZones \subseteq local)' /\ Kills' /\ Known(running)' /\ (Known(torn) \/ torn = Lost)'
  BY DEF AgreeInv, Kills, Known, Lost
<1>2. \A y : Saved(y)' <=> Saved(y)
  BY DEF Saved
<1>3. Making => Making'
  BY <1>2, SameZones DEF Making
<1>4. CASE pc = "idle"
  <2>1. ASSUME torn' # Lost, Repairable'
        PROVE  AgreeBut(torn, file)' /\ (Can(torn, file)' \/ AgreeBut(<<>>, file)')
    <3>1. AgreeBut(torn, file) /\ (Can(torn, file) \/ AgreeBut(<<>>, file))
      BY <1>4, <2>1 DEF AgreeInv, Repairable
    <3>2. torn' = torn /\ file' = file
      OBVIOUS
    <3> QED BY <3>1, <3>2, SameZones
  <2> QED BY <1>1, <1>4, <2>1 DEF AgreeInv
<1>5. CASE pc # "idle"
  BY <1>3, <1>5, StaysMidway
<1> QED BY <1>4, <1>5

LEMMA AgreeInitially ==
  ASSUME HostsManaged
  PROVE  Init => AgreeInv
<1> SUFFICES ASSUME Init PROVE AgreeInv
  OBVIOUS
<1>1. local = FirstZones /\ pc = "idle" /\ running = <<>> /\ torn = <<>> /\ killed = 0
  BY DEF Init
<1>2. ASSUME NEW z \in Zone, NEW h, NEW a
      PROVE  /\ HasA(file[z].recs, h, a) <=> z \in FirstZones /\ HasA(FirstRecs[z], h, a)
             /\ z \in FirstZones => (HasPTR(file[z].recs, a, h) <=> HasPTR(FirstRecs[z], a, h))
  <2>1. \A r \in Created(z, clock).recs : r.type \notin {"A", "PTR"}
    BY DEF Created
  <2>2. CASE z \in FirstZones
    <3>1. file[z].recs = Created(z, clock).recs \cup FirstRecs[z]
      BY <2>2 DEF Init, Created
    <3> QED BY <2>1, <2>2, <3>1 DEF HasA, HasPTR
  <2>3. CASE z \notin FirstZones
    <3>1. file[z].recs = {}
      BY <2>3 DEF Init, Absent
    <3> QED BY <2>3, <3>1 DEF HasA
  <2> QED BY <2>2, <2>3
<1>3. \A h \in Hosts : \A a : HostHas(file, h, a) <=>
                                ZoneOf[h] \in FirstZones /\ HasA(FirstRecs[ZoneOf[h]], h, a)
  BY <1>2, NamesOwn DEF HostHas
<1>4. FirstZones \subseteq Zone
  BY ZoneAssumption
<1>5. ASSUME NEW z \in local \cap ReverseZones, NEW a \in Owners, NEW h \in Values,
             HasPTR(file[z].recs, a, h)
      PROVE  h \in Hosts /\ HostHas(file, h, a)
  <2>1. HasPTR(FirstRecs[z], a, h) /\ z \in FirstZones \cap ReverseZones
    BY <1>1, <1>2, <1>4, <1>5
  <2>2. h \in Hosts /\ ZoneOf[h] \in FirstZones /\ HasA(FirstRecs[ZoneOf[h]], h, a)
    BY <2>1 DEF HostsManaged
  <2> QED BY <1>3, <2>2
<1>6. ASSUME NEW h \in Hosts, NEW a \in Addrs, HostHas(file, h, a), Covers[a] \cap FirstZones # {}
      PROVE  \E z \in local \cap ReverseZones : HasPTR(file[z].recs, a, h)
  <2>1. ZoneOf[h] \in FirstZones /\ HasA(FirstRecs[ZoneOf[h]], h, a)
    BY <1>3, <1>6
  <2>2. PICK z \in FirstZones \cap ReverseZones : HasPTR(FirstRecs[z], a, h)
    BY <1>6, <2>1 DEF HostsManaged
  <2> QED BY <1>1, <1>2, <1>4, <2>2
<1>7. AgreeBut(<<>>, file)
  BY <1>5, <1>6 DEF AgreeBut
<1> QED BY <1>1, <1>7 DEF AgreeInv, Kills, Known

LEMMA AgreeKept ==
  ASSUME HostsManaged
  PROVE  FileInv /\ AgreeInv /\ [Next]_vars => AgreeInv'
<1> SUFFICES ASSUME FileInv, AgreeInv, [Next]_vars PROVE AgreeInv'
  OBVIOUS
<1>1. CASE RecordCommand \/ HostCommand
  <2>1. PICK c, new, touched : Begin(c, new, touched) /\ Planned(c, new, touched)
    BY <1>1, CommandPlans
  <2> QED BY <2>1, BeginAgrees
<1>2. ASSUME NEW z \in Zone, ZoneAdd(z) PROVE AgreeInv'
  BY <1>2, ZoneAddAgrees
<1>3. ASSUME NEW z \in Zone, Save(z) PROVE AgreeInv'
  BY <1>3, SaveAgrees
<1>4. ASSUME NEW z \in Zone, SaveFails(z) \/ Reload(z) \/ VerifyFails(z) PROVE AgreeInv'
  BY <1>4, HoldingAgrees
<1>5. ASSUME NEW z \in Zone, ActivateStopped(z) \/ Verify(z) PROVE AgreeInv'
  BY <1>5, CommitAgrees
<1>6. ASSUME NEW z \in Zone, Undo(z) \/ TakeBack(z) PROVE AgreeInv'
  BY <1>6, UndoAgrees
<1>7. CASE Fail
  BY <1>7, FailAgrees
<1>8. CASE Kill
  BY <1>8, KillAgrees
<1>9. CASE DaemonStops \/ DaemonStarts \/ ClockSet
  <2>1. UNCHANGED <<local, file, pc, mem, todo, done, before, running, torn, killed>>
    BY <1>9 DEF DaemonStops, DaemonStarts, ClockSet, disk, command, history
  <2> QED BY <2>1, RestAgrees
<1>10. CASE UNCHANGED vars
  BY <1>10, RestAgrees DEF vars
<1>11. CASE Step
  BY <1>3, <1>4, <1>5, <1>6, <1>7, <1>11 DEF Step
<1> QED BY <1>1, <1>2, <1>8, <1>9, <1>10, <1>11 DEF Next, World

LEMMA AgreeInvAgrees ==
  ASSUME FileInv, AgreeInv, Repairable
  PROVE  ForwardReverseAgree
<1> SUFFICES ASSUME pc = "idle", torn # Lost, torn = <<>> \/ ~Accepted(torn)
             PROVE  InStep
  BY DEF ForwardReverseAgree
<1>1. AgreeBut(<<>>, file)
  <2>1. Known(torn) /\ AgreeBut(torn, file) /\ (Can(torn, file) \/ AgreeBut(<<>>, file))
    BY DEF AgreeInv
  <2>2. torn # <<>> => ~Can(torn, file)
    BY <2>1, AcceptedIsCan
  <2> QED BY <2>1, <2>2
<1>2. \A h \in Hosts : \A a : HostHas(file, h, a) <=> \E s \in AddressesOf(h) : s.value = a
  BY DEF HostHas, HasA, AddressesOf
<1>3. ASSUME NEW z \in local \cap ReverseZones, NEW r \in file[z].recs, r.type = "PTR"
      PROVE  \E s \in AddressesOf(r.value) : s.value = r.name
  <2>1. r.name \in Owners /\ r.value \in Values
    BY FileTyped DEF Typed, Record
  <2>2. HasPTR(file[z].recs, r.name, r.value)
    BY <1>3 DEF HasPTR
  <2>3. r.value \in Hosts /\ HostHas(file, r.value, r.name)
    BY <1>1, <2>1, <2>2 DEF AgreeBut, Ahead
  <2> QED BY <1>2, <2>3
<1>4. ASSUME NEW h \in Hosts, NEW s \in AddressesOf(h), Covers[s.value] \cap FirstZones # {}
      PROVE  \E z \in local \cap ReverseZones : \E r \in file[z].recs :
               r.type = "PTR" /\ r.name = s.value /\ r.value = h
  <2>1. HostHas(file, h, s.value) /\ s.value \in Addrs
    BY <1>2, HostFacts DEF FileInv
  <2>2. PICK z \in local \cap ReverseZones : HasPTR(file[z].recs, s.value, h)
    BY <1>1, <1>4, <2>1 DEF AgreeBut, Leaving
  <2> QED BY <2>2 DEF HasPTR
<1> QED BY <1>3, <1>4 DEF InStep

LEMMA AgreeInvAlways ==
  ASSUME HostsManaged
  PROVE  Spec => [](FileInv /\ AgreeInv)
<1>1. Init => AgreeInv
  BY AgreeInitially
<1>2. FileInv /\ AgreeInv /\ [Next]_vars => AgreeInv'
  BY AgreeKept
<1> QED BY <1>1, <1>2, FileInvAlways, PTL DEF Spec

(***************************************************************************)
(* Between commands every PTR leads to an address that leads back, and     *)
(* every covered address of a host has its PTR; and a host command that    *)
(* was killed at any of its zones can be repeated while they do not, which *)
(* brings them back in step (commit and hostCmd in localzone.go).  Where   *)
(* the forward zone sorts after the reverse zones, and `record` leaves     *)
(* addresses and PTRs alone.                                               *)
(***************************************************************************)
THEOREM HostsStayInStep ==
  ASSUME ReverseFirst, HostsManaged
  PROVE  Spec => []ForwardReverseAgree
<1>1. FileInv /\ AgreeInv => ForwardReverseAgree
  BY AgreeInvAgrees DEF Repairable
<1> QED BY <1>1, AgreeInvAlways, PTL

(***************************************************************************)
(* Whatever the zones are called: as long as no command has been killed,   *)
(* forward and reverse zones agree between commands, those that failed     *)
(* included ("undo the zones already activated so forward and reverse stay *)
(* in step", localzone.go).                                                *)
(***************************************************************************)
THEOREM FailuresStayInStep ==
  ASSUME HostsManaged
  PROVE  Spec => [](killed = 0 /\ pc = "idle" => InStep)
<1>1. FileInv /\ AgreeInv => (killed = 0 /\ pc = "idle" => InStep)
  <2> SUFFICES ASSUME FileInv, AgreeInv, killed = 0, pc = "idle" PROVE InStep
    OBVIOUS
  <2>1. torn = <<>> /\ Repairable
    BY DEF AgreeInv, Kills, Repairable
  <2>2. ForwardReverseAgree /\ <<>> # Lost
    BY <2>1, AgreeInvAgrees DEF Lost
  <2> QED BY <2>1, <2>2 DEF ForwardReverseAgree
<1> QED BY <1>1, AgreeInvAlways, PTL
=============================================================================
