---------------------------- MODULE SchemaProofs ----------------------------
(***************************************************************************)
(* What holds of the migrations for every database the program of revision *)
(* 0027 used and every legacy one, however often it is taken back and      *)
(* forward: what a round trip leaves of its rows, and where alone an       *)
(* upgrade is refused.                                                     *)
(***************************************************************************)
EXTENDS SchemaMigrations, FiniteSetTheorems, SequenceTheorems, NaturalsInduction,
        WellFoundedInduction, TLAPS

-----------------------------------------------------------------------------
\* The checks in force at a revision. Two depend on the way there: the kinds of
\* runs, where 0012 going down lets pipelines in and 0009 going up does not, and
\* the check of confidence, which 0023 going down does not bring back.
SourceKindsAt(r) == IF r < 9 THEN Kinds1 ELSE IF r < 25 THEN Kinds9 ELSE Kinds25
SourceStatesAt(r) == IF r < 10 THEN {Absent} ELSE IF r < 14 THEN States10 ELSE States14
RunKindsAt(r) ==
    IF r < 8 THEN {RunKinds1} ELSE IF r = 8 THEN {RunKinds8}
    ELSE IF r < 12 THEN {RunKinds9, Pipelines} ELSE IF r < 25 THEN {RunKinds9} ELSE {RunKinds25}
RunStatusesAt(r) ==
    IF r < 4 THEN Statuses1 ELSE IF r < 16 THEN Statuses4
    ELSE IF r = 16 THEN Statuses16 ELSE Statuses17
MethodsAt(r) == IF r < 2 THEN Methods1 ELSE IF r < 22 THEN Methods2 ELSE Methods22
DecisionsAt(r) == IF r < 20 THEN {} ELSE IF r < 22 THEN Decisions20 ELSE Decisions22
EntitiesAt(r) == IF r < 22 THEN {Absent} ELSE Entities22
ChunksAt(r) == IF r < 26 THEN {TRUE} ELSE BOOLEAN
ConfidencesAt(r) == IF r < 18 \/ r > 22 THEN {FALSE} ELSE BOOLEAN

ChecksAt(r, runKind, confidence) ==
    [sourceKind |-> SourceKindsAt(r), sourceStatus |-> SourceStatesAt(r), runKind |-> runKind,
     runStatus |-> RunStatusesAt(r), method |-> MethodsAt(r), decision |-> DecisionsAt(r),
     entity |-> EntitiesAt(r), chunk |-> ChunksAt(r), confidence |-> confidence]

IsSchema(d) ==
    /\ d.rev \in 1..Latest
    /\ d.checks.runKind \in RunKindsAt(d.rev) /\ d.checks.confidence \in ConfidencesAt(d.rev)
    /\ d.checks = ChecksAt(d.rev, d.checks.runKind, d.checks.confidence)
    /\ d.index = IndexedBy(d.rev)
    /\ IsDatabase(d.rows) /\ Fits(d)
    /\ d.rev < 20 => DOMAIN d.rows.candidates = {}

\* The inductive invariant, in parts. The database satisfies its schema.
Placed ==
    /\ IsSchema(db) /\ IsSchema(was)
    /\ was.rev \in {1, Latest}
    /\ low \in 1..db.rev /\ low <= was.rev

\* A column that came with revision c, at revision r, when the lowest was l.
Column(c, default, value, r, l) ==
    IF r < c THEN Absent ELSE IF l < c THEN default ELSE value

\* Rows of a database of revision 0027 at revision r.
HeldSource(row, r, l) ==
    [row EXCEPT !.recrawl = Column(19, "weekly", @, r, l),
                !.depth = Column(27, "unbounded", @, r, l)]
HeldRun(row, r, l) == [row EXCEPT !.beat = Column(19, "started", @, r, l)]
HeldFetch(row, r, l) == [row EXCEPT !.since = Column(19, "none", @, r, l)]
HeldDocument(row, r, l) == [row EXCEPT !.vector = Column(26, "none", @, r, l)]
HeldClaim(row, r, l) == [row EXCEPT !.subject = Column(24, "person", @, r, l)]
HeldCandidate(row, r, l) == [row EXCEPT !.context = Column(22, "none", @, r, l)]
HeldEntity(row, r, l) ==
    [row EXCEPT !.status = Column(22, "active", @, r, l),
                !.curation = Column(22, "none", @, r, l),
                !.heir = Column(21, "none", @, r, l)]

\* Its tables, without the claims that had no place and what hung on them.
Gone(old, l) == IF l < 26 THEN Whole(old) ELSE {}
HeldCandidates(old, r, l) ==
    [c \in IF l < 20 THEN {} ELSE DOMAIN old.candidates |->
        HeldCandidate(Unlinked(old.candidates[c], DOMAIN Apart(old.mentions, Gone(old, l))), r, l)]
Held(old, r, l) ==
    [sources |-> Each(old.sources, LAMBDA row : HeldSource(row, r, l)),
     runs |-> Each(old.runs, LAMBDA row : HeldRun(row, r, l)),
     fetches |-> Each(old.fetches, LAMBDA row : HeldFetch(row, r, l)),
     documents |-> Each(old.documents, LAMBDA row : HeldDocument(row, r, l)),
     claims |-> Each(Restrict(old.claims, DOMAIN old.claims \ Gone(old, l)),
                     LAMBDA row : HeldClaim(row, r, l)),
     evidence |-> Apart(old.evidence, Gone(old, l)),
     mentions |-> Apart(old.mentions, Gone(old, l)),
     candidates |-> HeldCandidates(old, r, l),
     entities |-> Each(old.entities, LAMBDA row : HeldEntity(row, r, l))]

\* A database that left revision 0027 never passes 0018 again, and its tables are
\* what the lowest revision makes of them.
FromHead ==
    was.rev = Latest =>
        low >= 18 /\ ~db.checks.confidence /\ db.rows = Held(was.rows, db.rev, low)

\* Sources and runs of revision 0001 at revision r.
FirstSource(row, old, r) ==
    /\ row.kind = old.kind /\ row.host = old.host
    /\ r < 10 /\ old.notes # <<>> /\ old.notes[1] = "archived" => row.notes = old.notes
    /\ r >= 10 => Told(row, old)
FirstRun(row, old, r, rows) ==
    /\ SameSite(row.source, old.source, rows) /\ row.kind = old.kind
    /\ row.status = IF r >= 17 /\ old.status = "cancelled" THEN "stopped" ELSE old.status
FirstSources(new, old, r) ==
    /\ \A s \in DOMAIN old.sources : \E t \in DOMAIN new.sources : SameSite(s, t, old)
    /\ \A t \in DOMAIN new.sources :
          t \in DOMAIN old.sources /\ FirstSource(new.sources[t], old.sources[t], r)
FirstRuns(new, old, r) ==
    /\ DOMAIN new.runs = DOMAIN old.runs
    /\ \A x \in DOMAIN old.runs : FirstRun(new.runs[x], old.runs[x], r, old)

FromFirst ==
    was.rev = 1 => FirstSources(db.rows, was.rows, db.rev) /\ FirstRuns(db.rows, was.rows, db.rev)

SchemaInv == Placed /\ FromHead /\ FromFirst

-----------------------------------------------------------------------------
\* What a revision makes of one row, column by column.

LEMMA Words0 ==
    /\ "site" \in Words /\ "absent" \in Words /\ "active" \in Words /\ "archived" \in Words
    /\ "paused" \in Words /\ "respected" \in Words /\ "unbounded" \in Words
    /\ "running" \in Words /\ "stopped" \in Words /\ "cancelled" \in Words
    /\ "parse" \in Words /\ "pipeline" \in Words /\ "started" \in Words /\ "person" \in Words
    /\ "none" \in Words /\ "weekly" \in Words
    BY WordTypes DEF Written

Renoted(row, status, notes) == [row EXCEPT !.status = status, !.notes = notes]

LEMMA RenotedIs ==
    ASSUME NEW row \in SourceRow, NEW status \in Words, NEW notes \in Seq(Words)
    PROVE  /\ Renoted(row, status, notes) \in SourceRow
           /\ Renoted(row, status, notes).kind = row.kind
           /\ Renoted(row, status, notes).host = row.host
           /\ Renoted(row, status, notes).page = row.page
           /\ Renoted(row, status, notes).status = status
           /\ Renoted(row, status, notes).notes = notes
    BY DEF Renoted, SourceRow

LEMMA NewSourceIs ==
    ASSUME NEW r \in Nat, NEW row \in SourceRow
    PROVE  /\ NewSource(r, row) \in SourceRow
           /\ NewSource(r, row).kind = row.kind /\ NewSource(r, row).host = row.host
           /\ NewSource(r, row).page = row.page
           /\ NewSource(r, row).status =
                 IF r = 10 THEN IF HasTag(row) THEN row.notes[1] ELSE "active"
                 ELSE IF r = 14 /\ row.status = "paused" THEN "active" ELSE row.status
           /\ NewSource(r, row).notes =
                 IF r = 10 /\ HasTag(row) THEN Tail(row.notes) ELSE row.notes
<1>1. CASE r = 10 /\ HasTag(row)
    <2> DEFINE first == row.notes[1]
               rest == Tail(row.notes)
    <2>1. row.notes # <<>> /\ row.notes \in Seq(Words)  BY <1>1 DEF HasTag, SourceRow
    <2>2. first \in Words /\ rest \in Seq(Words)  BY <2>1
    <2>3. NewSource(r, row) = Untagged(row)  BY <1>1 DEF NewSource
    <2>4. Untagged(row) = [row EXCEPT !.status = first, !.notes = rest]  BY <1>1 DEF Untagged
    <2>5. /\ NewSource(r, row) \in SourceRow
          /\ NewSource(r, row).kind = row.kind /\ NewSource(r, row).host = row.host
          /\ NewSource(r, row).page = row.page
          /\ NewSource(r, row).status = first /\ NewSource(r, row).notes = rest
        <3> HIDE DEF first, rest
        <3>1. NewSource(r, row) = Renoted(row, first, rest)  BY <2>3, <2>4 DEF Renoted
        <3> QED  BY <2>2, <3>1, RenotedIs
    <2> QED  BY <1>1, <2>5
<1>2. CASE r = 10 /\ ~HasTag(row)
    <2>1. NewSource(r, row) = Untagged(row)  BY <1>2 DEF NewSource
    <2>2. Untagged(row) = [row EXCEPT !.status = "active"]  BY <1>2 DEF Untagged
    <2>3. "active" \in Words  BY Words0
    <2> QED  BY <1>2, <2>1, <2>2, <2>3 DEF SourceRow
<1>3. CASE r = 14
    <2>1. NewSource(r, row) = Resumed(row)  BY <1>3 DEF NewSource
    <2>2. "active" \in Words  BY Words0
    <2> QED  BY <1>3, <2>1, <2>2 DEF Resumed, SourceRow
<1>4. CASE r = 6
    <2>1. NewSource(r, row) = [row EXCEPT !.robots = "respected"]  BY <1>4 DEF NewSource
    <2>2. "respected" \in Words  BY Words0
    <2> QED  BY <1>4, <2>1, <2>2 DEF SourceRow
<1>5. CASE r = 27
    <2>1. NewSource(r, row) = [row EXCEPT !.depth = "unbounded"]  BY <1>5 DEF NewSource
    <2>2. "unbounded" \in Words  BY Words0
    <2> QED  BY <1>5, <2>1, <2>2 DEF SourceRow
<1>7. CASE r = 19
    <2>1. NewSource(r, row) = [row EXCEPT !.recrawl = "weekly"]  BY <1>7 DEF NewSource
    <2>2. "weekly" \in Words  BY Words0
    <2> QED  BY <1>7, <2>1, <2>2 DEF SourceRow
<1>6. CASE r \notin {6, 10, 14, 19, 27}
    <2>1. NewSource(r, row) = row  BY <1>6 DEF NewSource
    <2> QED  BY <1>6, <2>1
<1> QED  BY <1>1, <1>2, <1>3, <1>4, <1>5, <1>6, <1>7

LEMMA OldSourceIs ==
    ASSUME NEW r \in Nat, NEW row \in SourceRow
    PROVE  /\ OldSource(r, row) \in SourceRow
           /\ OldSource(r, row).kind = row.kind /\ OldSource(r, row).host = row.host
           /\ OldSource(r, row).page = row.page
           /\ OldSource(r, row).status = IF r = 10 THEN Absent ELSE row.status
           /\ IF r = 10 /\ row.status \in {"archived", "paused"}
              THEN OldSource(r, row).notes = <<row.status>> \o row.notes
              ELSE OldSource(r, row).notes = row.notes
<1>1. CASE r = 10 /\ row.status \in {"archived", "paused"}
    <2> DEFINE tagged == <<row.status>> \o row.notes
    <2>1. row.notes \in Seq(Words) /\ row.status \in Words  BY DEF SourceRow
    <2>2. tagged \in Seq(Words)  BY <2>1
    <2>3. OldSource(r, row) = Tagged(row)  BY <1>1 DEF OldSource
    <2>4. Tagged(row) = [row EXCEPT !.status = Absent, !.notes = tagged]  BY <1>1 DEF Tagged
    <2>5. "absent" \in Words  BY Words0
    <2>6. /\ OldSource(r, row) \in SourceRow
          /\ OldSource(r, row).kind = row.kind /\ OldSource(r, row).host = row.host
          /\ OldSource(r, row).page = row.page
          /\ OldSource(r, row).status = Absent
          /\ OldSource(r, row).notes = tagged
        <3>1. Absent \in Words  BY <2>5 DEF Absent
        <3> HIDE DEF tagged
        <3>2. OldSource(r, row) = Renoted(row, Absent, tagged)  BY <2>3, <2>4 DEF Renoted
        <3> QED  BY <2>2, <3>1, <3>2, RenotedIs
    <2> QED  BY <1>1, <2>6
<1>2. CASE r = 10 /\ row.status \notin {"archived", "paused"}
    <2>1. OldSource(r, row) = Tagged(row)  BY <1>2 DEF OldSource
    <2>2. Tagged(row) = [row EXCEPT !.status = Absent, !.notes = row.notes]
        BY <1>2 DEF Tagged
    <2>3. "absent" \in Words  BY Words0
    <2>4. /\ OldSource(r, row) \in SourceRow
          /\ OldSource(r, row).kind = row.kind /\ OldSource(r, row).host = row.host
          /\ OldSource(r, row).page = row.page
          /\ OldSource(r, row).status = Absent
          /\ OldSource(r, row).notes = row.notes
        <3>1. Absent \in Words /\ row.notes \in Seq(Words)  BY <2>3 DEF Absent, SourceRow
        <3>2. OldSource(r, row) = Renoted(row, Absent, row.notes)
            BY <2>1, <2>2 DEF Renoted
        <3> QED  BY <3>1, <3>2, RenotedIs
    <2> QED  BY <1>2, <2>4
<1>3. CASE r = 6
    <2>1. OldSource(r, row) = [row EXCEPT !.robots = Absent]  BY <1>3 DEF OldSource
    <2>2. "absent" \in Words  BY Words0
    <2>3. /\ OldSource(r, row) \in SourceRow
          /\ OldSource(r, row).kind = row.kind /\ OldSource(r, row).host = row.host
          /\ OldSource(r, row).page = row.page
          /\ OldSource(r, row).status = row.status
          /\ OldSource(r, row).notes = row.notes
        BY <2>1, <2>2 DEF SourceRow, Absent
    <2> QED  BY <1>3, <2>3
<1>4. CASE r = 27
    <2>1. OldSource(r, row) = [row EXCEPT !.depth = Absent]  BY <1>4 DEF OldSource
    <2>2. "absent" \in Words  BY Words0
    <2>3. /\ OldSource(r, row) \in SourceRow
          /\ OldSource(r, row).kind = row.kind /\ OldSource(r, row).host = row.host
          /\ OldSource(r, row).page = row.page
          /\ OldSource(r, row).status = row.status
          /\ OldSource(r, row).notes = row.notes
        BY <2>1, <2>2 DEF SourceRow, Absent
    <2> QED  BY <1>4, <2>3
<1>6. CASE r = 19
    <2>1. OldSource(r, row) = [row EXCEPT !.recrawl = Absent]  BY <1>6 DEF OldSource
    <2>2. "absent" \in Words  BY Words0
    <2>3. /\ OldSource(r, row) \in SourceRow
          /\ OldSource(r, row).kind = row.kind /\ OldSource(r, row).host = row.host
          /\ OldSource(r, row).page = row.page /\ OldSource(r, row).status = row.status
          /\ OldSource(r, row).notes = row.notes
        BY <2>1, <2>2 DEF SourceRow, Absent
    <2> QED  BY <1>6, <2>3
<1>5. CASE r \notin {6, 10, 19, 27}
    <2>1. OldSource(r, row) = row  BY <1>5 DEF OldSource
    <2> QED  BY <1>5, <2>1
<1> QED  BY <1>1, <1>2, <1>3, <1>4, <1>5, <1>6

LEMMA NewRunIs ==
    ASSUME NEW r \in Nat, NEW row \in RunRow
    PROVE  /\ NewRun(r, row) \in RunRow
           /\ NewRun(r, row).source = row.source
           /\ NewRun(r, row).kind = IF r = 12 /\ row.kind = "pipeline" THEN "parse" ELSE row.kind
           /\ NewRun(r, row).status =
                 IF r = 17 /\ row.status \in {"paused", "cancelled"} THEN "stopped" ELSE row.status
<1>1. CASE r = 12
    <2>1. NewRun(r, row) = Rekinded(row, "pipeline", "parse")  BY <1>1 DEF NewRun
    <2>2. "parse" \in Words  BY Words0
    <2> QED  BY <1>1, <2>1, <2>2 DEF Rekinded, RunRow
<1>2. CASE r = 17
    <2>1. NewRun(r, row) = Becomes(row, {"paused", "cancelled"}, "stopped")  BY <1>2 DEF NewRun
    <2>2. "stopped" \in Words  BY Words0
    <2> QED  BY <1>2, <2>1, <2>2 DEF Becomes, RunRow
<1>3. CASE r = 19
    <2>1. NewRun(r, row) = [row EXCEPT !.beat = "started"]  BY <1>3 DEF NewRun
    <2>2. "started" \in Words  BY Words0
    <2> QED  BY <1>3, <2>1, <2>2 DEF RunRow
<1>4. CASE r \notin {12, 17, 19}
    <2>1. NewRun(r, row) = row  BY <1>4 DEF NewRun
    <2> QED  BY <1>4, <2>1
<1> QED  BY <1>1, <1>2, <1>3, <1>4

LEMMA OldRunIs ==
    ASSUME NEW r \in Nat, NEW row \in RunRow
    PROVE  /\ OldRun(r, row) \in RunRow
           /\ OldRun(r, row).source = row.source
           /\ OldRun(r, row).kind = IF r = 12 /\ row.kind = "parse" THEN "pipeline" ELSE row.kind
           /\ OldRun(r, row).status =
                 IF r = 4 /\ row.status = "queued" THEN "running"
                 ELSE IF r = 16 /\ row.status = "paused" THEN "cancelled"
                 ELSE IF r = 17 /\ row.status \in {"stopped", "superseded"} THEN "cancelled"
                 ELSE row.status
<1>1. CASE r = 4
    <2>1. OldRun(r, row) = Becomes(row, {"queued"}, "running")  BY <1>1 DEF OldRun
    <2>2. "running" \in Words  BY Words0
    <2> QED  BY <1>1, <2>1, <2>2 DEF Becomes, RunRow
<1>2. CASE r = 12
    <2>1. OldRun(r, row) = Rekinded(row, "parse", "pipeline")  BY <1>2 DEF OldRun
    <2>2. "pipeline" \in Words  BY Words0
    <2> QED  BY <1>2, <2>1, <2>2 DEF Rekinded, RunRow
<1>3. CASE r = 16
    <2>1. OldRun(r, row) = Becomes(row, {"paused"}, "cancelled")  BY <1>3 DEF OldRun
    <2>2. "cancelled" \in Words  BY Words0
    <2> QED  BY <1>3, <2>1, <2>2 DEF Becomes, RunRow
<1>4. CASE r = 17
    <2>1. OldRun(r, row) = Becomes(row, {"stopped", "superseded"}, "cancelled")
        BY <1>4 DEF OldRun
    <2>2. "cancelled" \in Words  BY Words0
    <2> QED  BY <1>4, <2>1, <2>2 DEF Becomes, RunRow
<1>5. CASE r = 19
    <2>1. OldRun(r, row) = [row EXCEPT !.beat = Absent]  BY <1>5 DEF OldRun
    <2>2. "absent" \in Words  BY Words0
    <2> QED  BY <1>5, <2>1, <2>2 DEF RunRow, Absent
<1>6. CASE r \notin {4, 12, 16, 17, 19}
    <2>1. OldRun(r, row) = row  BY <1>6 DEF OldRun
    <2> QED  BY <1>6, <2>1
<1> QED  BY <1>1, <1>2, <1>3, <1>4, <1>5, <1>6

\* The tags: what 0010 going down writes, 0010 going up reads back.
LEMMA TagsComeBack ==
    ASSUME NEW notes \in Seq(Words), NEW status \in Words
    PROVE  /\ <<status>> \o notes # <<>>
           /\ (<<status>> \o notes)[1] = status
           /\ Tail(<<status>> \o notes) = notes
    OBVIOUS

\* The other tables have columns that come and go.
LEMMA NewRowsAre ==
    ASSUME NEW r \in Nat
    PROVE  /\ \A row \in FetchRow : NewFetch(r, row) \in FetchRow /\ NewFetch(r, row).run = row.run
           /\ \A row \in DocumentRow : NewDocument(r, row) \in DocumentRow
           /\ \A row \in ClaimRow :
                NewClaim(r, row) \in ClaimRow /\ NewClaim(r, row).chunk = row.chunk
           /\ \A row \in CandidateRow :
                /\ NewCandidate(r, row) \in CandidateRow
                /\ NewCandidate(r, row).mention = row.mention
                /\ NewCandidate(r, row).decision = row.decision
           /\ \A row \in EntityRow :
                /\ NewEntity(r, row) \in EntityRow
                /\ NewEntity(r, row).status = IF r = 22 THEN "active" ELSE row.status
<1>1. "none" \in Words /\ "person" \in Words /\ "active" \in Words  BY Words0
<1>2. \A row \in FetchRow : NewFetch(r, row) \in FetchRow /\ NewFetch(r, row).run = row.run
    BY <1>1 DEF NewFetch, FetchRow
<1>3. \A row \in DocumentRow : NewDocument(r, row) \in DocumentRow
    BY <1>1 DEF NewDocument, DocumentRow
<1>4. \A row \in ClaimRow : NewClaim(r, row) \in ClaimRow /\ NewClaim(r, row).chunk = row.chunk
    BY <1>1 DEF NewClaim, ClaimRow
<1>5. \A row \in CandidateRow :
        /\ NewCandidate(r, row) \in CandidateRow
        /\ NewCandidate(r, row).mention = row.mention
        /\ NewCandidate(r, row).decision = row.decision
    BY <1>1 DEF NewCandidate, CandidateRow
<1>6. ASSUME NEW row \in EntityRow
      PROVE  /\ NewEntity(r, row) \in EntityRow
             /\ NewEntity(r, row).status = IF r = 22 THEN "active" ELSE row.status
    <2>1. CASE r = 21  BY <1>1, <2>1 DEF NewEntity, EntityRow
    <2>2. CASE r = 22
        <3>1. NewEntity(r, row) = [row EXCEPT !.status = "active", !.curation = "none"]
            BY <2>2 DEF NewEntity
        <3> QED  BY <1>1, <2>2, <3>1 DEF EntityRow
    <2>3. CASE r \notin {21, 22}  BY <2>3 DEF NewEntity
    <2> QED  BY <2>1, <2>2, <2>3
<1> QED  BY <1>2, <1>3, <1>4, <1>5, <1>6

LEMMA OldRowsAre ==
    ASSUME NEW r \in Nat
    PROVE  /\ \A row \in FetchRow : OldFetch(r, row) \in FetchRow
           /\ \A row \in DocumentRow : OldDocument(r, row) \in DocumentRow
           /\ \A row \in ClaimRow : OldClaim(r, row) \in ClaimRow
           /\ \A row \in CandidateRow : OldCandidate(r, row) \in CandidateRow
           /\ \A row \in EntityRow : OldEntity(r, row) \in EntityRow
<1>1. Absent \in Words  BY Words0 DEF Absent
<1>2. \A row \in FetchRow : OldFetch(r, row) \in FetchRow  BY <1>1 DEF OldFetch, FetchRow
<1>3. \A row \in DocumentRow : OldDocument(r, row) \in DocumentRow
    BY <1>1 DEF OldDocument, DocumentRow
<1>4. \A row \in ClaimRow : OldClaim(r, row) \in ClaimRow  BY <1>1 DEF OldClaim, ClaimRow
<1>5. \A row \in CandidateRow : OldCandidate(r, row) \in CandidateRow
    BY <1>1 DEF OldCandidate, CandidateRow
<1>6. ASSUME NEW row \in EntityRow PROVE OldEntity(r, row) \in EntityRow
    <2>1. CASE r = 21  BY <1>1, <2>1 DEF OldEntity, EntityRow
    <2>2. CASE r = 22
        <3>1. OldEntity(r, row) = [row EXCEPT !.status = Absent, !.curation = Absent]
            BY <2>2 DEF OldEntity
        <3> QED  BY <1>1, <2>2, <3>1 DEF EntityRow
    <2>3. CASE r \notin {21, 22}  BY <2>3 DEF OldEntity
    <2> QED  BY <2>1, <2>2, <2>3
<1> QED  BY <1>2, <1>3, <1>4, <1>5, <1>6

-----------------------------------------------------------------------------
\* What a revision makes of the tables.

LEMMA HostedIs ==
    ASSUME NEW row \in SourceRow
    PROVE  /\ Hosted(row) \in SourceRow
           /\ Hosted(row).kind = row.kind /\ Hosted(row).host = row.host
           /\ Hosted(row).page = IF row.kind = "domain" THEN "site" ELSE row.page
           /\ Hosted(row).notes = row.notes /\ Hosted(row).status = row.status
<1>1. "site" \in Words  BY Words0
<1> QED  BY <1>1 DEF Hosted, SourceRow

\* Every source has a survivor: runs are finitely many, so some source of the
\* site has most of them, and of these some has the least id.
LEMMA LeastId ==
    ASSUME NEW T \in SUBSET Nat, T # {}
    PROVE  \E t \in T : \A u \in T : t <= u
<1> DEFINE R == {ss \in Nat \X Nat : ss[1] < ss[2]}
<1>1. IsWellFoundedOn(R, Nat)
    BY NatLessThanWellFounded, Zenon DEF OpToRel
<1>2. PICK t \in T : \A u \in T : ~(<<u, t>> \in R)
    <2> HIDE DEF R
    <2> QED  BY <1>1, WFMin
<1>3. \A u \in T : t \in Nat /\ u \in Nat /\ ~(u < t)
    BY <1>2
<1>4. \A u \in T : t <= u
    BY <1>3
<1> QED  BY <1>4

LEMMA MostRuns ==
    ASSUME NEW n \in Nat, NEW T \in SUBSET (0..n), T # {}
    PROVE  \E t \in T : \A u \in T : u <= t
<1> DEFINE D == {n - t : t \in T}
<1>1. D \in SUBSET Nat /\ D # {}
    <2>1. \A t \in T : n - t \in Nat /\ n - t \in D  OBVIOUS
    <2> QED  BY <2>1
<1>2. PICK d \in D : \A e \in D : d <= e
    <2> HIDE DEF D
    <2> QED  BY <1>1, LeastId
<1>3. PICK t \in T : d = n - t  BY <1>2
<1>4. ASSUME NEW u \in T PROVE u <= t
    <2>1. n - u \in D /\ u \in 0..n /\ t \in 0..n  OBVIOUS
    <2>2. n - t <= n - u  BY <1>2, <1>3, <2>1
    <2> QED  BY <2>1, <2>2
<1> QED  BY <1>4

LEMMA SurvivorIs ==
    ASSUME NEW rows, IsDatabase(rows), NEW s \in DOMAIN rows.sources
    PROVE  Survivor(s, rows) \in DOMAIN rows.sources /\ SameSite(s, Survivor(s, rows), rows)
<1> DEFINE site == {t \in DOMAIN rows.sources : SameSite(s, t, rows)}
           counts == {RunCount(t, rows) : t \in site}
           n == Cardinality(DOMAIN rows.runs)
<1>1. n \in Nat /\ \A t : RunCount(t, rows) \in 0..n
    <2>1. IsFiniteSet(DOMAIN rows.runs)  BY DEF IsDatabase
    <2>2. ASSUME NEW t PROVE n \in Nat /\ RunCount(t, rows) \in 0..n
        <3> DEFINE its == {r \in DOMAIN rows.runs : rows.runs[r].source = t}
        <3>1. its \subseteq DOMAIN rows.runs  OBVIOUS
        <3>2. IsFiniteSet(its) /\ Cardinality(its) <= n
            <4> HIDE DEF its
            <4> QED  BY <2>1, <3>1, FS_Subset
        <3>3. Cardinality(its) \in Nat /\ n \in Nat  BY <2>1, <3>2, FS_CardinalityType
        <3>4. RunCount(t, rows) = Cardinality(its)  BY DEF RunCount
        <3> HIDE DEF its, n
        <3> QED  BY <3>2, <3>3, <3>4
    <2> QED  BY <2>2
<1>2. s \in site  BY DEF SameSite
<1>3. PICK m \in counts : \A k \in counts : k <= m
    <2>1. counts \in SUBSET (0..n) /\ counts # {}
        <3> HIDE DEF n
        <3> QED  BY <1>1, <1>2
    <2> HIDE DEF counts, n
    <2> QED  BY <1>1, <2>1, MostRuns
<1> DEFINE most == {t \in site : RunCount(t, rows) = m}
<1>4. PICK t \in most : \A u \in most : t <= u
    <2>1. most \in SUBSET Nat /\ most # {}  BY <1>3 DEF IsDatabase, IsTable
    <2> HIDE DEF most
    <2> QED  BY <2>1, LeastId
<1>5. Survives(t, s, rows)
    <2>1. SameSite(s, t, rows) /\ RunCount(t, rows) = m  BY <1>4
    <2>2. ASSUME NEW u \in DOMAIN rows.sources, SameSite(s, u, rows)
          PROVE  \/ RunCount(u, rows) < RunCount(t, rows)
                 \/ RunCount(u, rows) = RunCount(t, rows) /\ t <= u
        <3>1. RunCount(u, rows) <= m  BY <1>3, <2>2
        <3>2. RunCount(u, rows) = m => t <= u  BY <1>4, <2>2
        <3>3. RunCount(u, rows) \in Nat /\ m \in Nat
            <4> HIDE DEF n, counts
            <4> QED  BY <1>1, <2>1
        <3> HIDE DEF most, counts, n
        <3> QED  BY <2>1, <3>1, <3>2, <3>3
    <2> QED  BY <2>1, <2>2 DEF Survives
<1>6. t \in DOMAIN rows.sources  BY <1>4
<1>7. Survivor(s, rows) \in DOMAIN rows.sources /\ Survives(Survivor(s, rows), s, rows)
    <2> HIDE DEF most, site
    <2> QED  BY <1>5, <1>6, Zenon DEF Survivor
<1> QED  BY <1>7 DEF Survives

\* Where a revision leaves a source, and its runs: 0007 merges sites.
Into(r, s, rows) == IF r = 7 THEN Survivor(s, rows) ELSE s
At(r, row) == IF r = 7 THEN Hosted(row) ELSE row

LEMMA UpgradedSources ==
    ASSUME NEW r \in Nat, NEW rows, IsDatabase(rows)
    PROVE  /\ IsTable(Upgraded(r, rows).sources, SourceRow)
           /\ DOMAIN Upgraded(r, rows).sources = {Into(r, t, rows) : t \in DOMAIN rows.sources}
           /\ DOMAIN Upgraded(r, rows).sources \subseteq DOMAIN rows.sources
           /\ \A s \in DOMAIN Upgraded(r, rows).sources :
                 /\ At(r, rows.sources[s]) \in SourceRow
                 /\ Upgraded(r, rows).sources[s] = NewSource(r, At(r, rows.sources[s]))
<1> DEFINE up == Upgraded(r, rows).sources
<1>1. \A s \in DOMAIN rows.sources : rows.sources[s] \in SourceRow
    BY DEF IsDatabase, IsTable
<1>2. \A row \in SourceRow : At(r, row) \in SourceRow  BY HostedIs DEF At
<1>3. up = Each(IF r = 7 THEN MergedSources(rows) ELSE rows.sources,
                LAMBDA row : NewSource(r, row))
    BY DEF Upgraded
<1>4. /\ DOMAIN up = {Into(r, t, rows) : t \in DOMAIN rows.sources}
      /\ \A s \in DOMAIN up : up[s] = NewSource(r, At(r, rows.sources[s]))
    <2>1. CASE r = 7
        <3>1. up = [s \in DOMAIN MergedSources(rows) |-> NewSource(r, MergedSources(rows)[s])]
            BY <1>3, <2>1 DEF Each
        <3>2. /\ DOMAIN MergedSources(rows) = {Survivor(t, rows) : t \in DOMAIN rows.sources}
              /\ \A s \in DOMAIN MergedSources(rows) :
                    MergedSources(rows)[s] = Hosted(rows.sources[s])
            BY DEF MergedSources
        <3> HIDE DEF up
        <3>3. DOMAIN up = DOMAIN MergedSources(rows)  BY <3>1
        <3>4. {Into(r, t, rows) : t \in DOMAIN rows.sources}
                = {Survivor(t, rows) : t \in DOMAIN rows.sources}
            BY <2>1 DEF Into
        <3> QED  BY <2>1, <3>1, <3>2, <3>3, <3>4 DEF At
    <2>2. CASE r # 7
        <3>1. up = [s \in DOMAIN rows.sources |-> NewSource(r, rows.sources[s])]
            BY <1>3, <2>2 DEF Each
        <3>2. {Into(r, t, rows) : t \in DOMAIN rows.sources} = DOMAIN rows.sources
            BY <2>2 DEF Into
        <3> HIDE DEF up
        <3> QED  BY <2>2, <3>1, <3>2 DEF At
    <2> QED  BY <2>1, <2>2
<1>5. \A t \in DOMAIN rows.sources : Into(r, t, rows) \in DOMAIN rows.sources
    BY SurvivorIs DEF Into
<1>6. DOMAIN up \subseteq DOMAIN rows.sources  BY <1>4, <1>5
<1>7. \A s \in DOMAIN up : up[s] \in SourceRow
    <2> HIDE DEF up
    <2>1. ASSUME NEW s \in DOMAIN up PROVE up[s] \in SourceRow
        <3>1. At(r, rows.sources[s]) \in SourceRow  BY <1>1, <1>2, <1>6
        <3>2. NewSource(r, At(r, rows.sources[s])) \in SourceRow  BY <3>1, NewSourceIs
        <3> QED  BY <1>4, <3>2
    <2> QED  BY <2>1
<1>8. IsTable(up, SourceRow)
    <2>1. up = [s \in DOMAIN up |-> up[s]]  BY <1>3 DEF Each
    <2>2. DOMAIN up \subseteq Nat \ {0}  BY <1>6 DEF IsDatabase, IsTable
    <2> HIDE DEF up
    <2> QED  BY <1>7, <2>1, <2>2 DEF IsTable
<1> HIDE DEF up
<1>9. \A s \in DOMAIN up : At(r, rows.sources[s]) \in SourceRow  BY <1>1, <1>2, <1>6
<1> QED  BY <1>4, <1>6, <1>8, <1>9 DEF up

LEMMA UpgradedRuns ==
    ASSUME NEW r \in Nat, NEW rows, IsDatabase(rows),
           \A x \in DOMAIN rows.runs : rows.runs[x].source \in DOMAIN rows.sources
    PROVE  /\ IsTable(Upgraded(r, rows).runs, RunRow)
           /\ DOMAIN Upgraded(r, rows).runs = DOMAIN rows.runs
           /\ \A x \in DOMAIN rows.runs :
                 /\ Upgraded(r, rows).runs[x].source = Into(r, rows.runs[x].source, rows)
                 /\ Upgraded(r, rows).runs[x].kind = NewRun(r, rows.runs[x]).kind
                 /\ Upgraded(r, rows).runs[x].status = NewRun(r, rows.runs[x]).status
<1> DEFINE up == Upgraded(r, rows).runs
<1>1. \A x \in DOMAIN rows.runs : rows.runs[x] \in RunRow
    BY DEF IsDatabase, IsTable
<1>2. up = Each(IF r = 7 THEN MergedRuns(rows) ELSE rows.runs, LAMBDA row : NewRun(r, row))
    BY DEF Upgraded
<1>3. DOMAIN up = DOMAIN rows.runs
    BY <1>2 DEF Each, MergedRuns
<1>4. ASSUME NEW x \in DOMAIN rows.runs
      PROVE  /\ up[x] \in RunRow
             /\ up[x].source = Into(r, rows.runs[x].source, rows)
             /\ up[x].kind = NewRun(r, rows.runs[x]).kind
             /\ up[x].status = NewRun(r, rows.runs[x]).status
    <2>1. CASE r = 7
        <3> DEFINE t == Survivor(rows.runs[x].source, rows)
                   row == [rows.runs[x] EXCEPT !.source = t]
        <3>1. up = [y \in DOMAIN MergedRuns(rows) |-> NewRun(r, MergedRuns(rows)[y])]
            BY <1>2, <2>1 DEF Each
        <3>2. x \in DOMAIN MergedRuns(rows) /\ MergedRuns(rows)[x] = row  BY DEF MergedRuns
        <3>3. t \in Nat  BY SurvivorIs DEF IsDatabase, IsTable
        <3>4. /\ row \in RunRow /\ row.source = t /\ row.kind = rows.runs[x].kind
              /\ row.status = rows.runs[x].status
            <4> HIDE DEF t
            <4> QED  BY <1>1, <3>3 DEF RunRow
        <3>5. up[x] = NewRun(r, row)
            <4> HIDE DEF up, row
            <4> QED  BY <3>1, <3>2
        <3>6. /\ NewRun(r, row) \in RunRow /\ NewRun(r, row).source = t
              /\ NewRun(r, row).kind = row.kind /\ NewRun(r, row).status = row.status
            <4> HIDE DEF row, t
            <4> QED  BY <2>1, <3>4, NewRunIs
        <3>7. /\ NewRun(r, rows.runs[x]).kind = rows.runs[x].kind
              /\ NewRun(r, rows.runs[x]).status = rows.runs[x].status
            BY <1>1, <2>1, NewRunIs
        <3>8. Into(r, rows.runs[x].source, rows) = t  BY <2>1 DEF Into
        <3> HIDE DEF up, row, t
        <3> QED  BY <3>4, <3>5, <3>6, <3>7, <3>8
    <2>2. CASE r # 7
        <3>1. up = [y \in DOMAIN rows.runs |-> NewRun(r, rows.runs[y])]
            BY <1>2, <2>2 DEF Each
        <3> HIDE DEF up
        <3>2. up[x] = NewRun(r, rows.runs[x])  BY <3>1
        <3> QED  BY <1>1, <2>2, <3>2, NewRunIs DEF Into
    <2> QED  BY <2>1, <2>2
<1>5. IsTable(up, RunRow)
    <2>1. up = [x \in DOMAIN up |-> up[x]]  BY <1>2 DEF Each
    <2>2. DOMAIN up \subseteq Nat \ {0}  BY <1>3 DEF IsDatabase, IsTable
    <2> HIDE DEF up
    <2> QED  BY <1>3, <1>4, <2>1, <2>2 DEF IsTable
<1> HIDE DEF up
<1> QED  BY <1>3, <1>4, <1>5 DEF up


\* The other tables, going up.
LEMMA UpgradedOthers ==
    ASSUME NEW r \in Nat, NEW rows, IsDatabase(rows)
    PROVE  LET up == Upgraded(r, rows) IN
           /\ IsTable(up.fetches, FetchRow) /\ IsTable(up.documents, DocumentRow)
           /\ IsTable(up.claims, ClaimRow) /\ up.evidence = rows.evidence
           /\ up.mentions = rows.mentions
           /\ IsTable(up.candidates, CandidateRow) /\ IsTable(up.entities, EntityRow)
           /\ DOMAIN up.fetches = DOMAIN rows.fetches /\ DOMAIN up.claims = DOMAIN rows.claims
           /\ DOMAIN up.candidates = DOMAIN rows.candidates
           /\ DOMAIN up.entities = DOMAIN rows.entities
           /\ \A f \in DOMAIN rows.fetches : up.fetches[f].run = rows.fetches[f].run
           /\ \A c \in DOMAIN rows.claims : up.claims[c].chunk = rows.claims[c].chunk
           /\ \A c \in DOMAIN rows.candidates :
                 /\ up.candidates[c].mention = rows.candidates[c].mention
                 /\ up.candidates[c].decision = rows.candidates[c].decision
           /\ \A e \in DOMAIN rows.entities :
                 up.entities[e].status = IF r = 22 THEN "active" ELSE rows.entities[e].status
<1>1. /\ IsTable(rows.fetches, FetchRow) /\ IsTable(rows.documents, DocumentRow)
      /\ IsTable(rows.claims, ClaimRow) /\ IsTable(rows.candidates, CandidateRow)
      /\ IsTable(rows.entities, EntityRow)
    BY DEF IsDatabase
<1> DEFINE up == Upgraded(r, rows)
<1>2. /\ up.fetches = [f \in DOMAIN rows.fetches |-> NewFetch(r, rows.fetches[f])]
      /\ up.documents = [d \in DOMAIN rows.documents |-> NewDocument(r, rows.documents[d])]
      /\ up.claims = [c \in DOMAIN rows.claims |-> NewClaim(r, rows.claims[c])]
      /\ up.candidates = [c \in DOMAIN rows.candidates |-> NewCandidate(r, rows.candidates[c])]
      /\ up.entities = [e \in DOMAIN rows.entities |-> NewEntity(r, rows.entities[e])]
      /\ up.evidence = rows.evidence /\ up.mentions = rows.mentions
    BY DEF Upgraded, Each
<1> HIDE DEF up
<1>3. /\ IsTable(up.fetches, FetchRow) /\ DOMAIN up.fetches = DOMAIN rows.fetches
      /\ \A f \in DOMAIN rows.fetches : up.fetches[f].run = rows.fetches[f].run
    BY <1>1, <1>2, NewRowsAre DEF IsTable
<1>4. IsTable(up.documents, DocumentRow)  BY <1>1, <1>2, NewRowsAre DEF IsTable
<1>5. /\ IsTable(up.claims, ClaimRow) /\ DOMAIN up.claims = DOMAIN rows.claims
      /\ \A c \in DOMAIN rows.claims : up.claims[c].chunk = rows.claims[c].chunk
    BY <1>1, <1>2, NewRowsAre DEF IsTable
<1>6. /\ IsTable(up.candidates, CandidateRow) /\ DOMAIN up.candidates = DOMAIN rows.candidates
      /\ \A c \in DOMAIN rows.candidates :
            /\ up.candidates[c].mention = rows.candidates[c].mention
            /\ up.candidates[c].decision = rows.candidates[c].decision
    BY <1>1, <1>2, NewRowsAre DEF IsTable
<1>7. /\ IsTable(up.entities, EntityRow) /\ DOMAIN up.entities = DOMAIN rows.entities
      /\ \A e \in DOMAIN rows.entities :
            up.entities[e].status = IF r = 22 THEN "active" ELSE rows.entities[e].status
    BY <1>1, <1>2, NewRowsAre DEF IsTable
<1> QED  BY <1>2, <1>3, <1>4, <1>5, <1>6, <1>7 DEF up

\* A part of a table is a table, and so is one whose rows change.
LEMMA PartIs ==
    ASSUME NEW table, NEW Row, IsTable(table, Row), NEW ids \in SUBSET DOMAIN table
    PROVE  /\ Restrict(table, ids) = [id \in ids |-> table[id]]
           /\ IsTable(Restrict(table, ids), Row)
<1>1. Restrict(table, ids) = [id \in ids |-> table[id]]  BY DEF Restrict
<1> QED  BY <1>1 DEF IsTable

LEMMA ApartIs ==
    ASSUME NEW table, NEW Row, IsTable(table, Row), NEW claims
    PROVE  /\ IsTable(Apart(table, claims), Row)
           /\ DOMAIN Apart(table, claims) = {id \in DOMAIN table : table[id].claim \notin claims}
           /\ \A id \in DOMAIN Apart(table, claims) : Apart(table, claims)[id] = table[id]
<1>1. Apart(table, claims)
        = [id \in {id \in DOMAIN table : table[id].claim \notin claims} |-> table[id]]
    BY DEF Apart, Restrict
<1> QED  BY <1>1 DEF IsTable

LEMMA UnlinkedIs ==
    ASSUME NEW row \in CandidateRow, NEW mentions
    PROVE  /\ Unlinked(row, mentions) \in CandidateRow
           /\ row.mention \in mentions \cup {0} => Unlinked(row, mentions) = row
    BY DEF Unlinked, CandidateRow

\* What is left without some claims.
LEMMA WithoutIs ==
    ASSUME NEW rows, rows = Tabled(rows), NEW claims
    PROVE  LET left == WithoutClaims(rows, claims)
               mentions == DOMAIN Apart(rows.mentions, claims)
           IN  /\ left.sources = rows.sources /\ left.runs = rows.runs
               /\ left.fetches = rows.fetches /\ left.documents = rows.documents
               /\ left.entities = rows.entities
               /\ left.claims = Restrict(rows.claims, DOMAIN rows.claims \ claims)
               /\ left.evidence = Apart(rows.evidence, claims)
               /\ left.mentions = Apart(rows.mentions, claims)
               /\ left.candidates
                    = [c \in DOMAIN rows.candidates |-> Unlinked(rows.candidates[c], mentions)]
               /\ left = Tabled(left)
<1>1. rows = Tabled(rows)  OBVIOUS
<1> DEFINE mentions == DOMAIN Apart(rows.mentions, claims)
           a == Restrict(rows.claims, DOMAIN rows.claims \ claims)
           b == Apart(rows.evidence, claims)
           c == Apart(rows.mentions, claims)
           d == [x \in DOMAIN rows.candidates |-> Unlinked(rows.candidates[x], mentions)]
<1>2. WithoutClaims(rows, claims)
        = [rows EXCEPT !.claims = a, !.evidence = b, !.mentions = c, !.candidates = d]
    BY DEF WithoutClaims
<1>3. WithoutClaims(rows, claims)
        = [sources |-> rows.sources, runs |-> rows.runs, fetches |-> rows.fetches,
           documents |-> rows.documents, claims |-> a, evidence |-> b,
           mentions |-> c, candidates |-> d, entities |-> rows.entities]
    <2> HIDE DEF a, b, c, d
    <2> QED  BY <1>1, <1>2 DEF Tabled
<1> HIDE DEF a, b, c, d
<1>4. WithoutClaims(rows, claims) = Tabled(WithoutClaims(rows, claims))  BY <1>3 DEF Tabled
<1> QED  BY <1>3, <1>4 DEF a, b, c, d

\* What a downgrade finds after it deleted what has no place.
LEMMA ShedIs ==
    ASSUME NEW r \in Nat, NEW rows, IsDatabase(rows)
    PROVE  /\ IsDatabase(Shed(r, rows))
           /\ Shed(r, rows).sources = rows.sources /\ Shed(r, rows).runs = rows.runs
           /\ r = 20 \/ DOMAIN rows.candidates = {} => DOMAIN Shed(r, rows).candidates = {}
<1>1. /\ rows = Tabled(rows)
      /\ IsTable(rows.sources, SourceRow) /\ IsTable(rows.runs, RunRow)
      /\ IsFiniteSet(DOMAIN rows.runs) /\ IsTable(rows.fetches, FetchRow)
      /\ IsTable(rows.documents, DocumentRow) /\ IsTable(rows.claims, ClaimRow)
      /\ IsTable(rows.evidence, EvidenceRow) /\ IsTable(rows.mentions, MentionRow)
      /\ IsTable(rows.candidates, CandidateRow) /\ IsTable(rows.entities, EntityRow)
    BY DEF IsDatabase
<1>2. CASE r = 20
    <2> DEFINE none == Restrict(rows.candidates, {})
    <2>1. IsTable(none, CandidateRow) /\ none = [id \in {} |-> rows.candidates[id]]
        BY <1>1, PartIs
    <2>2. DOMAIN none = {}  BY <2>1
    <2>3. Shed(r, rows) = [rows EXCEPT !.candidates = none]  BY <1>2 DEF Shed
    <2> HIDE DEF none
    <2>4. Shed(r, rows)
            = [sources |-> rows.sources, runs |-> rows.runs, fetches |-> rows.fetches,
               documents |-> rows.documents, claims |-> rows.claims, evidence |-> rows.evidence,
               mentions |-> rows.mentions, candidates |-> none, entities |-> rows.entities]
        BY <1>1, <2>3 DEF Tabled
    <2>5. Shed(r, rows) = Tabled(Shed(r, rows))  BY <2>4 DEF Tabled
    <2>6. /\ Shed(r, rows).sources = rows.sources /\ Shed(r, rows).runs = rows.runs
          /\ Shed(r, rows).fetches = rows.fetches /\ Shed(r, rows).documents = rows.documents
          /\ Shed(r, rows).claims = rows.claims /\ Shed(r, rows).evidence = rows.evidence
          /\ Shed(r, rows).mentions = rows.mentions /\ Shed(r, rows).candidates = none
          /\ Shed(r, rows).entities = rows.entities
        BY <2>4
    <2> QED  BY <1>1, <2>1, <2>2, <2>5, <2>6 DEF IsDatabase
<1>3. CASE r = 26
    <2> DEFINE left == WithoutClaims(rows, Whole(rows))
               mentions == DOMAIN Apart(rows.mentions, Whole(rows))
    <2>1. Shed(r, rows) = left  BY <1>3 DEF Shed
    <2>2. /\ left.sources = rows.sources /\ left.runs = rows.runs
          /\ left.fetches = rows.fetches /\ left.documents = rows.documents
          /\ left.entities = rows.entities
          /\ left.claims = Restrict(rows.claims, DOMAIN rows.claims \ Whole(rows))
          /\ left.evidence = Apart(rows.evidence, Whole(rows))
          /\ left.mentions = Apart(rows.mentions, Whole(rows))
          /\ left.candidates
               = [c \in DOMAIN rows.candidates |-> Unlinked(rows.candidates[c], mentions)]
          /\ left = Tabled(left)
        BY <1>1, WithoutIs
    <2> HIDE DEF left
    <2>3. IsTable(left.claims, ClaimRow)  BY <1>1, <2>2, PartIs
    <2>4. IsTable(left.evidence, EvidenceRow) /\ IsTable(left.mentions, MentionRow)
        <3>1. IsTable(Apart(rows.evidence, Whole(rows)), EvidenceRow)  BY <1>1, ApartIs
        <3>2. IsTable(Apart(rows.mentions, Whole(rows)), MentionRow)  BY <1>1, ApartIs
        <3> QED  BY <2>2, <3>1, <3>2
    <2>5. IsTable(left.candidates, CandidateRow) /\ DOMAIN left.candidates = DOMAIN rows.candidates
        <3> HIDE DEF mentions
        <3> QED  BY <1>1, <2>2, UnlinkedIs DEF IsTable
    <2>6. IsDatabase(left)  BY <1>1, <2>2, <2>3, <2>4, <2>5 DEF IsDatabase
    <2> QED  BY <1>3, <2>1, <2>2, <2>5, <2>6
<1>4. CASE r \notin {20, 26}
    <2>1. Shed(r, rows) = rows  BY <1>4 DEF Shed
    <2> QED  BY <1>4, <2>1
<1> QED  BY <1>2, <1>3, <1>4

LEMMA DowngradedSources ==
    ASSUME NEW r \in Nat, NEW rows, IsDatabase(rows)
    PROVE  /\ IsTable(Downgraded(r, rows).sources, SourceRow)
           /\ DOMAIN Downgraded(r, rows).sources = DOMAIN rows.sources
           /\ \A s \in DOMAIN rows.sources :
                 Downgraded(r, rows).sources[s] = OldSource(r, rows.sources[s])
<1>1. IsTable(rows.sources, SourceRow)  BY DEF IsDatabase
<1>2. Downgraded(r, rows).sources = [s \in DOMAIN rows.sources |-> OldSource(r, rows.sources[s])]
    <2>1. Shed(r, rows).sources = rows.sources  BY ShedIs
    <2> QED  BY <2>1 DEF Downgraded, Each
<1>3. \A row \in SourceRow : OldSource(r, row) \in SourceRow  BY OldSourceIs
<1> QED  BY <1>1, <1>2, <1>3 DEF IsTable

LEMMA DowngradedRuns ==
    ASSUME NEW r \in Nat, NEW rows, IsDatabase(rows)
    PROVE  /\ IsTable(Downgraded(r, rows).runs, RunRow)
           /\ DOMAIN Downgraded(r, rows).runs = DOMAIN rows.runs
           /\ \A x \in DOMAIN rows.runs : Downgraded(r, rows).runs[x] = OldRun(r, rows.runs[x])
<1>1. IsTable(rows.runs, RunRow)  BY DEF IsDatabase
<1>2. Downgraded(r, rows).runs = [x \in DOMAIN rows.runs |-> OldRun(r, rows.runs[x])]
    <2>1. Shed(r, rows).runs = rows.runs  BY ShedIs
    <2> QED  BY <2>1 DEF Downgraded, Each
<1>3. \A row \in RunRow : OldRun(r, row) \in RunRow  BY OldRunIs
<1> QED  BY <1>1, <1>2, <1>3 DEF IsTable

LEMMA UpgradedTypes ==
    ASSUME NEW r \in Nat, NEW rows, IsDatabase(rows),
           \A x \in DOMAIN rows.runs : rows.runs[x].source \in DOMAIN rows.sources
    PROVE  IsDatabase(Upgraded(r, rows))
<1>1. IsTable(rows.evidence, EvidenceRow) /\ IsTable(rows.mentions, MentionRow)
      /\ IsFiniteSet(DOMAIN rows.runs)
    BY DEF IsDatabase
<1>2. IsTable(Upgraded(r, rows).sources, SourceRow)  BY UpgradedSources
<1>3. IsTable(Upgraded(r, rows).runs, RunRow) /\ DOMAIN Upgraded(r, rows).runs = DOMAIN rows.runs
    BY UpgradedRuns
<1>4. Upgraded(r, rows) = Tabled(Upgraded(r, rows))  BY DEF Upgraded, Tabled
<1> QED  BY <1>1, <1>2, <1>3, <1>4, UpgradedOthers DEF IsDatabase

LEMMA DowngradedTypes ==
    ASSUME NEW r \in Nat, NEW rows, IsDatabase(rows)
    PROVE  /\ IsDatabase(Downgraded(r, rows))
           /\ r = 20 \/ DOMAIN rows.candidates = {} => DOMAIN Downgraded(r, rows).candidates = {}
<1> DEFINE left == Shed(r, rows)
           down == Downgraded(r, rows)
<1>1. /\ IsTable(left.fetches, FetchRow) /\ IsTable(left.documents, DocumentRow)
      /\ IsTable(left.claims, ClaimRow) /\ IsTable(left.evidence, EvidenceRow)
      /\ IsTable(left.mentions, MentionRow) /\ IsTable(left.candidates, CandidateRow)
      /\ IsTable(left.entities, EntityRow)
      /\ r = 20 \/ DOMAIN rows.candidates = {} => DOMAIN left.candidates = {}
    BY ShedIs DEF IsDatabase
<1>2. /\ down.fetches = [f \in DOMAIN left.fetches |-> OldFetch(r, left.fetches[f])]
      /\ down.documents = [d \in DOMAIN left.documents |-> OldDocument(r, left.documents[d])]
      /\ down.claims = [c \in DOMAIN left.claims |-> OldClaim(r, left.claims[c])]
      /\ down.candidates = [c \in DOMAIN left.candidates |-> OldCandidate(r, left.candidates[c])]
      /\ down.entities = [e \in DOMAIN left.entities |-> OldEntity(r, left.entities[e])]
      /\ down.evidence = left.evidence /\ down.mentions = left.mentions
    BY DEF Downgraded, Each
<1>3. down = Tabled(down)  BY DEF Downgraded, Tabled
<1>4. IsTable(down.sources, SourceRow)  BY DowngradedSources
<1>5. IsTable(down.runs, RunRow) /\ IsFiniteSet(DOMAIN down.runs)
    BY DowngradedRuns DEF IsDatabase
<1> HIDE DEF left, down
<1>6. IsTable(down.fetches, FetchRow) /\ IsTable(down.documents, DocumentRow)
    BY <1>1, <1>2, OldRowsAre DEF IsTable
<1>7. IsTable(down.claims, ClaimRow) /\ IsTable(down.entities, EntityRow)
    BY <1>1, <1>2, OldRowsAre DEF IsTable
<1>8. IsTable(down.candidates, CandidateRow) /\ DOMAIN down.candidates = DOMAIN left.candidates
    BY <1>1, <1>2, OldRowsAre DEF IsTable
<1>9. IsDatabase(down)  BY <1>1, <1>2, <1>3, <1>4, <1>5, <1>6, <1>7, <1>8 DEF IsDatabase
<1> QED  BY <1>1, <1>8, <1>9 DEF left, down

-----------------------------------------------------------------------------
\* The checks in force follow the revision, up and down.
LEMMA ChecksAbove ==
    ASSUME NEW r \in 2..Latest, NEW k \in RunKindsAt(r - 1), NEW c \in ConfidencesAt(r - 1)
    PROVE  \E l \in RunKindsAt(r), e \in ConfidencesAt(r) :
              NewChecks(r, ChecksAt(r - 1, k, c)) = ChecksAt(r, l, e)
<1> USE DEF Latest
<1> PICK checks : checks = ChecksAt(r - 1, k, c)  OBVIOUS
<1>1. CASE r = 2
    <2>1. NewChecks(r, checks) = [checks EXCEPT !.method = Methods2]
        BY <1>1 DEF NewChecks
    <2>4. k \in RunKindsAt(r)  BY <1>1 DEF RunKindsAt
    <2>5. c \in ConfidencesAt(r)  BY <1>1 DEF ConfidencesAt
    <2>2. /\ SourceKindsAt(r) = SourceKindsAt(r - 1) /\ SourceStatesAt(r) = SourceStatesAt(r - 1)
          /\ RunStatusesAt(r) = RunStatusesAt(r - 1) /\ MethodsAt(r) = Methods2
          /\ DecisionsAt(r) = DecisionsAt(r - 1) /\ EntitiesAt(r) = EntitiesAt(r - 1)
          /\ ChunksAt(r) = ChunksAt(r - 1)
        BY <1>1
           DEF SourceKindsAt, SourceStatesAt, RunStatusesAt, MethodsAt, DecisionsAt, EntitiesAt,
               ChunksAt
    <2>3. NewChecks(r, checks) = ChecksAt(r, k, c)  BY <2>1, <2>2 DEF ChecksAt
    <2> QED  BY <2>3, <2>4, <2>5
<1>2. CASE r = 4
    <2>1. NewChecks(r, checks) = [checks EXCEPT !.runStatus = Statuses4]
        BY <1>2 DEF NewChecks
    <2>4. k \in RunKindsAt(r)  BY <1>2 DEF RunKindsAt
    <2>5. c \in ConfidencesAt(r)  BY <1>2 DEF ConfidencesAt
    <2>2. /\ SourceKindsAt(r) = SourceKindsAt(r - 1) /\ SourceStatesAt(r) = SourceStatesAt(r - 1)
          /\ RunStatusesAt(r) = Statuses4 /\ MethodsAt(r) = MethodsAt(r - 1)
          /\ DecisionsAt(r) = DecisionsAt(r - 1) /\ EntitiesAt(r) = EntitiesAt(r - 1)
          /\ ChunksAt(r) = ChunksAt(r - 1)
        BY <1>2
           DEF SourceKindsAt, SourceStatesAt, RunStatusesAt, MethodsAt, DecisionsAt, EntitiesAt,
               ChunksAt
    <2>3. NewChecks(r, checks) = ChecksAt(r, k, c)  BY <2>1, <2>2 DEF ChecksAt
    <2> QED  BY <2>3, <2>4, <2>5
<1>3. CASE r = 8
    <2>1. NewChecks(r, checks) = [checks EXCEPT !.runKind = RunKinds8]
        BY <1>3 DEF NewChecks
    <2>4. RunKinds8 \in RunKindsAt(r)  BY <1>3 DEF RunKindsAt
    <2>5. c \in ConfidencesAt(r)  BY <1>3 DEF ConfidencesAt
    <2>2. /\ SourceKindsAt(r) = SourceKindsAt(r - 1) /\ SourceStatesAt(r) = SourceStatesAt(r - 1)
          /\ RunStatusesAt(r) = RunStatusesAt(r - 1) /\ MethodsAt(r) = MethodsAt(r - 1)
          /\ DecisionsAt(r) = DecisionsAt(r - 1) /\ EntitiesAt(r) = EntitiesAt(r - 1)
          /\ ChunksAt(r) = ChunksAt(r - 1)
        BY <1>3
           DEF SourceKindsAt, SourceStatesAt, RunStatusesAt, MethodsAt, DecisionsAt, EntitiesAt,
               ChunksAt
    <2>3. NewChecks(r, checks) = ChecksAt(r, RunKinds8, c)  BY <2>1, <2>2 DEF ChecksAt
    <2> QED  BY <2>3, <2>4, <2>5
<1>4. CASE r = 9
    <2>1. NewChecks(r, checks) = [checks EXCEPT !.sourceKind = Kinds9, !.runKind = RunKinds9]
        BY <1>4 DEF NewChecks
    <2>4. RunKinds9 \in RunKindsAt(r)  BY <1>4 DEF RunKindsAt
    <2>5. c \in ConfidencesAt(r)  BY <1>4 DEF ConfidencesAt
    <2>2. /\ SourceKindsAt(r) = Kinds9 /\ SourceStatesAt(r) = SourceStatesAt(r - 1)
          /\ RunStatusesAt(r) = RunStatusesAt(r - 1) /\ MethodsAt(r) = MethodsAt(r - 1)
          /\ DecisionsAt(r) = DecisionsAt(r - 1) /\ EntitiesAt(r) = EntitiesAt(r - 1)
          /\ ChunksAt(r) = ChunksAt(r - 1)
        BY <1>4
           DEF SourceKindsAt, SourceStatesAt, RunStatusesAt, MethodsAt, DecisionsAt, EntitiesAt,
               ChunksAt
    <2>3. NewChecks(r, checks) = ChecksAt(r, RunKinds9, c)  BY <2>1, <2>2 DEF ChecksAt
    <2> QED  BY <2>3, <2>4, <2>5
<1>5. CASE r = 10
    <2>1. NewChecks(r, checks) = [checks EXCEPT !.sourceStatus = States10]
        BY <1>5 DEF NewChecks
    <2>4. k \in RunKindsAt(r)  BY <1>5 DEF RunKindsAt
    <2>5. c \in ConfidencesAt(r)  BY <1>5 DEF ConfidencesAt
    <2>2. /\ SourceKindsAt(r) = SourceKindsAt(r - 1) /\ SourceStatesAt(r) = States10
          /\ RunStatusesAt(r) = RunStatusesAt(r - 1) /\ MethodsAt(r) = MethodsAt(r - 1)
          /\ DecisionsAt(r) = DecisionsAt(r - 1) /\ EntitiesAt(r) = EntitiesAt(r - 1)
          /\ ChunksAt(r) = ChunksAt(r - 1)
        BY <1>5
           DEF SourceKindsAt, SourceStatesAt, RunStatusesAt, MethodsAt, DecisionsAt, EntitiesAt,
               ChunksAt
    <2>3. NewChecks(r, checks) = ChecksAt(r, k, c)  BY <2>1, <2>2 DEF ChecksAt
    <2> QED  BY <2>3, <2>4, <2>5
<1>6. CASE r = 12
    <2>1. NewChecks(r, checks) = [checks EXCEPT !.runKind = RunKinds9]
        BY <1>6 DEF NewChecks
    <2>4. RunKinds9 \in RunKindsAt(r)  BY <1>6 DEF RunKindsAt
    <2>5. c \in ConfidencesAt(r)  BY <1>6 DEF ConfidencesAt
    <2>2. /\ SourceKindsAt(r) = SourceKindsAt(r - 1) /\ SourceStatesAt(r) = SourceStatesAt(r - 1)
          /\ RunStatusesAt(r) = RunStatusesAt(r - 1) /\ MethodsAt(r) = MethodsAt(r - 1)
          /\ DecisionsAt(r) = DecisionsAt(r - 1) /\ EntitiesAt(r) = EntitiesAt(r - 1)
          /\ ChunksAt(r) = ChunksAt(r - 1)
        BY <1>6
           DEF SourceKindsAt, SourceStatesAt, RunStatusesAt, MethodsAt, DecisionsAt, EntitiesAt,
               ChunksAt
    <2>3. NewChecks(r, checks) = ChecksAt(r, RunKinds9, c)  BY <2>1, <2>2 DEF ChecksAt
    <2> QED  BY <2>3, <2>4, <2>5
<1>7. CASE r = 14
    <2>1. NewChecks(r, checks) = [checks EXCEPT !.sourceStatus = States14]
        BY <1>7 DEF NewChecks
    <2>4. k \in RunKindsAt(r)  BY <1>7 DEF RunKindsAt
    <2>5. c \in ConfidencesAt(r)  BY <1>7 DEF ConfidencesAt
    <2>2. /\ SourceKindsAt(r) = SourceKindsAt(r - 1) /\ SourceStatesAt(r) = States14
          /\ RunStatusesAt(r) = RunStatusesAt(r - 1) /\ MethodsAt(r) = MethodsAt(r - 1)
          /\ DecisionsAt(r) = DecisionsAt(r - 1) /\ EntitiesAt(r) = EntitiesAt(r - 1)
          /\ ChunksAt(r) = ChunksAt(r - 1)
        BY <1>7
           DEF SourceKindsAt, SourceStatesAt, RunStatusesAt, MethodsAt, DecisionsAt, EntitiesAt,
               ChunksAt
    <2>3. NewChecks(r, checks) = ChecksAt(r, k, c)  BY <2>1, <2>2 DEF ChecksAt
    <2> QED  BY <2>3, <2>4, <2>5
<1>8. CASE r = 16
    <2>1. NewChecks(r, checks) = [checks EXCEPT !.runStatus = Statuses16]
        BY <1>8 DEF NewChecks
    <2>4. k \in RunKindsAt(r)  BY <1>8 DEF RunKindsAt
    <2>5. c \in ConfidencesAt(r)  BY <1>8 DEF ConfidencesAt
    <2>2. /\ SourceKindsAt(r) = SourceKindsAt(r - 1) /\ SourceStatesAt(r) = SourceStatesAt(r - 1)
          /\ RunStatusesAt(r) = Statuses16 /\ MethodsAt(r) = MethodsAt(r - 1)
          /\ DecisionsAt(r) = DecisionsAt(r - 1) /\ EntitiesAt(r) = EntitiesAt(r - 1)
          /\ ChunksAt(r) = ChunksAt(r - 1)
        BY <1>8
           DEF SourceKindsAt, SourceStatesAt, RunStatusesAt, MethodsAt, DecisionsAt, EntitiesAt,
               ChunksAt
    <2>3. NewChecks(r, checks) = ChecksAt(r, k, c)  BY <2>1, <2>2 DEF ChecksAt
    <2> QED  BY <2>3, <2>4, <2>5
<1>9. CASE r = 17
    <2>1. NewChecks(r, checks) = [checks EXCEPT !.runStatus = Statuses17]
        BY <1>9 DEF NewChecks
    <2>4. k \in RunKindsAt(r)  BY <1>9 DEF RunKindsAt
    <2>5. c \in ConfidencesAt(r)  BY <1>9 DEF ConfidencesAt
    <2>2. /\ SourceKindsAt(r) = SourceKindsAt(r - 1) /\ SourceStatesAt(r) = SourceStatesAt(r - 1)
          /\ RunStatusesAt(r) = Statuses17 /\ MethodsAt(r) = MethodsAt(r - 1)
          /\ DecisionsAt(r) = DecisionsAt(r - 1) /\ EntitiesAt(r) = EntitiesAt(r - 1)
          /\ ChunksAt(r) = ChunksAt(r - 1)
        BY <1>9
           DEF SourceKindsAt, SourceStatesAt, RunStatusesAt, MethodsAt, DecisionsAt, EntitiesAt,
               ChunksAt
    <2>3. NewChecks(r, checks) = ChecksAt(r, k, c)  BY <2>1, <2>2 DEF ChecksAt
    <2> QED  BY <2>3, <2>4, <2>5
<1>10. CASE r = 18
    <2>1. NewChecks(r, checks) = [checks EXCEPT !.confidence = TRUE]
        BY <1>10 DEF NewChecks
    <2>4. k \in RunKindsAt(r)  BY <1>10 DEF RunKindsAt
    <2>5. TRUE \in ConfidencesAt(r)  BY <1>10 DEF ConfidencesAt
    <2>2. /\ SourceKindsAt(r) = SourceKindsAt(r - 1) /\ SourceStatesAt(r) = SourceStatesAt(r - 1)
          /\ RunStatusesAt(r) = RunStatusesAt(r - 1) /\ MethodsAt(r) = MethodsAt(r - 1)
          /\ DecisionsAt(r) = DecisionsAt(r - 1) /\ EntitiesAt(r) = EntitiesAt(r - 1)
          /\ ChunksAt(r) = ChunksAt(r - 1)
        BY <1>10
           DEF SourceKindsAt, SourceStatesAt, RunStatusesAt, MethodsAt, DecisionsAt, EntitiesAt,
               ChunksAt
    <2>6. PICK e : e = TRUE  OBVIOUS
    <2>7. NewChecks(r, checks) = ChecksAt(r, k, e)
        <3>1. NewChecks(r, checks) = [checks EXCEPT !.confidence = e]  BY <2>1, <2>6
        <3> QED  BY <2>2, <3>1 DEF ChecksAt
    <2>3. NewChecks(r, checks) = ChecksAt(r, k, TRUE)  BY <2>6, <2>7
    <2> QED  BY <2>3, <2>4, <2>5
<1>11. CASE r = 20
    <2>1. NewChecks(r, checks) = [checks EXCEPT !.decision = Decisions20]
        BY <1>11 DEF NewChecks
    <2>4. k \in RunKindsAt(r)  BY <1>11 DEF RunKindsAt
    <2>5. c \in ConfidencesAt(r)  BY <1>11 DEF ConfidencesAt
    <2>2. /\ SourceKindsAt(r) = SourceKindsAt(r - 1) /\ SourceStatesAt(r) = SourceStatesAt(r - 1)
          /\ RunStatusesAt(r) = RunStatusesAt(r - 1) /\ MethodsAt(r) = MethodsAt(r - 1)
          /\ DecisionsAt(r) = Decisions20 /\ EntitiesAt(r) = EntitiesAt(r - 1)
          /\ ChunksAt(r) = ChunksAt(r - 1)
        BY <1>11
           DEF SourceKindsAt, SourceStatesAt, RunStatusesAt, MethodsAt, DecisionsAt, EntitiesAt,
               ChunksAt
    <2>3. NewChecks(r, checks) = ChecksAt(r, k, c)  BY <2>1, <2>2 DEF ChecksAt
    <2> QED  BY <2>3, <2>4, <2>5
<1>12. CASE r = 22
    <2>1. NewChecks(r, checks) = [checks EXCEPT !.decision = Decisions22, !.method = Methods22, !.entity = Entities22]
        BY <1>12 DEF NewChecks
    <2>4. k \in RunKindsAt(r)  BY <1>12 DEF RunKindsAt
    <2>5. c \in ConfidencesAt(r)  BY <1>12 DEF ConfidencesAt
    <2>2. /\ SourceKindsAt(r) = SourceKindsAt(r - 1) /\ SourceStatesAt(r) = SourceStatesAt(r - 1)
          /\ RunStatusesAt(r) = RunStatusesAt(r - 1) /\ MethodsAt(r) = Methods22
          /\ DecisionsAt(r) = Decisions22 /\ EntitiesAt(r) = Entities22
          /\ ChunksAt(r) = ChunksAt(r - 1)
        BY <1>12
           DEF SourceKindsAt, SourceStatesAt, RunStatusesAt, MethodsAt, DecisionsAt, EntitiesAt,
               ChunksAt
    <2>3. NewChecks(r, checks) = ChecksAt(r, k, c)  BY <2>1, <2>2 DEF ChecksAt
    <2> QED  BY <2>3, <2>4, <2>5
<1>13. CASE r = 23
    <2>1. NewChecks(r, checks) = [checks EXCEPT !.confidence = FALSE]
        BY <1>13 DEF NewChecks
    <2>4. k \in RunKindsAt(r)  BY <1>13 DEF RunKindsAt
    <2>5. FALSE \in ConfidencesAt(r)  BY <1>13 DEF ConfidencesAt
    <2>2. /\ SourceKindsAt(r) = SourceKindsAt(r - 1) /\ SourceStatesAt(r) = SourceStatesAt(r - 1)
          /\ RunStatusesAt(r) = RunStatusesAt(r - 1) /\ MethodsAt(r) = MethodsAt(r - 1)
          /\ DecisionsAt(r) = DecisionsAt(r - 1) /\ EntitiesAt(r) = EntitiesAt(r - 1)
          /\ ChunksAt(r) = ChunksAt(r - 1)
        BY <1>13
           DEF SourceKindsAt, SourceStatesAt, RunStatusesAt, MethodsAt, DecisionsAt, EntitiesAt,
               ChunksAt
    <2>6. PICK e : e = FALSE  OBVIOUS
    <2>7. NewChecks(r, checks) = ChecksAt(r, k, e)
        <3>1. NewChecks(r, checks) = [checks EXCEPT !.confidence = e]  BY <2>1, <2>6
        <3> QED  BY <2>2, <3>1 DEF ChecksAt
    <2>3. NewChecks(r, checks) = ChecksAt(r, k, FALSE)  BY <2>6, <2>7
    <2> QED  BY <2>3, <2>4, <2>5
<1>14. CASE r = 25
    <2>1. NewChecks(r, checks) = [checks EXCEPT !.sourceKind = Kinds25, !.runKind = RunKinds25]
        BY <1>14 DEF NewChecks
    <2>4. RunKinds25 \in RunKindsAt(r)  BY <1>14 DEF RunKindsAt
    <2>5. c \in ConfidencesAt(r)  BY <1>14 DEF ConfidencesAt
    <2>2. /\ SourceKindsAt(r) = Kinds25 /\ SourceStatesAt(r) = SourceStatesAt(r - 1)
          /\ RunStatusesAt(r) = RunStatusesAt(r - 1) /\ MethodsAt(r) = MethodsAt(r - 1)
          /\ DecisionsAt(r) = DecisionsAt(r - 1) /\ EntitiesAt(r) = EntitiesAt(r - 1)
          /\ ChunksAt(r) = ChunksAt(r - 1)
        BY <1>14
           DEF SourceKindsAt, SourceStatesAt, RunStatusesAt, MethodsAt, DecisionsAt, EntitiesAt,
               ChunksAt
    <2>3. NewChecks(r, checks) = ChecksAt(r, RunKinds25, c)  BY <2>1, <2>2 DEF ChecksAt
    <2> QED  BY <2>3, <2>4, <2>5
<1>15. CASE r = 26
    <2>1. NewChecks(r, checks) = [checks EXCEPT !.chunk = BOOLEAN]
        BY <1>15 DEF NewChecks
    <2>4. k \in RunKindsAt(r)  BY <1>15 DEF RunKindsAt
    <2>5. c \in ConfidencesAt(r)  BY <1>15 DEF ConfidencesAt
    <2>2. /\ SourceKindsAt(r) = SourceKindsAt(r - 1) /\ SourceStatesAt(r) = SourceStatesAt(r - 1)
          /\ RunStatusesAt(r) = RunStatusesAt(r - 1) /\ MethodsAt(r) = MethodsAt(r - 1)
          /\ DecisionsAt(r) = DecisionsAt(r - 1) /\ EntitiesAt(r) = EntitiesAt(r - 1)
          /\ ChunksAt(r) = BOOLEAN
        BY <1>15
           DEF SourceKindsAt, SourceStatesAt, RunStatusesAt, MethodsAt, DecisionsAt, EntitiesAt,
               ChunksAt
    <2>3. NewChecks(r, checks) = ChecksAt(r, k, c)  BY <2>1, <2>2 DEF ChecksAt
    <2> QED  BY <2>3, <2>4, <2>5
<1>16. CASE r \notin {2, 4, 8, 9, 10, 12, 14, 16, 17, 18, 20, 22, 23, 25, 26}
    <2>1. NewChecks(r, checks) = checks  BY <1>16 DEF NewChecks
    <2>4. k \in RunKindsAt(r)  BY <1>16 DEF RunKindsAt
    <2>5. c \in ConfidencesAt(r)
        <3>1. ConfidencesAt(r) = ConfidencesAt(r - 1)  BY <1>16 DEF ConfidencesAt
        <3> QED  BY <3>1
    <2>2. /\ SourceKindsAt(r) = SourceKindsAt(r - 1) /\ SourceStatesAt(r) = SourceStatesAt(r - 1)
          /\ RunStatusesAt(r) = RunStatusesAt(r - 1) /\ MethodsAt(r) = MethodsAt(r - 1)
          /\ DecisionsAt(r) = DecisionsAt(r - 1) /\ EntitiesAt(r) = EntitiesAt(r - 1)
          /\ ChunksAt(r) = ChunksAt(r - 1)
        BY <1>16
           DEF SourceKindsAt, SourceStatesAt, RunStatusesAt, MethodsAt, DecisionsAt, EntitiesAt,
               ChunksAt
    <2>3. NewChecks(r, checks) = ChecksAt(r, k, c)  BY <2>1, <2>2 DEF ChecksAt
    <2> QED  BY <2>3, <2>4, <2>5
<1> QED
    BY <1>1, <1>2, <1>3, <1>4, <1>5, <1>6, <1>7, <1>8, <1>9,
       <1>10, <1>11, <1>12, <1>13, <1>14, <1>15, <1>16

LEMMA ChecksBelow ==
    ASSUME NEW r \in 2..Latest, NEW k \in RunKindsAt(r), NEW c \in ConfidencesAt(r)
    PROVE  \E l \in RunKindsAt(r - 1), e \in ConfidencesAt(r - 1) :
              OldChecks(r, ChecksAt(r, k, c)) = ChecksAt(r - 1, l, e)
<1> USE DEF Latest
<1> PICK checks : checks = ChecksAt(r, k, c)  OBVIOUS
<1>1. CASE r = 2
    <2>1. OldChecks(r, checks) = [checks EXCEPT !.method = Methods1]
        BY <1>1 DEF OldChecks
    <2>4. k \in RunKindsAt(r - 1)  BY <1>1 DEF RunKindsAt
    <2>5. c \in ConfidencesAt(r - 1)  BY <1>1 DEF ConfidencesAt
    <2>2. /\ SourceKindsAt(r - 1) = SourceKindsAt(r) /\ SourceStatesAt(r - 1) = SourceStatesAt(r)
          /\ RunStatusesAt(r - 1) = RunStatusesAt(r) /\ MethodsAt(r - 1) = Methods1
          /\ DecisionsAt(r - 1) = DecisionsAt(r) /\ EntitiesAt(r - 1) = EntitiesAt(r)
          /\ ChunksAt(r - 1) = ChunksAt(r)
        BY <1>1
           DEF SourceKindsAt, SourceStatesAt, RunStatusesAt, MethodsAt, DecisionsAt, EntitiesAt,
               ChunksAt
    <2>3. OldChecks(r, checks) = ChecksAt(r - 1, k, c)  BY <2>1, <2>2 DEF ChecksAt
    <2> QED  BY <2>3, <2>4, <2>5
<1>2. CASE r = 4
    <2>1. OldChecks(r, checks) = [checks EXCEPT !.runStatus = Statuses1]
        BY <1>2 DEF OldChecks
    <2>4. k \in RunKindsAt(r - 1)  BY <1>2 DEF RunKindsAt
    <2>5. c \in ConfidencesAt(r - 1)  BY <1>2 DEF ConfidencesAt
    <2>2. /\ SourceKindsAt(r - 1) = SourceKindsAt(r) /\ SourceStatesAt(r - 1) = SourceStatesAt(r)
          /\ RunStatusesAt(r - 1) = Statuses1 /\ MethodsAt(r - 1) = MethodsAt(r)
          /\ DecisionsAt(r - 1) = DecisionsAt(r) /\ EntitiesAt(r - 1) = EntitiesAt(r)
          /\ ChunksAt(r - 1) = ChunksAt(r)
        BY <1>2
           DEF SourceKindsAt, SourceStatesAt, RunStatusesAt, MethodsAt, DecisionsAt, EntitiesAt,
               ChunksAt
    <2>3. OldChecks(r, checks) = ChecksAt(r - 1, k, c)  BY <2>1, <2>2 DEF ChecksAt
    <2> QED  BY <2>3, <2>4, <2>5
<1>3. CASE r = 8
    <2>1. OldChecks(r, checks) = [checks EXCEPT !.runKind = RunKinds1]
        BY <1>3 DEF OldChecks
    <2>4. RunKinds1 \in RunKindsAt(r - 1)  BY <1>3 DEF RunKindsAt
    <2>5. c \in ConfidencesAt(r - 1)  BY <1>3 DEF ConfidencesAt
    <2>2. /\ SourceKindsAt(r - 1) = SourceKindsAt(r) /\ SourceStatesAt(r - 1) = SourceStatesAt(r)
          /\ RunStatusesAt(r - 1) = RunStatusesAt(r) /\ MethodsAt(r - 1) = MethodsAt(r)
          /\ DecisionsAt(r - 1) = DecisionsAt(r) /\ EntitiesAt(r - 1) = EntitiesAt(r)
          /\ ChunksAt(r - 1) = ChunksAt(r)
        BY <1>3
           DEF SourceKindsAt, SourceStatesAt, RunStatusesAt, MethodsAt, DecisionsAt, EntitiesAt,
               ChunksAt
    <2>3. OldChecks(r, checks) = ChecksAt(r - 1, RunKinds1, c)  BY <2>1, <2>2 DEF ChecksAt
    <2> QED  BY <2>3, <2>4, <2>5
<1>4. CASE r = 9
    <2>1. OldChecks(r, checks) = [checks EXCEPT !.sourceKind = Kinds1, !.runKind = RunKinds8]
        BY <1>4 DEF OldChecks
    <2>4. RunKinds8 \in RunKindsAt(r - 1)  BY <1>4 DEF RunKindsAt
    <2>5. c \in ConfidencesAt(r - 1)  BY <1>4 DEF ConfidencesAt
    <2>2. /\ SourceKindsAt(r - 1) = Kinds1 /\ SourceStatesAt(r - 1) = SourceStatesAt(r)
          /\ RunStatusesAt(r - 1) = RunStatusesAt(r) /\ MethodsAt(r - 1) = MethodsAt(r)
          /\ DecisionsAt(r - 1) = DecisionsAt(r) /\ EntitiesAt(r - 1) = EntitiesAt(r)
          /\ ChunksAt(r - 1) = ChunksAt(r)
        BY <1>4
           DEF SourceKindsAt, SourceStatesAt, RunStatusesAt, MethodsAt, DecisionsAt, EntitiesAt,
               ChunksAt
    <2>3. OldChecks(r, checks) = ChecksAt(r - 1, RunKinds8, c)  BY <2>1, <2>2 DEF ChecksAt
    <2> QED  BY <2>3, <2>4, <2>5
<1>5. CASE r = 10
    <2>1. OldChecks(r, checks) = [checks EXCEPT !.sourceStatus = {Absent}]
        BY <1>5 DEF OldChecks
    <2>4. k \in RunKindsAt(r - 1)  BY <1>5 DEF RunKindsAt
    <2>5. c \in ConfidencesAt(r - 1)  BY <1>5 DEF ConfidencesAt
    <2>2. /\ SourceKindsAt(r - 1) = SourceKindsAt(r) /\ SourceStatesAt(r - 1) = {Absent}
          /\ RunStatusesAt(r - 1) = RunStatusesAt(r) /\ MethodsAt(r - 1) = MethodsAt(r)
          /\ DecisionsAt(r - 1) = DecisionsAt(r) /\ EntitiesAt(r - 1) = EntitiesAt(r)
          /\ ChunksAt(r - 1) = ChunksAt(r)
        BY <1>5
           DEF SourceKindsAt, SourceStatesAt, RunStatusesAt, MethodsAt, DecisionsAt, EntitiesAt,
               ChunksAt
    <2>3. OldChecks(r, checks) = ChecksAt(r - 1, k, c)  BY <2>1, <2>2 DEF ChecksAt
    <2> QED  BY <2>3, <2>4, <2>5
<1>6. CASE r = 12
    <2>1. OldChecks(r, checks) = [checks EXCEPT !.runKind = Pipelines]
        BY <1>6 DEF OldChecks
    <2>4. Pipelines \in RunKindsAt(r - 1)  BY <1>6 DEF RunKindsAt
    <2>5. c \in ConfidencesAt(r - 1)  BY <1>6 DEF ConfidencesAt
    <2>2. /\ SourceKindsAt(r - 1) = SourceKindsAt(r) /\ SourceStatesAt(r - 1) = SourceStatesAt(r)
          /\ RunStatusesAt(r - 1) = RunStatusesAt(r) /\ MethodsAt(r - 1) = MethodsAt(r)
          /\ DecisionsAt(r - 1) = DecisionsAt(r) /\ EntitiesAt(r - 1) = EntitiesAt(r)
          /\ ChunksAt(r - 1) = ChunksAt(r)
        BY <1>6
           DEF SourceKindsAt, SourceStatesAt, RunStatusesAt, MethodsAt, DecisionsAt, EntitiesAt,
               ChunksAt
    <2>3. OldChecks(r, checks) = ChecksAt(r - 1, Pipelines, c)  BY <2>1, <2>2 DEF ChecksAt
    <2> QED  BY <2>3, <2>4, <2>5
<1>7. CASE r = 14
    <2>1. OldChecks(r, checks) = [checks EXCEPT !.sourceStatus = States10]
        BY <1>7 DEF OldChecks
    <2>4. k \in RunKindsAt(r - 1)  BY <1>7 DEF RunKindsAt
    <2>5. c \in ConfidencesAt(r - 1)  BY <1>7 DEF ConfidencesAt
    <2>2. /\ SourceKindsAt(r - 1) = SourceKindsAt(r) /\ SourceStatesAt(r - 1) = States10
          /\ RunStatusesAt(r - 1) = RunStatusesAt(r) /\ MethodsAt(r - 1) = MethodsAt(r)
          /\ DecisionsAt(r - 1) = DecisionsAt(r) /\ EntitiesAt(r - 1) = EntitiesAt(r)
          /\ ChunksAt(r - 1) = ChunksAt(r)
        BY <1>7
           DEF SourceKindsAt, SourceStatesAt, RunStatusesAt, MethodsAt, DecisionsAt, EntitiesAt,
               ChunksAt
    <2>3. OldChecks(r, checks) = ChecksAt(r - 1, k, c)  BY <2>1, <2>2 DEF ChecksAt
    <2> QED  BY <2>3, <2>4, <2>5
<1>8. CASE r = 16
    <2>1. OldChecks(r, checks) = [checks EXCEPT !.runStatus = Statuses4]
        BY <1>8 DEF OldChecks
    <2>4. k \in RunKindsAt(r - 1)  BY <1>8 DEF RunKindsAt
    <2>5. c \in ConfidencesAt(r - 1)  BY <1>8 DEF ConfidencesAt
    <2>2. /\ SourceKindsAt(r - 1) = SourceKindsAt(r) /\ SourceStatesAt(r - 1) = SourceStatesAt(r)
          /\ RunStatusesAt(r - 1) = Statuses4 /\ MethodsAt(r - 1) = MethodsAt(r)
          /\ DecisionsAt(r - 1) = DecisionsAt(r) /\ EntitiesAt(r - 1) = EntitiesAt(r)
          /\ ChunksAt(r - 1) = ChunksAt(r)
        BY <1>8
           DEF SourceKindsAt, SourceStatesAt, RunStatusesAt, MethodsAt, DecisionsAt, EntitiesAt,
               ChunksAt
    <2>3. OldChecks(r, checks) = ChecksAt(r - 1, k, c)  BY <2>1, <2>2 DEF ChecksAt
    <2> QED  BY <2>3, <2>4, <2>5
<1>9. CASE r = 17
    <2>1. OldChecks(r, checks) = [checks EXCEPT !.runStatus = Statuses16]
        BY <1>9 DEF OldChecks
    <2>4. k \in RunKindsAt(r - 1)  BY <1>9 DEF RunKindsAt
    <2>5. c \in ConfidencesAt(r - 1)  BY <1>9 DEF ConfidencesAt
    <2>2. /\ SourceKindsAt(r - 1) = SourceKindsAt(r) /\ SourceStatesAt(r - 1) = SourceStatesAt(r)
          /\ RunStatusesAt(r - 1) = Statuses16 /\ MethodsAt(r - 1) = MethodsAt(r)
          /\ DecisionsAt(r - 1) = DecisionsAt(r) /\ EntitiesAt(r - 1) = EntitiesAt(r)
          /\ ChunksAt(r - 1) = ChunksAt(r)
        BY <1>9
           DEF SourceKindsAt, SourceStatesAt, RunStatusesAt, MethodsAt, DecisionsAt, EntitiesAt,
               ChunksAt
    <2>3. OldChecks(r, checks) = ChecksAt(r - 1, k, c)  BY <2>1, <2>2 DEF ChecksAt
    <2> QED  BY <2>3, <2>4, <2>5
<1>10. CASE r = 18
    <2>1. OldChecks(r, checks) = [checks EXCEPT !.confidence = FALSE]
        BY <1>10 DEF OldChecks
    <2>4. k \in RunKindsAt(r - 1)  BY <1>10 DEF RunKindsAt
    <2>5. FALSE \in ConfidencesAt(r - 1)  BY <1>10 DEF ConfidencesAt
    <2>2. /\ SourceKindsAt(r - 1) = SourceKindsAt(r) /\ SourceStatesAt(r - 1) = SourceStatesAt(r)
          /\ RunStatusesAt(r - 1) = RunStatusesAt(r) /\ MethodsAt(r - 1) = MethodsAt(r)
          /\ DecisionsAt(r - 1) = DecisionsAt(r) /\ EntitiesAt(r - 1) = EntitiesAt(r)
          /\ ChunksAt(r - 1) = ChunksAt(r)
        BY <1>10
           DEF SourceKindsAt, SourceStatesAt, RunStatusesAt, MethodsAt, DecisionsAt, EntitiesAt,
               ChunksAt
    <2>6. PICK e : e = FALSE  OBVIOUS
    <2>7. OldChecks(r, checks) = ChecksAt(r - 1, k, e)
        <3>1. OldChecks(r, checks) = [checks EXCEPT !.confidence = e]  BY <2>1, <2>6
        <3> QED  BY <2>2, <3>1 DEF ChecksAt
    <2>3. OldChecks(r, checks) = ChecksAt(r - 1, k, FALSE)  BY <2>6, <2>7
    <2> QED  BY <2>3, <2>4, <2>5
<1>11. CASE r = 20
    <2>1. OldChecks(r, checks) = [checks EXCEPT !.decision = {}]
        BY <1>11 DEF OldChecks
    <2>4. k \in RunKindsAt(r - 1)  BY <1>11 DEF RunKindsAt
    <2>5. c \in ConfidencesAt(r - 1)  BY <1>11 DEF ConfidencesAt
    <2>2. /\ SourceKindsAt(r - 1) = SourceKindsAt(r) /\ SourceStatesAt(r - 1) = SourceStatesAt(r)
          /\ RunStatusesAt(r - 1) = RunStatusesAt(r) /\ MethodsAt(r - 1) = MethodsAt(r)
          /\ DecisionsAt(r - 1) = {} /\ EntitiesAt(r - 1) = EntitiesAt(r)
          /\ ChunksAt(r - 1) = ChunksAt(r)
        BY <1>11
           DEF SourceKindsAt, SourceStatesAt, RunStatusesAt, MethodsAt, DecisionsAt, EntitiesAt,
               ChunksAt
    <2>3. OldChecks(r, checks) = ChecksAt(r - 1, k, c)  BY <2>1, <2>2 DEF ChecksAt
    <2> QED  BY <2>3, <2>4, <2>5
<1>12. CASE r = 22
    <2>1. OldChecks(r, checks) = [checks EXCEPT !.decision = Decisions20, !.method = Methods2, !.entity = {Absent}]
        BY <1>12 DEF OldChecks
    <2>4. k \in RunKindsAt(r - 1)  BY <1>12 DEF RunKindsAt
    <2>5. c \in ConfidencesAt(r - 1)  BY <1>12 DEF ConfidencesAt
    <2>2. /\ SourceKindsAt(r - 1) = SourceKindsAt(r) /\ SourceStatesAt(r - 1) = SourceStatesAt(r)
          /\ RunStatusesAt(r - 1) = RunStatusesAt(r) /\ MethodsAt(r - 1) = Methods2
          /\ DecisionsAt(r - 1) = Decisions20 /\ EntitiesAt(r - 1) = {Absent}
          /\ ChunksAt(r - 1) = ChunksAt(r)
        BY <1>12
           DEF SourceKindsAt, SourceStatesAt, RunStatusesAt, MethodsAt, DecisionsAt, EntitiesAt,
               ChunksAt
    <2>3. OldChecks(r, checks) = ChecksAt(r - 1, k, c)  BY <2>1, <2>2 DEF ChecksAt
    <2> QED  BY <2>3, <2>4, <2>5
<1>13. CASE r = 23
    <2>1. OldChecks(r, checks) = checks  BY <1>13 DEF OldChecks
    <2>4. k \in RunKindsAt(r - 1)  BY <1>13 DEF RunKindsAt
    <2>5. c \in ConfidencesAt(r - 1)
        <3>1. ConfidencesAt(r) = {FALSE} /\ ConfidencesAt(r - 1) = BOOLEAN
            BY <1>13 DEF ConfidencesAt
        <3>2. c = FALSE  BY <3>1, Zenon
        <3> QED  BY <3>1, <3>2, Zenon
    <2>2. /\ SourceKindsAt(r - 1) = SourceKindsAt(r) /\ SourceStatesAt(r - 1) = SourceStatesAt(r)
          /\ RunStatusesAt(r - 1) = RunStatusesAt(r) /\ MethodsAt(r - 1) = MethodsAt(r)
          /\ DecisionsAt(r - 1) = DecisionsAt(r) /\ EntitiesAt(r - 1) = EntitiesAt(r)
          /\ ChunksAt(r - 1) = ChunksAt(r)
        BY <1>13
           DEF SourceKindsAt, SourceStatesAt, RunStatusesAt, MethodsAt, DecisionsAt, EntitiesAt,
               ChunksAt
    <2>3. OldChecks(r, checks) = ChecksAt(r - 1, k, c)  BY <2>1, <2>2 DEF ChecksAt
    <2> QED  BY <2>3, <2>4, <2>5
<1>14. CASE r = 25
    <2>1. OldChecks(r, checks) = [checks EXCEPT !.sourceKind = Kinds9, !.runKind = RunKinds9]
        BY <1>14 DEF OldChecks
    <2>4. RunKinds9 \in RunKindsAt(r - 1)  BY <1>14 DEF RunKindsAt
    <2>5. c \in ConfidencesAt(r - 1)  BY <1>14 DEF ConfidencesAt
    <2>2. /\ SourceKindsAt(r - 1) = Kinds9 /\ SourceStatesAt(r - 1) = SourceStatesAt(r)
          /\ RunStatusesAt(r - 1) = RunStatusesAt(r) /\ MethodsAt(r - 1) = MethodsAt(r)
          /\ DecisionsAt(r - 1) = DecisionsAt(r) /\ EntitiesAt(r - 1) = EntitiesAt(r)
          /\ ChunksAt(r - 1) = ChunksAt(r)
        BY <1>14
           DEF SourceKindsAt, SourceStatesAt, RunStatusesAt, MethodsAt, DecisionsAt, EntitiesAt,
               ChunksAt
    <2>3. OldChecks(r, checks) = ChecksAt(r - 1, RunKinds9, c)  BY <2>1, <2>2 DEF ChecksAt
    <2> QED  BY <2>3, <2>4, <2>5
<1>15. CASE r = 26
    <2>1. OldChecks(r, checks) = [checks EXCEPT !.chunk = {TRUE}]
        BY <1>15 DEF OldChecks
    <2>4. k \in RunKindsAt(r - 1)  BY <1>15 DEF RunKindsAt
    <2>5. c \in ConfidencesAt(r - 1)  BY <1>15 DEF ConfidencesAt
    <2>2. /\ SourceKindsAt(r - 1) = SourceKindsAt(r) /\ SourceStatesAt(r - 1) = SourceStatesAt(r)
          /\ RunStatusesAt(r - 1) = RunStatusesAt(r) /\ MethodsAt(r - 1) = MethodsAt(r)
          /\ DecisionsAt(r - 1) = DecisionsAt(r) /\ EntitiesAt(r - 1) = EntitiesAt(r)
          /\ ChunksAt(r - 1) = {TRUE}
        BY <1>15
           DEF SourceKindsAt, SourceStatesAt, RunStatusesAt, MethodsAt, DecisionsAt, EntitiesAt,
               ChunksAt
    <2>3. OldChecks(r, checks) = ChecksAt(r - 1, k, c)  BY <2>1, <2>2 DEF ChecksAt
    <2> QED  BY <2>3, <2>4, <2>5
<1>16. CASE r \notin {2, 4, 8, 9, 10, 12, 14, 16, 17, 18, 20, 22, 23, 25, 26}
    <2>1. OldChecks(r, checks) = checks  BY <1>16 DEF OldChecks
    <2>4. k \in RunKindsAt(r - 1)  BY <1>16 DEF RunKindsAt
    <2>5. c \in ConfidencesAt(r - 1)
        <3>1. ConfidencesAt(r - 1) = ConfidencesAt(r)  BY <1>16 DEF ConfidencesAt
        <3> QED  BY <3>1
    <2>2. /\ SourceKindsAt(r - 1) = SourceKindsAt(r) /\ SourceStatesAt(r - 1) = SourceStatesAt(r)
          /\ RunStatusesAt(r - 1) = RunStatusesAt(r) /\ MethodsAt(r - 1) = MethodsAt(r)
          /\ DecisionsAt(r - 1) = DecisionsAt(r) /\ EntitiesAt(r - 1) = EntitiesAt(r)
          /\ ChunksAt(r - 1) = ChunksAt(r)
        BY <1>16
           DEF SourceKindsAt, SourceStatesAt, RunStatusesAt, MethodsAt, DecisionsAt, EntitiesAt,
               ChunksAt
    <2>3. OldChecks(r, checks) = ChecksAt(r - 1, k, c)  BY <2>1, <2>2 DEF ChecksAt
    <2> QED  BY <2>3, <2>4, <2>5
<1> QED
    BY <1>1, <1>2, <1>3, <1>4, <1>5, <1>6, <1>7, <1>8, <1>9,
       <1>10, <1>11, <1>12, <1>13, <1>14, <1>15, <1>16

-----------------------------------------------------------------------------
\* A step that commits leaves a database of its revision.

LEMMA AboveIs ==
    ASSUME NEW d
    PROVE  /\ Above(d).rev = d.rev + 1 /\ Above(d).checks = NewChecks(d.rev + 1, d.checks)
           /\ Above(d).index = IndexedBy(d.rev + 1) /\ Above(d).rows = Upgraded(d.rev + 1, d.rows)
    BY DEF Above

LEMMA BelowIs ==
    ASSUME NEW d
    PROVE  /\ Below(d).rev = d.rev - 1 /\ Below(d).checks = OldChecks(d.rev, d.checks)
           /\ Below(d).index = IndexedBy(d.rev - 1) /\ Below(d).rows = Downgraded(d.rev, d.rows)
    BY DEF Below

LEMMA SchemaAbove ==
    ASSUME NEW d, IsSchema(d), d.rev < Latest
    PROVE  /\ Above(d).rev \in 1..Latest
           /\ Above(d).checks.runKind \in RunKindsAt(Above(d).rev)
           /\ Above(d).checks.confidence \in ConfidencesAt(Above(d).rev)
           /\ Above(d).checks = ChecksAt(Above(d).rev, Above(d).checks.runKind, Above(d).checks.confidence)
           /\ Above(d).index = IndexedBy(Above(d).rev)
           /\ IsDatabase(Above(d).rows)
           /\ Above(d).rev < 20 => DOMAIN Above(d).rows.candidates = {}
<1> DEFINE r == d.rev + 1
<1>1. r \in 2..Latest /\ r - 1 = d.rev /\ r \in Nat /\ d.rev \in Nat
    BY DEF IsSchema, Latest
<1>2. \E l \in RunKindsAt(r), e \in ConfidencesAt(r) : Above(d).checks = ChecksAt(r, l, e)
    <2>1. /\ d.checks.runKind \in RunKindsAt(r - 1)
          /\ d.checks.confidence \in ConfidencesAt(r - 1)
          /\ d.checks = ChecksAt(r - 1, d.checks.runKind, d.checks.confidence)
        BY <1>1 DEF IsSchema
    <2>2. Above(d).checks = NewChecks(r, d.checks)  BY AboveIs
    <2> HIDE DEF r
    <2> QED  BY <1>1, <2>1, <2>2, ChecksAbove
<1>3. /\ Above(d).checks.runKind \in RunKindsAt(r)
      /\ Above(d).checks.confidence \in ConfidencesAt(r)
      /\ Above(d).checks = ChecksAt(r, Above(d).checks.runKind, Above(d).checks.confidence)
    <2>1. PICK l \in RunKindsAt(r), e \in ConfidencesAt(r) : Above(d).checks = ChecksAt(r, l, e)
        BY <1>2
    <2>2. Above(d).checks.runKind = l /\ Above(d).checks.confidence = e  BY <2>1 DEF ChecksAt
    <2> QED  BY <2>1, <2>2
<1>4. IsDatabase(Upgraded(r, d.rows))
    <2>1. IsDatabase(d.rows)
          /\ \A x \in DOMAIN d.rows.runs : d.rows.runs[x].source \in DOMAIN d.rows.sources
        BY DEF IsSchema, Fits, Referenced
    <2> QED  BY <1>1, <2>1, UpgradedTypes
<1>5. r < 20 => DOMAIN Upgraded(r, d.rows).candidates = {}
    <2>1. d.rev < 20 => DOMAIN d.rows.candidates = {}  BY DEF IsSchema
    <2>2. DOMAIN Upgraded(r, d.rows).candidates = DOMAIN d.rows.candidates
        BY <1>1, UpgradedOthers DEF IsSchema
    <2> QED  BY <1>1, <2>1, <2>2
<1>6. Above(d).rev = r /\ Above(d).index = IndexedBy(r) /\ Above(d).rows = Upgraded(r, d.rows)
    BY AboveIs
<1> HIDE DEF r
<1> QED  BY <1>1, <1>3, <1>4, <1>5, <1>6 DEF Latest

LEMMA SchemaBelow ==
    ASSUME NEW d, IsSchema(d), d.rev > 1
    PROVE  /\ Below(d).rev \in 1..Latest
           /\ Below(d).checks.runKind \in RunKindsAt(Below(d).rev)
           /\ Below(d).checks.confidence \in ConfidencesAt(Below(d).rev)
           /\ Below(d).checks = ChecksAt(Below(d).rev, Below(d).checks.runKind, Below(d).checks.confidence)
           /\ Below(d).index = IndexedBy(Below(d).rev)
           /\ IsDatabase(Below(d).rows)
           /\ Below(d).rev < 20 => DOMAIN Below(d).rows.candidates = {}
<1> DEFINE r == d.rev
<1>1. r \in 2..Latest /\ r \in Nat /\ r - 1 \in Nat /\ r - 1 \in 1..Latest
    BY DEF IsSchema, Latest
<1>2. \E l \in RunKindsAt(r - 1), e \in ConfidencesAt(r - 1) : Below(d).checks = ChecksAt(r - 1, l, e)
    <2>1. /\ d.checks.runKind \in RunKindsAt(r)
          /\ d.checks.confidence \in ConfidencesAt(r)
          /\ d.checks = ChecksAt(r, d.checks.runKind, d.checks.confidence)
        BY <1>1 DEF IsSchema
    <2>2. Below(d).checks = OldChecks(r, d.checks)  BY BelowIs
    <2> HIDE DEF r
    <2> QED  BY <1>1, <2>1, <2>2, ChecksBelow
<1>3. /\ Below(d).checks.runKind \in RunKindsAt(r - 1)
      /\ Below(d).checks.confidence \in ConfidencesAt(r - 1)
      /\ Below(d).checks = ChecksAt(r - 1, Below(d).checks.runKind, Below(d).checks.confidence)
    <2>1. PICK l \in RunKindsAt(r - 1), e \in ConfidencesAt(r - 1) : Below(d).checks = ChecksAt(r - 1, l, e)
        BY <1>2
    <2>2. Below(d).checks.runKind = l /\ Below(d).checks.confidence = e  BY <2>1 DEF ChecksAt
    <2> QED  BY <2>1, <2>2
<1>4. IsDatabase(d.rows)  BY DEF IsSchema
<1>5. IsDatabase(Downgraded(r, d.rows))  BY <1>1, <1>4, DowngradedTypes
<1>6. r - 1 < 20 => DOMAIN Downgraded(r, d.rows).candidates = {}
    <2>1. d.rev < 20 => DOMAIN d.rows.candidates = {}  BY DEF IsSchema
    <2>2. r = 20 \/ DOMAIN d.rows.candidates = {} => DOMAIN Downgraded(r, d.rows).candidates = {}
        BY <1>1, <1>4, DowngradedTypes
    <2> QED  BY <1>1, <2>1, <2>2
<1>7. /\ Below(d).rev = r - 1 /\ Below(d).index = IndexedBy(r - 1)
      /\ Below(d).rows = Downgraded(r, d.rows)
    BY BelowIs
<1> HIDE DEF r
<1> QED  BY <1>1, <1>3, <1>5, <1>6, <1>7

LEMMA HeadChecks == ModelChecks = ChecksAt(Latest, RunKinds25, FALSE)
<1>1. ModelChecks.sourceKind = Kinds25 /\ ModelChecks.sourceStatus = States14
    BY DEF ModelChecks, Kinds25, States14
<1>2. ModelChecks.runKind = RunKinds25
    BY DEF ModelChecks, RunKinds25, RunKinds9
<1>3. ModelChecks.runStatus = Statuses17
    BY DEF ModelChecks, Statuses17
<1>4. ModelChecks.method = Methods22
    BY DEF ModelChecks, Methods22, Methods2, Methods1
<1>5. ModelChecks.decision = Decisions22
    BY DEF ModelChecks, Decisions22, Decisions20
<1>6. ModelChecks.chunk = BOOLEAN /\ ModelChecks.confidence = FALSE  BY DEF ModelChecks
<1>9. ModelChecks.entity = Entities22  BY DEF ModelChecks, Entities22
<1>7. ModelChecks = [sourceKind |-> ModelChecks.sourceKind,
                     sourceStatus |-> ModelChecks.sourceStatus,
                     runKind |-> ModelChecks.runKind,
                     runStatus |-> ModelChecks.runStatus,
                     method |-> ModelChecks.method, decision |-> ModelChecks.decision,
                     entity |-> ModelChecks.entity,
                     chunk |-> ModelChecks.chunk, confidence |-> ModelChecks.confidence]
    BY DEF ModelChecks
<1>8. /\ SourceKindsAt(27) = Kinds25 /\ SourceStatesAt(27) = States14
      /\ RunStatusesAt(27) = Statuses17 /\ MethodsAt(27) = Methods22
      /\ DecisionsAt(27) = Decisions22 /\ ChunksAt(27) = BOOLEAN
      /\ EntitiesAt(27) = Entities22
    BY DEF SourceKindsAt, SourceStatesAt, RunStatusesAt, MethodsAt, DecisionsAt, ChunksAt, EntitiesAt
<1> QED  BY <1>1, <1>2, <1>3, <1>4, <1>5, <1>6, <1>7, <1>8, <1>9 DEF ChecksAt, Latest

LEMMA PlacedInit == SchemaInit => Placed
<1> SUFFICES ASSUME SchemaInit PROVE Placed  OBVIOUS
<1>1. Fits(db) /\ was = db /\ low = db.rev  BY DEF SchemaInit
<1>2. IsSchema(db) /\ db.rev \in {1, Latest}
    <2>1. CASE \E rows \in HeadRows : db = [rev |-> Latest, checks |-> ModelChecks,
                                            index |-> IndexedBy(Latest), rows |-> rows]
        <3>1. PICK rows \in HeadRows : db = [rev |-> Latest, checks |-> ModelChecks,
                                             index |-> IndexedBy(Latest), rows |-> rows]
            BY <2>1
        <3>2. ModelChecks = ChecksAt(Latest, RunKinds25, FALSE)  BY HeadChecks
        <3>3. RunKinds25 \in RunKindsAt(Latest) /\ FALSE \in ConfidencesAt(Latest)
            BY DEF RunKindsAt, ConfidencesAt, Latest
        <3>4. db.checks.runKind = RunKinds25 /\ db.checks.confidence = FALSE  BY <3>1, <3>2 DEF ChecksAt
        <3>5. db.rev = Latest /\ db.checks = ChecksAt(Latest, RunKinds25, FALSE)
              /\ db.index = IndexedBy(Latest)
            BY <3>1, <3>2
        <3>6. IsDatabase(db.rows)  BY <3>1, HeadTypes
        <3>7. Latest \in 1..Latest /\ ~(Latest < 20)  BY DEF Latest
        <3> QED  BY <1>1, <3>3, <3>4, <3>5, <3>6, <3>7 DEF IsSchema
    <2>2. CASE \E rows \in LegacyRows : db = [rev |-> 1, checks |-> FirstChecks,
                                              index |-> IndexedBy(1), rows |-> rows]
        <3>1. PICK rows \in LegacyRows : db = [rev |-> 1, checks |-> FirstChecks,
                                               index |-> IndexedBy(1), rows |-> rows]
            BY <2>2
        <3>2. /\ SourceKindsAt(1) = Kinds1 /\ SourceStatesAt(1) = {Absent}
              /\ RunStatusesAt(1) = Statuses1 /\ MethodsAt(1) = Methods1
              /\ DecisionsAt(1) = {} /\ ChunksAt(1) = {TRUE} /\ EntitiesAt(1) = {Absent}
            BY DEF SourceKindsAt, SourceStatesAt, RunStatusesAt, MethodsAt, DecisionsAt, ChunksAt,
                   EntitiesAt
        <3>3. FirstChecks = ChecksAt(1, RunKinds1, FALSE)  BY <3>2 DEF FirstChecks, ChecksAt
        <3>4. RunKinds1 \in RunKindsAt(1) /\ FALSE \in ConfidencesAt(1)
            BY DEF RunKindsAt, ConfidencesAt
        <3>5. db.checks.runKind = RunKinds1 /\ db.checks.confidence = FALSE  BY <3>1, <3>3 DEF ChecksAt
        <3>6. db.rev = 1 /\ db.checks = ChecksAt(1, RunKinds1, FALSE) /\ db.index = IndexedBy(1)
            BY <3>1, <3>3
        <3>7. IsDatabase(db.rows) /\ DOMAIN db.rows.candidates = {}  BY <3>1, LegacyTypes
        <3>8. 1 \in 1..Latest  BY DEF Latest
        <3> QED  BY <1>1, <3>4, <3>5, <3>6, <3>7, <3>8 DEF IsSchema
    <2> QED  BY <2>1, <2>2 DEF SchemaInit
<1>3. db.rev \in Nat /\ low \in 1..db.rev /\ low <= was.rev  BY <1>1, <1>2 DEF Latest
<1> QED  BY <1>1, <1>2, <1>3 DEF Placed

LEMMA PlacedNext == Placed /\ [SchemaNext]_schemaVars => Placed'
<1> SUFFICES ASSUME Placed, [SchemaNext]_schemaVars PROVE Placed'  OBVIOUS
<1>1. CASE Upgrade
    <2>1. /\ db.rev < Latest /\ Fits(Above(db)) /\ db' = Above(db)
          /\ was' = was /\ low' = low
        BY <1>1 DEF Upgrade
    <2>2. IsSchema(Above(db))  BY <2>1, SchemaAbove DEF Placed, IsSchema
    <2>3. Above(db).rev = db.rev + 1  BY AboveIs
    <2>4. db.rev \in Nat  BY DEF Placed, IsSchema
    <2> QED  BY <2>1, <2>2, <2>3, <2>4 DEF Placed
<1>2. CASE Downgrade
    <2>1. /\ db.rev > 1 /\ Fits(Below(db)) /\ db' = Below(db)
          /\ was' = was /\ low' = IF db.rev = low THEN low - 1 ELSE low
        BY <1>2 DEF Downgrade
    <2>2. IsSchema(Below(db))  BY <2>1, SchemaBelow DEF Placed, IsSchema
    <2>3. Below(db).rev = db.rev - 1  BY BelowIs
    <2>4. db.rev \in Nat /\ low \in 1..db.rev /\ low <= was.rev /\ was.rev \in {1, 27}
        BY DEF Placed, IsSchema, Latest
    <2>5. low' \in 1..(db.rev - 1) /\ low' <= was.rev  BY <2>1, <2>4
    <2> QED  BY <2>1, <2>2, <2>3, <2>5 DEF Placed
<1>3. CASE UNCHANGED schemaVars
    BY <1>3 DEF schemaVars, Placed
<1> QED  BY <1>1, <1>2, <1>3 DEF SchemaNext
-----------------------------------------------------------------------------
\* Databases of revision 0027. A row at a revision, taken to the next.
LEMMA HeldSourceUp ==
    ASSUME NEW row \in SourceRow, NEW r \in 18..26, NEW l \in 18..r
    PROVE  NewSource(r + 1, HeldSource(row, r, l)) = HeldSource(row, r + 1, l)
<1>1. CASE r + 1 = 19
    <2>1. NewSource(r + 1, HeldSource(row, r, l)) = [HeldSource(row, r, l) EXCEPT !.recrawl = "weekly"]
        BY <1>1 DEF NewSource
    <2>2. /\ Column(19, "weekly", row.recrawl, r + 1, l) = "weekly"
          /\ Column(27, "unbounded", row.depth, r + 1, l)
                = Column(27, "unbounded", row.depth, r, l)
        BY <1>1 DEF Column
    <2> QED  BY <2>1, <2>2 DEF HeldSource, SourceRow
<1>2. CASE r + 1 = 27
    <2>1. NewSource(r + 1, HeldSource(row, r, l)) = [HeldSource(row, r, l) EXCEPT !.depth = "unbounded"]
        BY <1>2 DEF NewSource
    <2>2. /\ Column(19, "weekly", row.recrawl, r + 1, l)
                = Column(19, "weekly", row.recrawl, r, l)
          /\ Column(27, "unbounded", row.depth, r + 1, l) = "unbounded"
        BY <1>2 DEF Column
    <2> QED  BY <2>1, <2>2 DEF HeldSource, SourceRow
<1>3. CASE r + 1 \notin {19, 27}
    <2>1. NewSource(r + 1, HeldSource(row, r, l)) = HeldSource(row, r, l)  BY <1>3 DEF NewSource
    <2>2. /\ Column(19, "weekly", row.recrawl, r + 1, l)
                = Column(19, "weekly", row.recrawl, r, l)
          /\ Column(27, "unbounded", row.depth, r + 1, l)
                = Column(27, "unbounded", row.depth, r, l)
        BY <1>3 DEF Column
    <2> QED  BY <2>1, <2>2 DEF HeldSource
<1> QED  BY <1>1, <1>2, <1>3

LEMMA HeldSourceDown ==
    ASSUME NEW row \in SourceRow, NEW r \in 19..27, NEW l \in 18..r
    PROVE  OldSource(r, HeldSource(row, r, l)) = HeldSource(row, r - 1, IF l = r THEN r - 1 ELSE l)
<1> DEFINE m == IF l = r THEN r - 1 ELSE l
<1>1. CASE r = 19
    <2>1. OldSource(r, HeldSource(row, r, l)) = [HeldSource(row, r, l) EXCEPT !.recrawl = Absent]
        BY <1>1 DEF OldSource
    <2>2. /\ Column(19, "weekly", row.recrawl, r - 1, m) = Absent
          /\ Column(27, "unbounded", row.depth, r - 1, m)
                = Column(27, "unbounded", row.depth, r, l)
        BY <1>1 DEF Column
    <2> QED  BY <2>1, <2>2 DEF HeldSource, SourceRow
<1>2. CASE r = 27
    <2>1. OldSource(r, HeldSource(row, r, l)) = [HeldSource(row, r, l) EXCEPT !.depth = Absent]
        BY <1>2 DEF OldSource
    <2>2. /\ Column(19, "weekly", row.recrawl, r - 1, m)
                = Column(19, "weekly", row.recrawl, r, l)
          /\ Column(27, "unbounded", row.depth, r - 1, m) = Absent
        BY <1>2 DEF Column
    <2> QED  BY <2>1, <2>2 DEF HeldSource, SourceRow
<1>3. CASE r \notin {19, 27}
    <2>1. OldSource(r, HeldSource(row, r, l)) = HeldSource(row, r, l)  BY <1>3 DEF OldSource
    <2>2. /\ Column(19, "weekly", row.recrawl, r - 1, m)
                = Column(19, "weekly", row.recrawl, r, l)
          /\ Column(27, "unbounded", row.depth, r - 1, m)
                = Column(27, "unbounded", row.depth, r, l)
        BY <1>3 DEF Column
    <2> QED  BY <2>1, <2>2 DEF HeldSource
<1> QED  BY <1>1, <1>2, <1>3

LEMMA HeldFetchUp ==
    ASSUME NEW row \in FetchRow, NEW r \in 18..26, NEW l \in 18..r
    PROVE  NewFetch(r + 1, HeldFetch(row, r, l)) = HeldFetch(row, r + 1, l)
<1>1. CASE r + 1 = 19
    <2>1. NewFetch(r + 1, HeldFetch(row, r, l)) = [HeldFetch(row, r, l) EXCEPT !.since = "none"]
        BY <1>1 DEF NewFetch
    <2>2. /\ Column(19, "none", row.since, r + 1, l) = "none"
        BY <1>1 DEF Column
    <2> QED  BY <2>1, <2>2 DEF HeldFetch, FetchRow
<1>2. CASE r + 1 \notin {19}
    <2>1. NewFetch(r + 1, HeldFetch(row, r, l)) = HeldFetch(row, r, l)  BY <1>2 DEF NewFetch
    <2>2. /\ Column(19, "none", row.since, r + 1, l)
                = Column(19, "none", row.since, r, l)
        BY <1>2 DEF Column
    <2> QED  BY <2>1, <2>2 DEF HeldFetch
<1> QED  BY <1>1, <1>2

LEMMA HeldFetchDown ==
    ASSUME NEW row \in FetchRow, NEW r \in 19..27, NEW l \in 18..r
    PROVE  OldFetch(r, HeldFetch(row, r, l)) = HeldFetch(row, r - 1, IF l = r THEN r - 1 ELSE l)
<1> DEFINE m == IF l = r THEN r - 1 ELSE l
<1>1. CASE r = 19
    <2>1. OldFetch(r, HeldFetch(row, r, l)) = [HeldFetch(row, r, l) EXCEPT !.since = Absent]
        BY <1>1 DEF OldFetch
    <2>2. /\ Column(19, "none", row.since, r - 1, m) = Absent
        BY <1>1 DEF Column
    <2> QED  BY <2>1, <2>2 DEF HeldFetch, FetchRow
<1>2. CASE r \notin {19}
    <2>1. OldFetch(r, HeldFetch(row, r, l)) = HeldFetch(row, r, l)  BY <1>2 DEF OldFetch
    <2>2. /\ Column(19, "none", row.since, r - 1, m)
                = Column(19, "none", row.since, r, l)
        BY <1>2 DEF Column
    <2> QED  BY <2>1, <2>2 DEF HeldFetch
<1> QED  BY <1>1, <1>2

LEMMA HeldDocumentUp ==
    ASSUME NEW row \in DocumentRow, NEW r \in 18..26, NEW l \in 18..r
    PROVE  NewDocument(r + 1, HeldDocument(row, r, l)) = HeldDocument(row, r + 1, l)
<1>1. CASE r + 1 = 26
    <2>1. NewDocument(r + 1, HeldDocument(row, r, l)) = [HeldDocument(row, r, l) EXCEPT !.vector = "none"]
        BY <1>1 DEF NewDocument
    <2>2. /\ Column(26, "none", row.vector, r + 1, l) = "none"
        BY <1>1 DEF Column
    <2> QED  BY <2>1, <2>2 DEF HeldDocument, DocumentRow
<1>2. CASE r + 1 \notin {26}
    <2>1. NewDocument(r + 1, HeldDocument(row, r, l)) = HeldDocument(row, r, l)  BY <1>2 DEF NewDocument
    <2>2. /\ Column(26, "none", row.vector, r + 1, l)
                = Column(26, "none", row.vector, r, l)
        BY <1>2 DEF Column
    <2> QED  BY <2>1, <2>2 DEF HeldDocument
<1> QED  BY <1>1, <1>2

LEMMA HeldDocumentDown ==
    ASSUME NEW row \in DocumentRow, NEW r \in 19..27, NEW l \in 18..r
    PROVE  OldDocument(r, HeldDocument(row, r, l)) = HeldDocument(row, r - 1, IF l = r THEN r - 1 ELSE l)
<1> DEFINE m == IF l = r THEN r - 1 ELSE l
<1>1. CASE r = 26
    <2>1. OldDocument(r, HeldDocument(row, r, l)) = [HeldDocument(row, r, l) EXCEPT !.vector = Absent]
        BY <1>1 DEF OldDocument
    <2>2. /\ Column(26, "none", row.vector, r - 1, m) = Absent
        BY <1>1 DEF Column
    <2> QED  BY <2>1, <2>2 DEF HeldDocument, DocumentRow
<1>2. CASE r \notin {26}
    <2>1. OldDocument(r, HeldDocument(row, r, l)) = HeldDocument(row, r, l)  BY <1>2 DEF OldDocument
    <2>2. /\ Column(26, "none", row.vector, r - 1, m)
                = Column(26, "none", row.vector, r, l)
        BY <1>2 DEF Column
    <2> QED  BY <2>1, <2>2 DEF HeldDocument
<1> QED  BY <1>1, <1>2

LEMMA HeldClaimUp ==
    ASSUME NEW row \in ClaimRow, NEW r \in 18..26, NEW l \in 18..r
    PROVE  NewClaim(r + 1, HeldClaim(row, r, l)) = HeldClaim(row, r + 1, l)
<1>1. CASE r + 1 = 24
    <2>1. NewClaim(r + 1, HeldClaim(row, r, l)) = [HeldClaim(row, r, l) EXCEPT !.subject = "person"]
        BY <1>1 DEF NewClaim
    <2>2. /\ Column(24, "person", row.subject, r + 1, l) = "person"
        BY <1>1 DEF Column
    <2> QED  BY <2>1, <2>2 DEF HeldClaim, ClaimRow
<1>2. CASE r + 1 \notin {24}
    <2>1. NewClaim(r + 1, HeldClaim(row, r, l)) = HeldClaim(row, r, l)  BY <1>2 DEF NewClaim
    <2>2. /\ Column(24, "person", row.subject, r + 1, l)
                = Column(24, "person", row.subject, r, l)
        BY <1>2 DEF Column
    <2> QED  BY <2>1, <2>2 DEF HeldClaim
<1> QED  BY <1>1, <1>2

LEMMA HeldClaimDown ==
    ASSUME NEW row \in ClaimRow, NEW r \in 19..27, NEW l \in 18..r
    PROVE  OldClaim(r, HeldClaim(row, r, l)) = HeldClaim(row, r - 1, IF l = r THEN r - 1 ELSE l)
<1> DEFINE m == IF l = r THEN r - 1 ELSE l
<1>1. CASE r = 24
    <2>1. OldClaim(r, HeldClaim(row, r, l)) = [HeldClaim(row, r, l) EXCEPT !.subject = Absent]
        BY <1>1 DEF OldClaim
    <2>2. /\ Column(24, "person", row.subject, r - 1, m) = Absent
        BY <1>1 DEF Column
    <2> QED  BY <2>1, <2>2 DEF HeldClaim, ClaimRow
<1>2. CASE r \notin {24}
    <2>1. OldClaim(r, HeldClaim(row, r, l)) = HeldClaim(row, r, l)  BY <1>2 DEF OldClaim
    <2>2. /\ Column(24, "person", row.subject, r - 1, m)
                = Column(24, "person", row.subject, r, l)
        BY <1>2 DEF Column
    <2> QED  BY <2>1, <2>2 DEF HeldClaim
<1> QED  BY <1>1, <1>2

LEMMA HeldCandidateUp ==
    ASSUME NEW row \in CandidateRow, NEW r \in 18..26, NEW l \in 18..r
    PROVE  NewCandidate(r + 1, HeldCandidate(row, r, l)) = HeldCandidate(row, r + 1, l)
<1>1. CASE r + 1 = 22
    <2>1. NewCandidate(r + 1, HeldCandidate(row, r, l)) = [HeldCandidate(row, r, l) EXCEPT !.context = "none"]
        BY <1>1 DEF NewCandidate
    <2>2. /\ Column(22, "none", row.context, r + 1, l) = "none"
        BY <1>1 DEF Column
    <2> QED  BY <2>1, <2>2 DEF HeldCandidate, CandidateRow
<1>2. CASE r + 1 \notin {22}
    <2>1. NewCandidate(r + 1, HeldCandidate(row, r, l)) = HeldCandidate(row, r, l)  BY <1>2 DEF NewCandidate
    <2>2. /\ Column(22, "none", row.context, r + 1, l)
                = Column(22, "none", row.context, r, l)
        BY <1>2 DEF Column
    <2> QED  BY <2>1, <2>2 DEF HeldCandidate
<1> QED  BY <1>1, <1>2

LEMMA HeldCandidateDown ==
    ASSUME NEW row \in CandidateRow, NEW r \in 19..27, NEW l \in 18..r
    PROVE  OldCandidate(r, HeldCandidate(row, r, l)) = HeldCandidate(row, r - 1, IF l = r THEN r - 1 ELSE l)
<1> DEFINE m == IF l = r THEN r - 1 ELSE l
<1>1. CASE r = 22
    <2>1. OldCandidate(r, HeldCandidate(row, r, l)) = [HeldCandidate(row, r, l) EXCEPT !.context = Absent]
        BY <1>1 DEF OldCandidate
    <2>2. /\ Column(22, "none", row.context, r - 1, m) = Absent
        BY <1>1 DEF Column
    <2> QED  BY <2>1, <2>2 DEF HeldCandidate, CandidateRow
<1>2. CASE r \notin {22}
    <2>1. OldCandidate(r, HeldCandidate(row, r, l)) = HeldCandidate(row, r, l)  BY <1>2 DEF OldCandidate
    <2>2. /\ Column(22, "none", row.context, r - 1, m)
                = Column(22, "none", row.context, r, l)
        BY <1>2 DEF Column
    <2> QED  BY <2>1, <2>2 DEF HeldCandidate
<1> QED  BY <1>1, <1>2

LEMMA HeldEntityUp ==
    ASSUME NEW row \in EntityRow, NEW r \in 18..26, NEW l \in 18..r
    PROVE  NewEntity(r + 1, HeldEntity(row, r, l)) = HeldEntity(row, r + 1, l)
<1>1. CASE r + 1 = 21
    <2>1. NewEntity(r + 1, HeldEntity(row, r, l)) = [HeldEntity(row, r, l) EXCEPT !.heir = "none"]
        BY <1>1 DEF NewEntity
    <2>2. /\ Column(21, "none", row.heir, r + 1, l) = "none"
          /\ Column(22, "active", row.status, r + 1, l)
                = Column(22, "active", row.status, r, l)
          /\ Column(22, "none", row.curation, r + 1, l)
                = Column(22, "none", row.curation, r, l)
        BY <1>1 DEF Column
    <2> QED  BY <2>1, <2>2 DEF HeldEntity, EntityRow
<1>2. CASE r + 1 = 22
    <2>1. NewEntity(r + 1, HeldEntity(row, r, l)) = [HeldEntity(row, r, l) EXCEPT !.status = "active", !.curation = "none"]
        BY <1>2 DEF NewEntity
    <2>2. /\ Column(21, "none", row.heir, r + 1, l)
                = Column(21, "none", row.heir, r, l)
          /\ Column(22, "active", row.status, r + 1, l) = "active"
          /\ Column(22, "none", row.curation, r + 1, l) = "none"
        BY <1>2 DEF Column
    <2> QED  BY <2>1, <2>2 DEF HeldEntity, EntityRow
<1>3. CASE r + 1 \notin {21, 22}
    <2>1. NewEntity(r + 1, HeldEntity(row, r, l)) = HeldEntity(row, r, l)  BY <1>3 DEF NewEntity
    <2>2. /\ Column(21, "none", row.heir, r + 1, l)
                = Column(21, "none", row.heir, r, l)
          /\ Column(22, "active", row.status, r + 1, l)
                = Column(22, "active", row.status, r, l)
          /\ Column(22, "none", row.curation, r + 1, l)
                = Column(22, "none", row.curation, r, l)
        BY <1>3 DEF Column
    <2> QED  BY <2>1, <2>2 DEF HeldEntity
<1> QED  BY <1>1, <1>2, <1>3

LEMMA HeldEntityDown ==
    ASSUME NEW row \in EntityRow, NEW r \in 19..27, NEW l \in 18..r
    PROVE  OldEntity(r, HeldEntity(row, r, l)) = HeldEntity(row, r - 1, IF l = r THEN r - 1 ELSE l)
<1> DEFINE m == IF l = r THEN r - 1 ELSE l
<1>1. CASE r = 21
    <2>1. OldEntity(r, HeldEntity(row, r, l)) = [HeldEntity(row, r, l) EXCEPT !.heir = Absent]
        BY <1>1 DEF OldEntity
    <2>2. /\ Column(21, "none", row.heir, r - 1, m) = Absent
          /\ Column(22, "active", row.status, r - 1, m)
                = Column(22, "active", row.status, r, l)
          /\ Column(22, "none", row.curation, r - 1, m)
                = Column(22, "none", row.curation, r, l)
        BY <1>1 DEF Column
    <2> QED  BY <2>1, <2>2 DEF HeldEntity, EntityRow
<1>2. CASE r = 22
    <2>1. OldEntity(r, HeldEntity(row, r, l)) = [HeldEntity(row, r, l) EXCEPT !.status = Absent, !.curation = Absent]
        BY <1>2 DEF OldEntity
    <2>2. /\ Column(21, "none", row.heir, r - 1, m)
                = Column(21, "none", row.heir, r, l)
          /\ Column(22, "active", row.status, r - 1, m) = Absent
          /\ Column(22, "none", row.curation, r - 1, m) = Absent
        BY <1>2 DEF Column
    <2> QED  BY <2>1, <2>2 DEF HeldEntity, EntityRow
<1>3. CASE r \notin {21, 22}
    <2>1. OldEntity(r, HeldEntity(row, r, l)) = HeldEntity(row, r, l)  BY <1>3 DEF OldEntity
    <2>2. /\ Column(21, "none", row.heir, r - 1, m)
                = Column(21, "none", row.heir, r, l)
          /\ Column(22, "active", row.status, r - 1, m)
                = Column(22, "active", row.status, r, l)
          /\ Column(22, "none", row.curation, r - 1, m)
                = Column(22, "none", row.curation, r, l)
        BY <1>3 DEF Column
    <2> QED  BY <2>1, <2>2 DEF HeldEntity
<1> QED  BY <1>1, <1>2, <1>3

LEMMA HeldRunUp ==
    ASSUME NEW row \in RunRow, NEW r \in 18..26, NEW l \in 18..r
    PROVE  NewRun(r + 1, HeldRun(row, r, l)) = HeldRun(row, r + 1, l)
<1>1. CASE r + 1 = 19
    <2>1. NewRun(r + 1, HeldRun(row, r, l)) = [HeldRun(row, r, l) EXCEPT !.beat = "started"]
        BY <1>1 DEF NewRun
    <2>2. /\ Column(19, "started", row.beat, r + 1, l) = "started"
        BY <1>1 DEF Column
    <2> QED  BY <2>1, <2>2 DEF HeldRun, RunRow
<1>2. CASE r + 1 \notin {19}
    <2>1. NewRun(r + 1, HeldRun(row, r, l)) = HeldRun(row, r, l)  BY <1>2 DEF NewRun
    <2>2. /\ Column(19, "started", row.beat, r + 1, l)
                = Column(19, "started", row.beat, r, l)
        BY <1>2 DEF Column
    <2> QED  BY <2>1, <2>2 DEF HeldRun
<1> QED  BY <1>1, <1>2

LEMMA HeldRunDown ==
    ASSUME NEW row \in RunRow, NEW r \in 19..27, NEW l \in 18..r
    PROVE  OldRun(r, HeldRun(row, r, l)) = HeldRun(row, r - 1, IF l = r THEN r - 1 ELSE l)
<1> DEFINE m == IF l = r THEN r - 1 ELSE l
<1>1. CASE r = 19
    <2>1. OldRun(r, HeldRun(row, r, l)) = [HeldRun(row, r, l) EXCEPT !.beat = Absent]
        BY <1>1 DEF OldRun
    <2>2. /\ Column(19, "started", row.beat, r - 1, m) = Absent
        BY <1>1 DEF Column
    <2> QED  BY <2>1, <2>2 DEF HeldRun, RunRow
<1>2. CASE r \notin {19}
    <2>1. OldRun(r, HeldRun(row, r, l)) = HeldRun(row, r, l)  BY <1>2 DEF OldRun
    <2>2. /\ Column(19, "started", row.beat, r - 1, m)
                = Column(19, "started", row.beat, r, l)
        BY <1>2 DEF Column
    <2> QED  BY <2>1, <2>2 DEF HeldRun
<1> QED  BY <1>1, <1>2

-----------------------------------------------------------------------------
\* Its tables at a revision, taken to the next.
\* The tables, one by one.
IsHeld(held, old, r, l) ==
    /\ held = Tabled(held)
    /\ held.sources = [s \in DOMAIN old.sources |-> HeldSource(old.sources[s], r, l)]
    /\ held.runs = [x \in DOMAIN old.runs |-> HeldRun(old.runs[x], r, l)]
    /\ held.fetches = [f \in DOMAIN old.fetches |-> HeldFetch(old.fetches[f], r, l)]
    /\ held.documents = [d \in DOMAIN old.documents |-> HeldDocument(old.documents[d], r, l)]
    /\ held.claims
        = [c \in DOMAIN old.claims \ Gone(old, l) |-> HeldClaim(old.claims[c], r, l)]
    /\ held.evidence = Apart(old.evidence, Gone(old, l))
    /\ held.mentions = Apart(old.mentions, Gone(old, l))
    /\ held.candidates = HeldCandidates(old, r, l)
    /\ held.entities = [e \in DOMAIN old.entities |-> HeldEntity(old.entities[e], r, l)]

LEMMA HeldIs ==
    ASSUME NEW old, NEW r, NEW l
    PROVE  /\ IsHeld(Held(old, r, l), old, r, l)
           /\ \A rows : IsHeld(rows, old, r, l) => rows = Held(old, r, l)
<1> DEFINE held == Held(old, r, l)
           left == Restrict(old.claims, DOMAIN old.claims \ Gone(old, l))
<1>1. held = Tabled(held)  BY DEF Held, Tabled
<1>2. /\ held.sources = [s \in DOMAIN old.sources |-> HeldSource(old.sources[s], r, l)]
      /\ held.runs = [x \in DOMAIN old.runs |-> HeldRun(old.runs[x], r, l)]
      /\ held.fetches = [f \in DOMAIN old.fetches |-> HeldFetch(old.fetches[f], r, l)]
      /\ held.documents = [d \in DOMAIN old.documents |-> HeldDocument(old.documents[d], r, l)]
      /\ held.claims = [c \in DOMAIN left |-> HeldClaim(left[c], r, l)]
      /\ held.evidence = Apart(old.evidence, Gone(old, l))
      /\ held.mentions = Apart(old.mentions, Gone(old, l))
      /\ held.candidates = HeldCandidates(old, r, l)
      /\ held.entities = [e \in DOMAIN old.entities |-> HeldEntity(old.entities[e], r, l)]
    BY DEF Held, Each
<1>3. left = [c \in DOMAIN old.claims \ Gone(old, l) |-> old.claims[c]]  BY DEF Restrict
<1>4. [c \in DOMAIN left |-> HeldClaim(left[c], r, l)]
        = [c \in DOMAIN old.claims \ Gone(old, l) |-> HeldClaim(old.claims[c], r, l)]
    <2> HIDE DEF left
    <2> QED  BY <1>3
<1> HIDE DEF held, left
<1>5. IsHeld(held, old, r, l)  BY <1>1, <1>2, <1>4 DEF IsHeld
<1>6. ASSUME NEW rows, IsHeld(rows, old, r, l) PROVE rows = held
    BY <1>5, <1>6 DEF IsHeld, Tabled
<1> QED  BY <1>5, <1>6 DEF held

LEMMA RowsOf ==
    ASSUME NEW rows, IsDatabase(rows)
    PROVE  /\ \A s \in DOMAIN rows.sources : rows.sources[s] \in SourceRow
           /\ \A x \in DOMAIN rows.runs : rows.runs[x] \in RunRow
           /\ \A f \in DOMAIN rows.fetches : rows.fetches[f] \in FetchRow
           /\ \A d \in DOMAIN rows.documents : rows.documents[d] \in DocumentRow
           /\ \A c \in DOMAIN rows.claims : rows.claims[c] \in ClaimRow
           /\ \A c \in DOMAIN rows.candidates : rows.candidates[c] \in CandidateRow
           /\ \A e \in DOMAIN rows.entities : rows.entities[e] \in EntityRow
           /\ DOMAIN rows.mentions \subseteq Nat \ {0}
    BY DEF IsDatabase, IsTable

LEMMA HeldUp ==
    ASSUME NEW old, IsDatabase(old), NEW r \in 18..26, NEW l \in 18..r
    PROVE  Upgraded(r + 1, Held(old, r, l)) = Held(old, r + 1, l)
<1> DEFINE held == Held(old, r, l)
           up == Upgraded(r + 1, held)
<1>1. /\ up.sources = [s \in DOMAIN held.sources |-> NewSource(r + 1, held.sources[s])]
      /\ up.runs = [x \in DOMAIN held.runs |-> NewRun(r + 1, held.runs[x])]
      /\ up.fetches = [f \in DOMAIN held.fetches |-> NewFetch(r + 1, held.fetches[f])]
      /\ up.documents = [d \in DOMAIN held.documents |-> NewDocument(r + 1, held.documents[d])]
      /\ up.claims = [c \in DOMAIN held.claims |-> NewClaim(r + 1, held.claims[c])]
      /\ up.evidence = held.evidence /\ up.mentions = held.mentions
      /\ up.candidates = [c \in DOMAIN held.candidates |-> NewCandidate(r + 1, held.candidates[c])]
      /\ up.entities = [e \in DOMAIN held.entities |-> NewEntity(r + 1, held.entities[e])]
    <2>1. r + 1 # 7  OBVIOUS
    <2> HIDE DEF held
    <2> QED  BY <2>1 DEF Upgraded, Each
<1>2. up = Tabled(up)  BY DEF Upgraded, Tabled
<1>3. IsHeld(held, old, r, l)  BY HeldIs
<1> HIDE DEF held, up
<1>4. up.sources = [s \in DOMAIN old.sources |-> HeldSource(old.sources[s], r + 1, l)]
    BY <1>1, <1>3, RowsOf, HeldSourceUp DEF IsHeld
<1>5. up.runs = [x \in DOMAIN old.runs |-> HeldRun(old.runs[x], r + 1, l)]
    BY <1>1, <1>3, RowsOf, HeldRunUp DEF IsHeld
<1>6. up.fetches = [f \in DOMAIN old.fetches |-> HeldFetch(old.fetches[f], r + 1, l)]
    BY <1>1, <1>3, RowsOf, HeldFetchUp DEF IsHeld
<1>7. up.documents = [d \in DOMAIN old.documents |-> HeldDocument(old.documents[d], r + 1, l)]
    BY <1>1, <1>3, RowsOf, HeldDocumentUp DEF IsHeld
<1>8. up.claims = [c \in DOMAIN old.claims \ Gone(old, l) |-> HeldClaim(old.claims[c], r + 1, l)]
    BY <1>1, <1>3, RowsOf, HeldClaimUp DEF IsHeld
<1>9. up.candidates = HeldCandidates(old, r + 1, l)
    <2> DEFINE left(c) == Unlinked(old.candidates[c], DOMAIN Apart(old.mentions, Gone(old, l)))
    <2>1. \A c \in DOMAIN old.candidates : left(c) \in CandidateRow  BY RowsOf, UnlinkedIs
    <2> DEFINE ids == IF l < 20 THEN {} ELSE DOMAIN old.candidates
    <2>2. held.candidates = [c \in ids |-> HeldCandidate(left(c), r, l)]
        BY <1>3 DEF HeldCandidates, IsHeld
    <2>3. HeldCandidates(old, r + 1, l) = [c \in ids |-> HeldCandidate(left(c), r + 1, l)]
        BY DEF HeldCandidates
    <2>4. \A c \in ids : left(c) \in CandidateRow  BY <2>1
    <2> HIDE DEF left, ids
    <2>5. \A c \in ids :
            NewCandidate(r + 1, HeldCandidate(left(c), r, l)) = HeldCandidate(left(c), r + 1, l)
        BY <2>4, HeldCandidateUp
    <2>6. up.candidates = [c \in ids |-> NewCandidate(r + 1, HeldCandidate(left(c), r, l))]
        BY <1>1, <2>2
    <2> QED  BY <2>3, <2>5, <2>6
<1>10. up.entities = [e \in DOMAIN old.entities |-> HeldEntity(old.entities[e], r + 1, l)]
    BY <1>1, <1>3, RowsOf, HeldEntityUp DEF IsHeld
<1>11. IsHeld(up, old, r + 1, l)
    BY <1>1, <1>2, <1>3, <1>4, <1>5, <1>6, <1>7, <1>8, <1>9, <1>10 DEF IsHeld
<1> QED  BY <1>11, HeldIs DEF up, held

\* Going down, what hangs on deleted claims goes, whether at once or in turn.
LEMMA ApartTwice ==
    ASSUME NEW table, NEW A, NEW B
    PROVE  Apart(Apart(table, A), B) = Apart(table, A \cup B)
<1> DEFINE first == {id \in DOMAIN table : table[id].claim \notin A}
           both == {id \in DOMAIN table : table[id].claim \notin A \cup B}
<1>1. Apart(table, A) = [id \in first |-> table[id]]  BY DEF Apart, Restrict
<1>2. Apart(table, A \cup B) = [id \in both |-> table[id]]  BY DEF Apart, Restrict
<1>3. {id \in first : Apart(table, A)[id].claim \notin B} = both  BY <1>1
<1>4. Apart(Apart(table, A), B)
        = [id \in {id \in first : Apart(table, A)[id].claim \notin B} |-> Apart(table, A)[id]]
    BY <1>1 DEF Apart, Restrict
<1>5. \A id \in both : Apart(table, A)[id] = table[id]  BY <1>1
<1> HIDE DEF first, both
<1> QED  BY <1>2, <1>3, <1>4, <1>5

LEMMA UnlinkedTwice ==
    ASSUME NEW row \in CandidateRow, NEW A \in SUBSET (Nat \ {0}), NEW B \in SUBSET A
    PROVE  Unlinked(Unlinked(row, A), B) = Unlinked(row, B)
<1>1. CASE row.mention \in B  BY <1>1 DEF Unlinked
<1>2. CASE row.mention \in A \ B  BY <1>2 DEF Unlinked
<1>3. CASE row.mention \notin A
    <2>1. Unlinked(row, A) = [row EXCEPT !.mention = 0]  BY <1>3 DEF Unlinked
    <2>2. 0 \notin B  OBVIOUS
    <2> QED  BY <1>3, <2>1, <2>2 DEF Unlinked, CandidateRow
<1> QED  BY <1>1, <1>2, <1>3

LEMMA UnlinkedHeld ==
    ASSUME NEW row \in CandidateRow, NEW B, NEW r, NEW l
    PROVE  Unlinked(HeldCandidate(row, r, l), B) = HeldCandidate(Unlinked(row, B), r, l)
    BY DEF Unlinked, HeldCandidate, CandidateRow

LEMMA GoneBelow ==
    ASSUME NEW old, NEW r \in 19..27, NEW l \in 18..r, NEW m, m = IF l = r THEN r - 1 ELSE l
    PROVE  /\ r # 26 => Gone(old, m) = Gone(old, l)
           /\ r = 26 => Gone(old, m) = Whole(old)
           /\ Gone(old, l) \subseteq Whole(old)
           /\ r # 20 => (m < 20 <=> l < 20)
           /\ r = 20 => m < 20
    BY DEF Gone

LEMMA ApartDomain ==
    ASSUME NEW table, NEW Row, IsTable(table, Row)
    PROVE  \A claims : DOMAIN Apart(table, claims)
                        = {id \in DOMAIN table : table[id].claim \notin claims}
    BY ApartIs

\* What the downgrade to below revision r sheds of them, one by one.
IsShed(left, held, old, r, l, m) ==
    /\ left.sources = held.sources /\ left.runs = held.runs
    /\ left.fetches = held.fetches /\ left.documents = held.documents
    /\ left.entities = held.entities
    /\ left.claims = [c \in DOMAIN old.claims \ Gone(old, m) |-> HeldClaim(old.claims[c], r, l)]
    /\ left.evidence = Apart(old.evidence, Gone(old, m))
    /\ left.mentions = Apart(old.mentions, Gone(old, m))
    /\ left.candidates
        = [c \in IF m < 20 THEN {} ELSE DOMAIN old.candidates |->
              HeldCandidate(Unlinked(old.candidates[c],
                                     DOMAIN Apart(old.mentions, Gone(old, m))), r, l)]

LEMMA HeldShed ==
    ASSUME NEW old, IsDatabase(old), NEW r \in 19..27, NEW l \in 18..r,
           NEW m, m = IF l = r THEN r - 1 ELSE l
    PROVE  IsShed(Shed(r, Held(old, r, l)), Held(old, r, l), old, r, l, m)
<1> DEFINE held == Held(old, r, l)
           left == Shed(r, held)
           ids == IF l < 20 THEN {} ELSE DOMAIN old.candidates
           linked(c, n) == Unlinked(old.candidates[c], DOMAIN Apart(old.mentions, Gone(old, n)))
<1>1. IsHeld(held, old, r, l)  BY HeldIs
<1>2. /\ r # 26 => Gone(old, m) = Gone(old, l)
      /\ r = 26 => Gone(old, m) = Whole(old)
      /\ Gone(old, l) \subseteq Whole(old)
      /\ r # 20 => (m < 20 <=> l < 20)
      /\ r = 20 => m < 20
    BY GoneBelow
<1>3. held.candidates = [c \in ids |-> HeldCandidate(linked(c, l), r, l)]
    BY <1>1 DEF IsHeld, HeldCandidates
<1> HIDE DEF held
<1>4. CASE r = 20
    <2> DEFINE none == Restrict(held.candidates, {})
    <2>1. none = [c \in {} |-> held.candidates[c]]  BY DEF Restrict
    <2>2. left = [held EXCEPT !.candidates = none]  BY <1>4 DEF Shed
    <2>3. held = Tabled(held)  BY <1>1 DEF IsHeld
    <2> HIDE DEF left, none
    <2>4. /\ left.sources = held.sources /\ left.runs = held.runs
          /\ left.fetches = held.fetches /\ left.documents = held.documents
          /\ left.entities = held.entities /\ left.claims = held.claims
          /\ left.evidence = held.evidence /\ left.mentions = held.mentions
          /\ left.candidates = none
        BY <2>2, <2>3 DEF Tabled
    <2>5. left.candidates = [c \in IF m < 20 THEN {} ELSE DOMAIN old.candidates |->
                                HeldCandidate(linked(c, m), r, l)]
        <3>1. m < 20  BY <1>2, <1>4
        <3> HIDE DEF linked
        <3> QED  BY <2>1, <2>4, <3>1
    <2> QED  BY <1>1, <1>2, <1>4, <2>4, <2>5 DEF IsHeld, IsShed, left, held
<1>5. CASE r = 26
    <2>1. left = WithoutClaims(held, Whole(held))  BY <1>5 DEF Shed
    <2>2. held = Tabled(held)  BY <1>1 DEF IsHeld
    <2> DEFINE out == Whole(held)
               kept == DOMAIN Apart(held.mentions, out)
    <2>3. /\ left.sources = held.sources /\ left.runs = held.runs
          /\ left.fetches = held.fetches /\ left.documents = held.documents
          /\ left.entities = held.entities
          /\ left.claims = Restrict(held.claims, DOMAIN held.claims \ out)
          /\ left.evidence = Apart(held.evidence, out)
          /\ left.mentions = Apart(held.mentions, out)
          /\ left.candidates
               = [c \in DOMAIN held.candidates |-> Unlinked(held.candidates[c], kept)]
        <3> DEFINE without == WithoutClaims(held, out)
        <3>1. /\ without.sources = held.sources /\ without.runs = held.runs
              /\ without.fetches = held.fetches /\ without.documents = held.documents
              /\ without.entities = held.entities
              /\ without.claims = Restrict(held.claims, DOMAIN held.claims \ out)
              /\ without.evidence = Apart(held.evidence, out)
              /\ without.mentions = Apart(held.mentions, out)
              /\ without.candidates
                   = [c \in DOMAIN held.candidates |-> Unlinked(held.candidates[c], kept)]
            BY <2>2, WithoutIs
        <3>2. left = without  BY <2>1
        <3> HIDE DEF without, left, kept, out
        <3> QED  BY <3>1, <3>2
    <2>4. Gone(old, l) \cup out = Gone(old, m)
        <3>1. /\ DOMAIN held.claims = DOMAIN old.claims \ Gone(old, l)
              /\ \A c \in DOMAIN held.claims : held.claims[c] = HeldClaim(old.claims[c], r, l)
            BY <1>1 DEF IsHeld
        <3>2. \A c \in DOMAIN old.claims :
                HeldClaim(old.claims[c], r, l).chunk = old.claims[c].chunk
            BY RowsOf DEF HeldClaim, ClaimRow
        <3>3. out = {c \in DOMAIN old.claims \ Gone(old, l) : ~old.claims[c].chunk}
            BY <3>1, <3>2 DEF Whole
        <3>4. out = Whole(old) \ Gone(old, l)  BY <3>3 DEF Whole
        <3> QED  BY <1>2, <1>5, <3>4
    <2> HIDE DEF left, out
    <2>5. left.claims = [c \in DOMAIN old.claims \ Gone(old, m) |-> HeldClaim(old.claims[c], r, l)]
        <3>1. held.claims = [c \in DOMAIN old.claims \ Gone(old, l) |->
                                HeldClaim(old.claims[c], r, l)]
            BY <1>1 DEF IsHeld
        <3>2. DOMAIN held.claims \ out = DOMAIN old.claims \ Gone(old, m)  BY <2>4, <3>1
        <3>3. left.claims = [c \in DOMAIN held.claims \ out |-> held.claims[c]]
            BY <2>3 DEF Restrict
        <3>4. \A c \in DOMAIN held.claims \ out : held.claims[c] = HeldClaim(old.claims[c], r, l)
            BY <3>1
        <3> QED  BY <3>2, <3>3, <3>4
    <2>6. /\ left.evidence = Apart(old.evidence, Gone(old, m))
          /\ left.mentions = Apart(old.mentions, Gone(old, m))
        BY <1>1, <2>3, <2>4, ApartTwice DEF IsHeld
    <2>7. kept = DOMAIN Apart(old.mentions, Gone(old, m))  BY <2>3, <2>6
    <2> HIDE DEF kept
    <2>8. ASSUME NEW c \in DOMAIN old.candidates
          PROVE  Unlinked(HeldCandidate(linked(c, l), r, l), kept) = HeldCandidate(linked(c, m), r, l)
        <3> DEFINE A == DOMAIN Apart(old.mentions, Gone(old, l))
        <3>1. old.candidates[c] \in CandidateRow /\ DOMAIN old.mentions \subseteq Nat \ {0}
            BY RowsOf
        <3>2. A \in SUBSET (Nat \ {0}) /\ kept \in SUBSET A
            <4>1. IsTable(old.mentions, MentionRow)  BY DEF IsDatabase
            <4>2. A = {id \in DOMAIN old.mentions : old.mentions[id].claim \notin Gone(old, l)}
                BY <4>1, ApartDomain
            <4>3. kept = {id \in DOMAIN old.mentions : old.mentions[id].claim \notin Gone(old, m)}
                BY <2>7, <4>1, ApartDomain
            <4> HIDE DEF A
            <4> QED  BY <2>4, <3>1, <4>2, <4>3
        <3>3. linked(c, l) = Unlinked(old.candidates[c], A)  OBVIOUS
        <3>4. linked(c, m) = Unlinked(old.candidates[c], kept)  BY <2>7
        <3> HIDE DEF A, linked
        <3>5. linked(c, l) \in CandidateRow  BY <3>1, <3>3, UnlinkedIs
        <3>6. Unlinked(HeldCandidate(linked(c, l), r, l), kept)
                = HeldCandidate(Unlinked(linked(c, l), kept), r, l)
            BY <3>5, UnlinkedHeld
        <3>7. Unlinked(linked(c, l), kept) = linked(c, m)
            BY <3>1, <3>2, <3>3, <3>4, UnlinkedTwice
        <3> QED  BY <3>6, <3>7
    <2>9. left.candidates = [c \in IF m < 20 THEN {} ELSE DOMAIN old.candidates |->
                                HeldCandidate(linked(c, m), r, l)]
        <3>1. ids = (IF m < 20 THEN {} ELSE DOMAIN old.candidates) /\ ids \subseteq DOMAIN old.candidates
            BY <1>2, <1>5
        <3> HIDE DEF linked, ids
        <3>2. left.candidates = [c \in ids |-> Unlinked(HeldCandidate(linked(c, l), r, l), kept)]
            BY <1>3, <2>3
        <3>3. \A c \in ids : Unlinked(HeldCandidate(linked(c, l), r, l), kept)
                                = HeldCandidate(linked(c, m), r, l)
            BY <2>8, <3>1
        <3>4. left.candidates = [c \in ids |-> HeldCandidate(linked(c, m), r, l)]
            BY <3>2, <3>3
        <3> QED  BY <3>1, <3>4
    <2> QED  BY <2>3, <2>5, <2>6, <2>9 DEF IsShed, left, held
<1>6. CASE r \notin {20, 26}
    <2>1. left = held  BY <1>6 DEF Shed
    <2>2. Gone(old, m) = Gone(old, l) /\ (m < 20 <=> l < 20)  BY <1>2, <1>6
    <2>3. left.candidates = [c \in IF m < 20 THEN {} ELSE DOMAIN old.candidates |->
                                HeldCandidate(linked(c, m), r, l)]
        BY <1>3, <2>1, <2>2
    <2> HIDE DEF left
    <2> QED  BY <1>1, <2>1, <2>2, <2>3 DEF IsHeld, IsShed, left, held
<1> QED  BY <1>4, <1>5, <1>6


LEMMA HeldDown ==
    ASSUME NEW old, IsDatabase(old), NEW r \in 19..27, NEW l \in 18..r,
           NEW m, m = IF l = r THEN r - 1 ELSE l
    PROVE  Downgraded(r, Held(old, r, l)) = Held(old, r - 1, m)
<1> DEFINE held == Held(old, r, l)
           left == Shed(r, held)
           down == Downgraded(r, held)
           ids == IF m < 20 THEN {} ELSE DOMAIN old.candidates
           linked(c) == Unlinked(old.candidates[c], DOMAIN Apart(old.mentions, Gone(old, m)))
<1>1. /\ down.sources = [s \in DOMAIN left.sources |-> OldSource(r, left.sources[s])]
      /\ down.runs = [x \in DOMAIN left.runs |-> OldRun(r, left.runs[x])]
      /\ down.fetches = [f \in DOMAIN left.fetches |-> OldFetch(r, left.fetches[f])]
      /\ down.documents = [d \in DOMAIN left.documents |-> OldDocument(r, left.documents[d])]
      /\ down.claims = [c \in DOMAIN left.claims |-> OldClaim(r, left.claims[c])]
      /\ down.evidence = left.evidence /\ down.mentions = left.mentions
      /\ down.candidates = [c \in DOMAIN left.candidates |-> OldCandidate(r, left.candidates[c])]
      /\ down.entities = [e \in DOMAIN left.entities |-> OldEntity(r, left.entities[e])]
    BY DEF Downgraded, Each
<1>2. down = Tabled(down)  BY DEF Downgraded, Tabled
<1>3. IsHeld(held, old, r, l)  BY HeldIs
<1>4. /\ left.sources = held.sources /\ left.runs = held.runs
      /\ left.fetches = held.fetches /\ left.documents = held.documents
      /\ left.entities = held.entities
      /\ left.claims = [c \in DOMAIN old.claims \ Gone(old, m) |-> HeldClaim(old.claims[c], r, l)]
      /\ left.evidence = Apart(old.evidence, Gone(old, m))
      /\ left.mentions = Apart(old.mentions, Gone(old, m))
      /\ left.candidates = [c \in ids |-> HeldCandidate(linked(c), r, l)]
    <2>1. IsShed(left, held, old, r, l, m)  BY HeldShed
    <2> HIDE DEF left, held
    <2> QED  BY <2>1 DEF IsShed
<1>5. HeldCandidates(old, r - 1, m) = [c \in ids |-> HeldCandidate(linked(c), r - 1, m)]
    BY DEF HeldCandidates
<1>6. \A c \in ids : linked(c) \in CandidateRow  BY RowsOf, UnlinkedIs
<1> HIDE DEF held, left, down, ids, linked
<1>7. down.sources = [s \in DOMAIN old.sources |-> HeldSource(old.sources[s], r - 1, m)]
    BY <1>1, <1>3, <1>4, RowsOf, HeldSourceDown DEF IsHeld
<1>8. down.runs = [x \in DOMAIN old.runs |-> HeldRun(old.runs[x], r - 1, m)]
    BY <1>1, <1>3, <1>4, RowsOf, HeldRunDown DEF IsHeld
<1>9. down.fetches = [f \in DOMAIN old.fetches |-> HeldFetch(old.fetches[f], r - 1, m)]
    BY <1>1, <1>3, <1>4, RowsOf, HeldFetchDown DEF IsHeld
<1>10. down.documents = [d \in DOMAIN old.documents |-> HeldDocument(old.documents[d], r - 1, m)]
    BY <1>1, <1>3, <1>4, RowsOf, HeldDocumentDown DEF IsHeld
<1>11. down.claims
         = [c \in DOMAIN old.claims \ Gone(old, m) |-> HeldClaim(old.claims[c], r - 1, m)]
    BY <1>1, <1>4, RowsOf, HeldClaimDown
<1>12. down.candidates = HeldCandidates(old, r - 1, m)
    <2>1. \A c \in ids :
            OldCandidate(r, HeldCandidate(linked(c), r, l)) = HeldCandidate(linked(c), r - 1, m)
        BY <1>6, HeldCandidateDown
    <2>2. down.candidates = [c \in ids |-> OldCandidate(r, HeldCandidate(linked(c), r, l))]
        BY <1>1, <1>4
    <2> QED  BY <1>5, <2>1, <2>2
<1>13. down.entities = [e \in DOMAIN old.entities |-> HeldEntity(old.entities[e], r - 1, m)]
    BY <1>1, <1>3, <1>4, RowsOf, HeldEntityDown DEF IsHeld
<1>14. IsHeld(down, old, r - 1, m)
    BY <1>1, <1>2, <1>4, <1>7, <1>8, <1>9, <1>10, <1>11, <1>12, <1>13 DEF IsHeld
<1> QED  BY <1>14, HeldIs DEF down, held


\* Before it leaves 0027 nothing is gone, and back there what Remaining tells is left.
LEMMA HeldFirst ==
    ASSUME NEW old, IsDatabase(old),
           \A c \in DOMAIN old.candidates :
               old.candidates[c].mention \in DOMAIN old.mentions \cup {0}
    PROVE  old = Held(old, 27, 27)
<1>1. old = Tabled(old)  BY DEF IsDatabase
<1>2. Gone(old, 27) = {}  BY DEF Gone
<1>3. \A c, default, value : Column(c, default, value, 27, 27) = IF 27 < c THEN Absent ELSE value
    BY DEF Column
<1>4. ASSUME NEW row \in SourceRow PROVE HeldSource(row, 27, 27) = row
    <2>1. /\ Column(19, "weekly", row.recrawl, 27, 27) = row.recrawl
          /\ Column(27, "unbounded", row.depth, 27, 27) = row.depth
        BY <1>3
    <2>2. HeldSource(row, 27, 27) = [row EXCEPT !.recrawl = row.recrawl, !.depth = row.depth]
        BY <2>1 DEF HeldSource, SourceRow
    <2> QED  BY <2>2 DEF SourceRow
<1>5. \A row \in RunRow : HeldRun(row, 27, 27) = row  BY <1>3 DEF HeldRun, RunRow
<1>6. \A row \in FetchRow : HeldFetch(row, 27, 27) = row  BY <1>3 DEF HeldFetch, FetchRow
<1>7. \A row \in DocumentRow : HeldDocument(row, 27, 27) = row
    BY <1>3 DEF HeldDocument, DocumentRow
<1>8. \A row \in ClaimRow : HeldClaim(row, 27, 27) = row  BY <1>3 DEF HeldClaim, ClaimRow
<1>9. \A row \in CandidateRow : HeldCandidate(row, 27, 27) = row
    BY <1>3 DEF HeldCandidate, CandidateRow
<1>10. ASSUME NEW row \in EntityRow PROVE HeldEntity(row, 27, 27) = row
    <2>1. /\ Column(22, "active", row.status, 27, 27) = row.status
          /\ Column(22, "none", row.curation, 27, 27) = row.curation
          /\ Column(21, "none", row.heir, 27, 27) = row.heir
        BY <1>3
    <2>2. HeldEntity(row, 27, 27)
            = [row EXCEPT !.status = row.status, !.curation = row.curation, !.heir = row.heir]
        BY <2>1 DEF HeldEntity, EntityRow
    <2> QED  BY <2>2 DEF EntityRow
<1>11. ASSUME NEW table, NEW Row, IsTable(table, Row)
       PROVE  Apart(table, Gone(old, 27)) = table
    BY <1>2, <1>11 DEF Apart, Restrict, IsTable
<1>12. Apart(old.evidence, Gone(old, 27)) = old.evidence  BY <1>11 DEF IsDatabase
<1>13. Apart(old.mentions, Gone(old, 27)) = old.mentions  BY <1>11 DEF IsDatabase
<1>14. HeldCandidates(old, 27, 27) = old.candidates
    <2>1. \A c \in DOMAIN old.candidates :
            HeldCandidate(Unlinked(old.candidates[c], DOMAIN old.mentions), 27, 27)
                = old.candidates[c]
        BY <1>9, RowsOf, UnlinkedIs
    <2>2. old.candidates = [c \in DOMAIN old.candidates |-> old.candidates[c]]
        BY DEF IsDatabase, IsTable
    <2>3. HeldCandidates(old, 27, 27)
            = [c \in DOMAIN old.candidates |->
                  HeldCandidate(Unlinked(old.candidates[c], DOMAIN old.mentions), 27, 27)]
        BY <1>13 DEF HeldCandidates
    <2> QED  BY <2>1, <2>2, <2>3
<1>15. /\ old.sources = [s \in DOMAIN old.sources |-> old.sources[s]]
       /\ old.runs = [x \in DOMAIN old.runs |-> old.runs[x]]
       /\ old.fetches = [f \in DOMAIN old.fetches |-> old.fetches[f]]
       /\ old.documents = [d \in DOMAIN old.documents |-> old.documents[d]]
       /\ old.claims = [c \in DOMAIN old.claims |-> old.claims[c]]
       /\ old.entities = [e \in DOMAIN old.entities |-> old.entities[e]]
    BY DEF IsDatabase, IsTable
<1>16. /\ old.sources = [s \in DOMAIN old.sources |-> HeldSource(old.sources[s], 27, 27)]
       /\ old.runs = [x \in DOMAIN old.runs |-> HeldRun(old.runs[x], 27, 27)]
       /\ old.fetches = [f \in DOMAIN old.fetches |-> HeldFetch(old.fetches[f], 27, 27)]
       /\ old.documents = [d \in DOMAIN old.documents |-> HeldDocument(old.documents[d], 27, 27)]
       /\ old.claims = [c \in DOMAIN old.claims \ Gone(old, 27) |->
                           HeldClaim(old.claims[c], 27, 27)]
       /\ old.entities = [e \in DOMAIN old.entities |-> HeldEntity(old.entities[e], 27, 27)]
    BY <1>2, <1>4, <1>5, <1>6, <1>7, <1>8, <1>10, <1>15, RowsOf
<1>17. IsHeld(old, old, 27, 27)
    BY <1>1, <1>12, <1>13, <1>14, <1>16, Zenon DEF IsHeld
<1> QED  BY <1>17, HeldIs

LEMMA RemainingIs ==
    ASSUME NEW old, IsDatabase(old), low \in 1..27
    PROVE  Remaining(old) = Held(old, 27, low)
<1> DEFINE left == WithoutClaims(old, Gone(old, low))
           rest == Remaining(old)
           ids == Since(20, {}, DOMAIN left.candidates)
           source(row) == [row EXCEPT !.recrawl = Since(19, "weekly", @),
                                      !.depth = Since(27, "unbounded", @)]
           run(row) == [row EXCEPT !.beat = Since(19, "started", @)]
           fetch(row) == [row EXCEPT !.since = Since(19, "none", @)]
           document(row) == [row EXCEPT !.vector = Since(26, "none", @)]
           claim(row) == [row EXCEPT !.subject = Since(24, "person", @)]
           candidate(row) == [row EXCEPT !.context = Since(22, "none", @)]
           entity(row) == [row EXCEPT !.status = Since(22, "active", @),
                                      !.curation = Since(22, "none", @),
                                      !.heir = Since(21, "none", @)]
<1>1. /\ \A row : source(row) = HeldSource(row, 27, low)
      /\ \A row : run(row) = HeldRun(row, 27, low)
      /\ \A row : fetch(row) = HeldFetch(row, 27, low)
      /\ \A row : document(row) = HeldDocument(row, 27, low)
      /\ \A row : claim(row) = HeldClaim(row, 27, low)
      /\ \A row : candidate(row) = HeldCandidate(row, 27, low)
      /\ \A row : entity(row) = HeldEntity(row, 27, low)
    BY DEF Since, Column, HeldSource, HeldRun, HeldFetch, HeldDocument, HeldClaim, HeldCandidate,
           HeldEntity
<1>2. left = WithoutClaims(old, IF low < 26 THEN Whole(old) ELSE {})  BY DEF Gone
<1>3. /\ left.claims = Restrict(old.claims, DOMAIN old.claims \ Gone(old, low))
      /\ left.evidence = Apart(old.evidence, Gone(old, low))
      /\ left.mentions = Apart(old.mentions, Gone(old, low))
      /\ left.candidates
            = [c \in DOMAIN old.candidates |->
                  Unlinked(old.candidates[c], DOMAIN Apart(old.mentions, Gone(old, low)))]
    <2>1. old = Tabled(old)  BY DEF IsDatabase
    <2> QED  BY <2>1, WithoutIs
<1>4. /\ rest.sources = [s \in DOMAIN old.sources |-> source(old.sources[s])]
      /\ rest.runs = [x \in DOMAIN old.runs |-> run(old.runs[x])]
      /\ rest.fetches = [f \in DOMAIN old.fetches |-> fetch(old.fetches[f])]
      /\ rest.documents = [d \in DOMAIN old.documents |-> document(old.documents[d])]
      /\ rest.claims = [c \in DOMAIN left.claims |-> claim(left.claims[c])]
      /\ rest.evidence = left.evidence /\ rest.mentions = left.mentions
      /\ rest.candidates = [c \in DOMAIN Restrict(left.candidates, ids) |->
                               candidate(Restrict(left.candidates, ids)[c])]
      /\ rest.entities = [e \in DOMAIN old.entities |-> entity(old.entities[e])]
      /\ rest = Tabled(rest)
    <2> HIDE DEF left
    <2> QED  BY <1>2 DEF Remaining, Tabled, Each
<1> HIDE DEF left, rest, source, run, fetch, document, claim, candidate, entity
<1>5. rest.sources = [s \in DOMAIN old.sources |-> HeldSource(old.sources[s], 27, low)]
    BY <1>1, <1>4
<1>6. rest.runs = [x \in DOMAIN old.runs |-> HeldRun(old.runs[x], 27, low)]
    BY <1>1, <1>4
<1>7. rest.fetches = [f \in DOMAIN old.fetches |-> HeldFetch(old.fetches[f], 27, low)]
    BY <1>1, <1>4
<1>8. rest.documents = [d \in DOMAIN old.documents |-> HeldDocument(old.documents[d], 27, low)]
    BY <1>1, <1>4
<1>9. rest.claims
        = [c \in DOMAIN old.claims \ Gone(old, low) |-> HeldClaim(old.claims[c], 27, low)]
    <2>1. left.claims = [c \in DOMAIN old.claims \ Gone(old, low) |-> old.claims[c]]
        BY <1>3 DEF Restrict
    <2>2. rest.claims = [c \in DOMAIN left.claims |-> HeldClaim(left.claims[c], 27, low)]
        BY <1>1, <1>4
    <2> QED  BY <2>1, <2>2
<1>10. rest.candidates = HeldCandidates(old, 27, low)
    <2> DEFINE linked(c) == Unlinked(old.candidates[c], DOMAIN Apart(old.mentions, Gone(old, low)))
               these == IF low < 20 THEN {} ELSE DOMAIN old.candidates
               part == Restrict(left.candidates, ids)
    <2>1. ids = these
        <3>1. DOMAIN left.candidates = DOMAIN old.candidates  BY <1>3
        <3> QED  BY <3>1 DEF Since
    <2>2. left.candidates = [c \in DOMAIN old.candidates |-> linked(c)]  BY <1>3
    <2>3. HeldCandidates(old, 27, low) = [c \in these |-> HeldCandidate(linked(c), 27, low)]
        BY DEF HeldCandidates
    <2>4. these \subseteq DOMAIN old.candidates  OBVIOUS
    <2>5. part = [c \in ids |-> left.candidates[c]]  BY DEF Restrict
    <2>6. rest.candidates = [c \in DOMAIN part |-> HeldCandidate(part[c], 27, low)]
        BY <1>1, <1>4
    <2> HIDE DEF linked, these, part, ids
    <2>7. part = [c \in these |-> linked(c)]  BY <2>1, <2>2, <2>4, <2>5
    <2> QED  BY <2>3, <2>6, <2>7
<1>11. rest.entities = [e \in DOMAIN old.entities |-> HeldEntity(old.entities[e], 27, low)]
    BY <1>1, <1>4
<1>12. IsHeld(rest, old, 27, low)
    BY <1>3, <1>4, <1>5, <1>6, <1>7, <1>8, <1>9, <1>10, <1>11, Zenon DEF IsHeld
<1> QED  BY <1>12, HeldIs DEF rest

LEMMA FromHeadInit == SchemaInit => FromHead
<1> SUFFICES ASSUME SchemaInit, was.rev = Latest
             PROVE  low >= 18 /\ ~db.checks.confidence /\ db.rows = Held(was.rows, db.rev, low)
    BY DEF FromHead
<1>1. Placed  BY PlacedInit
<1>2. was = db /\ low = db.rev  BY DEF SchemaInit
<1>3. low = 27 /\ db.rev = 27  BY <1>2 DEF Latest
<1>4. db.rows = Held(db.rows, 27, 27)
    <2>1. IsDatabase(db.rows) /\ Referenced(db)  BY <1>1 DEF Placed, IsSchema, Fits
    <2> QED  BY <2>1, HeldFirst DEF Referenced
<1>5. ~db.checks.confidence
    <2>1. db.checks.confidence \in ConfidencesAt(27)  BY <1>1, <1>3 DEF Placed, IsSchema
    <2>2. ConfidencesAt(27) = {FALSE}  BY DEF ConfidencesAt
    <2>3. db.checks.confidence = FALSE  BY <2>1, <2>2, Zenon
    <2> QED  BY <2>3
<1> QED  BY <1>2, <1>3, <1>4, <1>5

LEMMA FromHeadNext == Placed /\ FromHead /\ [SchemaNext]_schemaVars => FromHead'
<1> SUFFICES ASSUME Placed, FromHead, [SchemaNext]_schemaVars PROVE FromHead'  OBVIOUS
<1>1. CASE Upgrade
    <2> SUFFICES ASSUME was.rev = Latest
                 PROVE  /\ low' >= 18 /\ ~db'.checks.confidence
                        /\ db'.rows = Held(was.rows, db'.rev, low')
        BY <1>1 DEF Upgrade, FromHead
    <2> DEFINE r == db.rev
    <2>1. db' = Above(db) /\ low' = low /\ r < Latest  BY <1>1 DEF Upgrade
    <2>2. low >= 18 /\ ~db.checks.confidence /\ db.rows = Held(was.rows, r, low)
        BY DEF FromHead
    <2>3. r \in 18..26 /\ low \in 18..r
        BY <2>1, <2>2 DEF Placed, IsSchema, Latest
    <2>4. /\ db'.rev = r + 1 /\ db'.checks = NewChecks(r + 1, db.checks)
          /\ db'.rows = Upgraded(r + 1, db.rows)
        BY <2>1, AboveIs
    <2>5. IsDatabase(was.rows)  BY DEF Placed, IsSchema
    <2>6. db'.rows = Held(was.rows, r + 1, low)
        <3> HIDE DEF r
        <3> QED  BY <2>2, <2>3, <2>4, <2>5, HeldUp
    <2>7. ~db'.checks.confidence
        <3>1. db.checks = ChecksAt(r, db.checks.runKind, FALSE)
            BY <2>2 DEF Placed, IsSchema, ConfidencesAt
        <3>2. r + 1 \in 19..27  BY <2>3
        <3> HIDE DEF r
        <3>3. r + 1 # 18  BY <3>2
        <3> QED  BY <2>4, <3>1, <3>3 DEF NewChecks, ChecksAt
    <2> QED  BY <2>1, <2>2, <2>4, <2>6, <2>7
<1>2. CASE Downgrade
    <2> SUFFICES ASSUME was.rev = Latest
                 PROVE  /\ low' >= 18 /\ ~db'.checks.confidence
                        /\ db'.rows = Held(was.rows, db'.rev, low')
        BY <1>2 DEF Downgrade, FromHead
    <2> DEFINE r == db.rev
               m == IF low = r THEN r - 1 ELSE low
    <2>1. db' = Below(db) /\ low' = (IF r = low THEN low - 1 ELSE low) /\ r > 1
        BY <1>2 DEF Downgrade
    <2>2. low >= 18 /\ ~db.checks.confidence /\ db.rows = Held(was.rows, r, low)
        BY DEF FromHead
    <2>3. r # 18  BY <1>2, <2>2 DEF Downgrade
    <2>4. r \in 19..27 /\ low \in 18..r
        BY <2>2, <2>3 DEF Placed, IsSchema, Latest
    <2>5. low' = m /\ low' >= 18  BY <2>1, <2>4
    <2>6. /\ db'.rev = r - 1 /\ db'.checks = OldChecks(r, db.checks)
          /\ db'.rows = Downgraded(r, db.rows)
        BY <2>1, BelowIs
    <2>7. IsDatabase(was.rows)  BY DEF Placed, IsSchema
    <2>8. db'.rows = Held(was.rows, r - 1, m)
        <3>1. Downgraded(r, Held(was.rows, r, low)) = Held(was.rows, r - 1, m)
            <4> HIDE DEF r
            <4> QED  BY <2>4, <2>7, HeldDown
        <3> QED  BY <2>2, <2>6, <3>1
    <2>9. ~db'.checks.confidence
        <3>1. db.checks = ChecksAt(r, db.checks.runKind, FALSE)
            BY <2>2 DEF Placed, IsSchema, ConfidencesAt
        <3> HIDE DEF r
        <3> QED  BY <2>4, <2>6, <3>1 DEF OldChecks, ChecksAt
    <2> QED  BY <2>5, <2>6, <2>8, <2>9
<1>3. CASE UNCHANGED schemaVars
    BY <1>3 DEF schemaVars, FromHead
<1> QED  BY <1>1, <1>2, <1>3 DEF SchemaNext
-----------------------------------------------------------------------------
\* Databases of revision 0001. One row at a revision, taken to the next and back.

LEMMA FirstSourceUp ==
    ASSUME NEW old \in SourceRow, NEW row \in SourceRow, NEW r \in 2..27,
           FirstSource(row, old, r - 1)
    PROVE  FirstSource(NewSource(r, At(r, row)), old, r)
<1> DEFINE at == At(r, row)
           new == NewSource(r, at)
<1>1. /\ at \in SourceRow /\ at.kind = row.kind /\ at.host = row.host
      /\ at.notes = row.notes /\ at.status = row.status
    BY HostedIs DEF At
<1> HIDE DEF at
<1>2. /\ new.kind = row.kind /\ new.host = row.host
      /\ new.status = IF r = 10 THEN IF HasTag(at) THEN row.notes[1] ELSE "active"
                      ELSE IF r = 14 /\ row.status = "paused" THEN "active" ELSE row.status
      /\ new.notes = IF r = 10 /\ HasTag(at) THEN Tail(row.notes) ELSE row.notes
    BY <1>1, NewSourceIs
<1> HIDE DEF new
<1>3. CASE r = 10
    <2>1. old.notes # <<>> /\ old.notes[1] = "archived" => row.notes = old.notes
        BY <1>3 DEF FirstSource
    <2>2. old.notes # <<>> /\ old.notes[1] = "archived" => HasTag(at)
        BY <1>1, <2>1 DEF HasTag
    <2>3. Told(new, old)  BY <1>2, <1>3, <2>1, <2>2 DEF Told
    <2> QED  BY <1>2, <1>3, <2>3 DEF FirstSource, at, new
<1>4. CASE r # 10
    <2>1. new.notes = row.notes
          /\ new.status = IF r = 14 /\ row.status = "paused" THEN "active" ELSE row.status
        BY <1>2, <1>4
    <2>2. r < 10 <=> r - 1 < 10  BY <1>4
    <2>3. r >= 10 => Told(row, old)  BY <2>2 DEF FirstSource
    <2>4. r >= 10 => Told(new, old)  BY <2>1, <2>3 DEF Told
    <2> QED  BY <1>2, <2>1, <2>2, <2>4 DEF FirstSource, at, new
<1> QED  BY <1>3, <1>4

LEMMA FirstSourceDown ==
    ASSUME NEW old \in SourceRow, NEW row \in SourceRow, NEW r \in 2..27,
           FirstSource(row, old, r)
    PROVE  FirstSource(OldSource(r, row), old, r - 1)
<1> DEFINE new == OldSource(r, row)
<1>1. /\ new.kind = row.kind /\ new.host = row.host
      /\ new.status = IF r = 10 THEN Absent ELSE row.status
      /\ IF r = 10 /\ row.status \in {"archived", "paused"}
         THEN new.notes = <<row.status>> \o row.notes
         ELSE new.notes = row.notes
    BY OldSourceIs
<1> HIDE DEF new
<1>2. CASE r = 10
    <2>1. ASSUME old.notes # <<>>, old.notes[1] = "archived" PROVE new.notes = old.notes
        <3>1. row.status = "archived" /\ row.notes = Tail(old.notes)
            BY <1>2, <2>1 DEF FirstSource, Told
        <3>2. new.notes = <<"archived">> \o Tail(old.notes)  BY <1>1, <1>2, <3>1
        <3>3. old.notes \in Seq(Words)  BY DEF SourceRow
        <3>4. old.notes = <<old.notes[1]>> \o Tail(old.notes)  BY <2>1, <3>3
        <3> QED  BY <2>1, <3>2, <3>4
    <2> QED  BY <1>1, <1>2, <2>1 DEF FirstSource, new
<1>3. CASE r # 10
    <2>1. new.notes = row.notes /\ new.status = row.status  BY <1>1, <1>3
    <2>2. r < 10 <=> r - 1 < 10  BY <1>3
    <2>3. r >= 10 => Told(new, old)  BY <2>1 DEF FirstSource, Told
    <2> QED  BY <1>1, <2>1, <2>2, <2>3 DEF FirstSource, new
<1> QED  BY <1>2, <1>3

\* A run of a kind and in a state of 0001.
FirstStates(row, old, r) ==
    /\ row.kind = old.kind
    /\ row.status = IF r >= 17 /\ old.status = "cancelled" THEN "stopped" ELSE old.status

LEMMA FirstStatesUp ==
    ASSUME NEW old \in RunRow, NEW row \in RunRow, NEW r \in 2..27,
           old.kind \in RunKinds1, old.status \in Statuses1, FirstStates(row, old, r - 1)
    PROVE  FirstStates(NewRun(r, row), old, r)
<1>1. row.kind # "pipeline"  BY DEF FirstStates, RunKinds1
<1>2. row.status # "paused" /\ (r = 17 => row.status = old.status)
    BY DEF FirstStates, Statuses1
<1>3. /\ NewRun(r, row).kind = row.kind
      /\ NewRun(r, row).status
            = IF r = 17 /\ row.status \in {"paused", "cancelled"} THEN "stopped" ELSE row.status
    BY <1>1, NewRunIs
<1> QED  BY <1>2, <1>3 DEF FirstStates

LEMMA FirstStatesDown ==
    ASSUME NEW old \in RunRow, NEW row \in RunRow, NEW r \in 2..27,
           old.kind \in RunKinds1, old.status \in Statuses1, FirstStates(row, old, r)
    PROVE  FirstStates(OldRun(r, row), old, r - 1)
<1>1. row.kind # "parse"  BY DEF FirstStates, RunKinds1
<1>2. /\ row.status \notin {"queued", "paused", "superseded"}
      /\ r = 17 => (row.status = "stopped" <=> old.status = "cancelled")
    BY DEF FirstStates, Statuses1
<1>3. /\ OldRun(r, row).kind = row.kind
      /\ OldRun(r, row).status
            = IF r = 17 /\ row.status = "stopped" THEN "cancelled" ELSE row.status
    BY <1>1, <1>2, OldRunIs
<1> QED  BY <1>2, <1>3 DEF FirstStates

\* Sites, told by kinds and hosts, stay the sites they were.
LEMMA SiteStays ==
    ASSUME NEW o, NEW n, NEW r, FirstSources(n, o, r),
           NEW s \in DOMAIN n.sources, NEW t \in DOMAIN n.sources, SameSite(s, t, n)
    PROVE  SameSite(s, t, o)
<1>1. \A u \in DOMAIN n.sources : /\ n.sources[u].kind = o.sources[u].kind
                                  /\ n.sources[u].host = o.sources[u].host
    BY Zenon DEF FirstSources, FirstSource
<1> QED  BY <1>1, Zenon DEF SameSite

LEMMA SiteChains ==
    ASSUME NEW o, NEW s, NEW t, NEW u, SameSite(s, t, o), SameSite(t, u, o)
    PROVE  SameSite(s, u, o)
    BY Zenon DEF SameSite

LEMMA IntoIs ==
    ASSUME NEW o, NEW n, IsDatabase(n), NEW r \in Nat, NEW q, FirstSources(n, o, q),
           NEW s \in DOMAIN n.sources
    PROVE  Into(r, s, n) \in DOMAIN n.sources /\ SameSite(s, Into(r, s, n), o)
<1>1. Into(r, s, n) \in DOMAIN n.sources  BY SurvivorIs DEF Into
<1>2. SameSite(s, Into(r, s, n), n)  BY SurvivorIs DEF Into, SameSite
<1> QED  BY <1>1, <1>2, SiteStays

LEMMA FirstSourcesUp ==
    ASSUME NEW o, NEW n, NEW r \in 2..27, IsDatabase(o), IsDatabase(n),
           FirstSources(n, o, r - 1)
    PROVE  FirstSources(Upgraded(r, n), o, r)
<1> DEFINE up == Upgraded(r, n).sources
<1>1. /\ DOMAIN up = {Into(r, t, n) : t \in DOMAIN n.sources}
      /\ DOMAIN up \subseteq DOMAIN n.sources
      /\ \A s \in DOMAIN up : up[s] = NewSource(r, At(r, n.sources[s]))
    BY UpgradedSources
<1> HIDE DEF up
<1>2. ASSUME NEW s \in DOMAIN o.sources PROVE \E t \in DOMAIN up : SameSite(s, t, o)
    <2>1. PICK t \in DOMAIN n.sources : SameSite(s, t, o)  BY DEF FirstSources
    <2>2. SameSite(t, Into(r, t, n), o)  BY IntoIs
    <2>3. SameSite(s, Into(r, t, n), o)  BY <2>1, <2>2, SiteChains
    <2> QED  BY <1>1, <2>3
<1>3. ASSUME NEW t \in DOMAIN up
      PROVE  t \in DOMAIN o.sources /\ FirstSource(up[t], o.sources[t], r)
    <2>1. t \in DOMAIN n.sources /\ t \in DOMAIN o.sources
          /\ FirstSource(n.sources[t], o.sources[t], r - 1)
        BY <1>1 DEF FirstSources
    <2>2. o.sources[t] \in SourceRow /\ n.sources[t] \in SourceRow  BY <2>1, RowsOf
    <2>3. FirstSource(NewSource(r, At(r, n.sources[t])), o.sources[t], r)
        BY <2>1, <2>2, FirstSourceUp
    <2> QED  BY <1>1, <2>1, <2>3
<1> QED  BY <1>2, <1>3, Zenon DEF FirstSources, up

LEMMA FirstSourcesDown ==
    ASSUME NEW o, NEW n, NEW r \in 2..27, IsDatabase(o), IsDatabase(n), FirstSources(n, o, r)
    PROVE  FirstSources(Downgraded(r, n), o, r - 1)
<1> DEFINE down == Downgraded(r, n).sources
<1>1. /\ DOMAIN down = DOMAIN n.sources
      /\ \A s \in DOMAIN n.sources : down[s] = OldSource(r, n.sources[s])
    BY DowngradedSources
<1> HIDE DEF down
<1>2. \A s \in DOMAIN o.sources : \E t \in DOMAIN down : SameSite(s, t, o)
    BY <1>1 DEF FirstSources
<1>3. ASSUME NEW t \in DOMAIN down
      PROVE  t \in DOMAIN o.sources /\ FirstSource(down[t], o.sources[t], r - 1)
    <2>1. t \in DOMAIN n.sources /\ t \in DOMAIN o.sources
          /\ FirstSource(n.sources[t], o.sources[t], r)
        BY <1>1 DEF FirstSources
    <2>2. o.sources[t] \in SourceRow /\ n.sources[t] \in SourceRow  BY <2>1, RowsOf
    <2>3. FirstSource(OldSource(r, n.sources[t]), o.sources[t], r - 1)
        BY <2>1, <2>2, FirstSourceDown
    <2> QED  BY <1>1, <2>1, <2>3
<1> QED  BY <1>2, <1>3, Zenon DEF FirstSources, down

LEMMA FirstRunsUp ==
    ASSUME NEW o, NEW n, NEW r \in 2..27, IsDatabase(o), IsDatabase(n),
           FirstSources(n, o, r - 1), FirstRuns(n, o, r - 1),
           \A x \in DOMAIN n.runs : n.runs[x].source \in DOMAIN n.sources,
           \A x \in DOMAIN o.runs : o.runs[x].kind \in RunKinds1 /\ o.runs[x].status \in Statuses1
    PROVE  FirstRuns(Upgraded(r, n), o, r)
<1> DEFINE up == Upgraded(r, n).runs
<1>1. /\ DOMAIN up = DOMAIN n.runs
      /\ \A x \in DOMAIN n.runs :
            /\ up[x].source = Into(r, n.runs[x].source, n)
            /\ up[x].kind = NewRun(r, n.runs[x]).kind
            /\ up[x].status = NewRun(r, n.runs[x]).status
    BY UpgradedRuns
<1> HIDE DEF up
<1>2. ASSUME NEW x \in DOMAIN o.runs PROVE FirstRun(up[x], o.runs[x], r, o)
    <2> DEFINE s == n.runs[x].source
    <2>1. x \in DOMAIN n.runs /\ FirstRun(n.runs[x], o.runs[x], r - 1, o)
        BY DEF FirstRuns
    <2>2. o.runs[x] \in RunRow /\ n.runs[x] \in RunRow  BY <2>1, RowsOf
    <2>3. FirstStates(NewRun(r, n.runs[x]), o.runs[x], r)
        <3>1. FirstStates(n.runs[x], o.runs[x], r - 1)  BY <2>1 DEF FirstRun, FirstStates
        <3> QED  BY <2>2, <3>1, FirstStatesUp
    <2>4. FirstStates(up[x], o.runs[x], r)  BY <1>1, <2>1, <2>3 DEF FirstStates
    <2>5. SameSite(s, o.runs[x].source, o) /\ s \in DOMAIN n.sources
        BY <2>1 DEF FirstRun
    <2>6. SameSite(s, Into(r, s, n), o)  BY <2>5, IntoIs
    <2>7. SameSite(Into(r, s, n), o.runs[x].source, o)  BY <2>5, <2>6, Zenon DEF SameSite
    <2>8. up[x].source = Into(r, s, n)  BY <1>1, <2>1
    <2> QED  BY <2>4, <2>7, <2>8 DEF FirstRun, FirstStates
<1> QED  BY <1>1, <1>2 DEF FirstRuns, up

LEMMA FirstRunsDown ==
    ASSUME NEW o, NEW n, NEW r \in 2..27, IsDatabase(o), IsDatabase(n), FirstRuns(n, o, r),
           \A x \in DOMAIN o.runs : o.runs[x].kind \in RunKinds1 /\ o.runs[x].status \in Statuses1
    PROVE  FirstRuns(Downgraded(r, n), o, r - 1)
<1> DEFINE down == Downgraded(r, n).runs
<1>1. DOMAIN down = DOMAIN n.runs /\ \A x \in DOMAIN n.runs : down[x] = OldRun(r, n.runs[x])
    BY DowngradedRuns
<1> HIDE DEF down
<1>2. ASSUME NEW x \in DOMAIN o.runs PROVE FirstRun(down[x], o.runs[x], r - 1, o)
    <2>1. x \in DOMAIN n.runs /\ FirstRun(n.runs[x], o.runs[x], r, o)
        BY DEF FirstRuns
    <2>2. o.runs[x] \in RunRow /\ n.runs[x] \in RunRow  BY <2>1, RowsOf
    <2>3. FirstStates(OldRun(r, n.runs[x]), o.runs[x], r - 1)
        <3>1. FirstStates(n.runs[x], o.runs[x], r)  BY <2>1 DEF FirstRun, FirstStates
        <3> QED  BY <2>2, <3>1, FirstStatesDown
    <2>4. down[x] = OldRun(r, n.runs[x]) /\ down[x].source = n.runs[x].source
        BY <1>1, <2>1, <2>2, OldRunIs
    <2> QED  BY <2>1, <2>3, <2>4 DEF FirstRun, FirstStates
<1> QED  BY <1>1, <1>2 DEF FirstRuns, down

LEMMA FromFirstInit == SchemaInit => FromFirst
<1> SUFFICES ASSUME SchemaInit, was.rev = 1
             PROVE  FirstSources(db.rows, db.rows, 1) /\ FirstRuns(db.rows, db.rows, 1)
    BY DEF FromFirst, SchemaInit
<1>1. FirstSources(db.rows, db.rows, 1)
    BY DEF FirstSources, FirstSource, SameSite
<1>2. FirstRuns(db.rows, db.rows, 1)  BY DEF FirstRuns, FirstRun, SameSite
<1> QED  BY <1>1, <1>2

LEMMA FromFirstNext == Placed /\ FromFirst /\ [SchemaNext]_schemaVars => FromFirst'
<1> SUFFICES ASSUME Placed, FromFirst, [SchemaNext]_schemaVars PROVE FromFirst'  OBVIOUS
<1>1. IsDatabase(was.rows) /\ IsDatabase(db.rows) /\ db.rev \in 1..27
    BY DEF Placed, IsSchema, Latest
<1>2. was.rev = 1 =>
        \A x \in DOMAIN was.rows.runs :
            was.rows.runs[x].kind \in RunKinds1 /\ was.rows.runs[x].status \in Statuses1
    <2> SUFFICES ASSUME was.rev = 1
                 PROVE  \A x \in DOMAIN was.rows.runs :
                            /\ was.rows.runs[x].kind \in RunKinds1
                            /\ was.rows.runs[x].status \in Statuses1
        OBVIOUS
    <2>1. was.checks.runKind = RunKinds1  BY DEF Placed, IsSchema, RunKindsAt
    <2>2. was.checks.runStatus = Statuses1
        BY DEF Placed, IsSchema, ChecksAt, RunStatusesAt
    <2>3. Checked(was)  BY DEF Placed, IsSchema, Fits
    <2> QED  BY <2>1, <2>2, <2>3 DEF Checked
<1>3. CASE Upgrade
    <2> SUFFICES ASSUME was.rev = 1
                 PROVE  /\ FirstSources(db'.rows, was.rows, db'.rev)
                        /\ FirstRuns(db'.rows, was.rows, db'.rev)
        BY <1>3 DEF Upgrade, FromFirst
    <2> DEFINE r == db.rev + 1
    <2>1. db' = Above(db) /\ r \in 2..27 /\ db.rev = r - 1
        BY <1>1, <1>3 DEF Upgrade, Latest
    <2>2. db'.rev = r /\ db'.rows = Upgraded(r, db.rows)  BY <2>1, AboveIs
    <2>3. FirstSources(db.rows, was.rows, r - 1) /\ FirstRuns(db.rows, was.rows, r - 1)
        BY <2>1 DEF FromFirst
    <2>4. \A x \in DOMAIN db.rows.runs : db.rows.runs[x].source \in DOMAIN db.rows.sources
        BY DEF Placed, IsSchema, Fits, Referenced
    <2> HIDE DEF r
    <2>5. FirstSources(Upgraded(r, db.rows), was.rows, r)
        BY <1>1, <2>1, <2>3, FirstSourcesUp
    <2>6. FirstRuns(Upgraded(r, db.rows), was.rows, r)
        BY <1>1, <1>2, <2>1, <2>3, <2>4, FirstRunsUp
    <2> QED  BY <2>2, <2>5, <2>6
<1>4. CASE Downgrade
    <2> SUFFICES ASSUME was.rev = 1
                 PROVE  /\ FirstSources(db'.rows, was.rows, db'.rev)
                        /\ FirstRuns(db'.rows, was.rows, db'.rev)
        BY <1>4 DEF Downgrade, FromFirst
    <2> DEFINE r == db.rev
    <2>1. db' = Below(db) /\ r \in 2..27
        BY <1>1, <1>4 DEF Downgrade
    <2>2. db'.rev = r - 1 /\ db'.rows = Downgraded(r, db.rows)  BY <2>1, BelowIs
    <2>3. FirstSources(db.rows, was.rows, r) /\ FirstRuns(db.rows, was.rows, r)
        BY DEF FromFirst
    <2> HIDE DEF r
    <2>4. FirstSources(Downgraded(r, db.rows), was.rows, r - 1)
        BY <1>1, <2>1, <2>3, FirstSourcesDown
    <2>5. FirstRuns(Downgraded(r, db.rows), was.rows, r - 1)
        BY <1>1, <1>2, <2>1, <2>3, FirstRunsDown
    <2> QED  BY <2>2, <2>4, <2>5
<1>5. CASE UNCHANGED schemaVars
    BY <1>5 DEF schemaVars, FromFirst
<1> QED  BY <1>3, <1>4, <1>5 DEF SchemaNext

\* At every revision reached, up or down, the database satisfies the schema of
\* that revision; one of 0027 holds what the lowest revision left of it, and never
\* passes 0018 again; one of 0001 has its sites and runs.
THEOREM SchemaInvariant == SchemaSpec => []SchemaInv
<1>1. SchemaInit => SchemaInv
    BY PlacedInit, FromHeadInit, FromFirstInit DEF SchemaInv
<1>2. SchemaInv /\ [SchemaNext]_schemaVars => SchemaInv'
    BY PlacedNext, FromHeadNext, FromFirstNext DEF SchemaInv
<1> QED  BY <1>1, <1>2, PTL DEF SchemaSpec

LEMMA InvTells == SchemaInv => RoundTrips
<1> SUFFICES ASSUME SchemaInv, db.rev = Latest
             PROVE  /\ db.checks = ModelChecks /\ db.index = Index15
                    /\ was.rev = Latest => low >= 18 /\ db.rows = Remaining(was.rows)
                    /\ was.rev = 1 =>
                        /\ \A s \in DOMAIN was.rows.sources :
                              \E t \in DOMAIN db.rows.sources : SameSite(s, t, was.rows)
                        /\ \A t \in DOMAIN db.rows.sources :
                              /\ t \in DOMAIN was.rows.sources
                              /\ Told(db.rows.sources[t], was.rows.sources[t])
                        /\ DOMAIN db.rows.runs = DOMAIN was.rows.runs
                        /\ \A r \in DOMAIN db.rows.runs :
                              Carried(db.rows.runs[r], was.rows.runs[r], was.rows)
    BY DEF RoundTrips
<1>1. db.checks = ModelChecks
    <2>1. db.checks = ChecksAt(27, db.checks.runKind, db.checks.confidence)
          /\ db.checks.runKind \in RunKindsAt(27) /\ db.checks.confidence \in ConfidencesAt(27)
        BY DEF SchemaInv, Placed, IsSchema, Latest
    <2>2. RunKindsAt(27) = {RunKinds25} /\ ConfidencesAt(27) = {FALSE}
        BY DEF RunKindsAt, ConfidencesAt
    <2>3. db.checks.runKind = RunKinds25 /\ db.checks.confidence = FALSE
        BY <2>1, <2>2, Zenon
    <2> QED  BY <2>1, <2>3, HeadChecks DEF Latest
<1>2. db.index = Index15
    BY DEF SchemaInv, Placed, IsSchema, IndexedBy, Latest
<1>3. ASSUME was.rev = Latest PROVE low >= 18 /\ db.rows = Remaining(was.rows)
    <2>1. low >= 18 /\ db.rows = Held(was.rows, 27, low)
        BY <1>3 DEF SchemaInv, FromHead, Latest
    <2>2. IsDatabase(was.rows) /\ low \in 1..27  BY DEF SchemaInv, Placed, IsSchema, Latest
    <2> QED  BY <2>1, <2>2, RemainingIs
<1>4. ASSUME was.rev = 1
      PROVE  /\ FirstSources(db.rows, was.rows, 27) /\ FirstRuns(db.rows, was.rows, 27)
    BY <1>4 DEF SchemaInv, FromFirst, Latest
<1>5. ASSUME was.rev = 1
      PROVE  /\ \A s \in DOMAIN was.rows.sources :
                    \E t \in DOMAIN db.rows.sources : SameSite(s, t, was.rows)
             /\ \A t \in DOMAIN db.rows.sources :
                    /\ t \in DOMAIN was.rows.sources
                    /\ Told(db.rows.sources[t], was.rows.sources[t])
    BY <1>4, <1>5 DEF FirstSources, FirstSource
<1>6. ASSUME was.rev = 1
      PROVE  /\ DOMAIN db.rows.runs = DOMAIN was.rows.runs
             /\ \A r \in DOMAIN db.rows.runs :
                    Carried(db.rows.runs[r], was.rows.runs[r], was.rows)
    BY <1>4, <1>6 DEF FirstRuns, FirstRun, Carried
<1> QED  BY <1>1, <1>2, <1>3, <1>5, <1>6

\* Back at the head, after any sequence of revisions: the schema is the one
\* models.py declares, and the rows are those RoundTrips names, no fewer and no
\* others, for every database the program used and every legacy one.
THEOREM RowsSurviveRoundTrips == SchemaSpec => []RoundTrips
    BY SchemaInvariant, InvTells, PTL
-----------------------------------------------------------------------------
\* Why an upgrade is refused: conjunct by conjunct of Fits.

LEMMA NoneMerged ==
    ASSUME NEW r \in Nat, NEW rows, IsDatabase(rows),
           r = 7 => \A s, t \in DOMAIN rows.sources : SameSite(s, t, rows) => s = t
    PROVE  \A s \in DOMAIN rows.sources : Into(r, s, rows) = s
    BY SurvivorIs DEF Into

LEMMA SourcesChecked ==
    ASSUME NEW r \in 2..Latest, NEW rows, IsDatabase(rows),
           \A s \in DOMAIN rows.sources : /\ rows.sources[s].kind \in SourceKindsAt(r - 1)
                                          /\ rows.sources[s].status \in SourceStatesAt(r - 1)
                                          /\ r = 9 => rows.sources[s].kind \in Kinds9
    PROVE  \A s \in DOMAIN Upgraded(r, rows).sources :
              /\ Upgraded(r, rows).sources[s].kind \in SourceKindsAt(r)
              /\ Upgraded(r, rows).sources[s].status \in SourceStatesAt(r)
<1>1. r \in Nat  BY DEF Latest
<1> SUFFICES ASSUME NEW s \in DOMAIN Upgraded(r, rows).sources
             PROVE  /\ Upgraded(r, rows).sources[s].kind \in SourceKindsAt(r)
                    /\ Upgraded(r, rows).sources[s].status \in SourceStatesAt(r)
    OBVIOUS
<1> DEFINE row == rows.sources[s]
           at == At(r, row)
           new == Upgraded(r, rows).sources[s]
<1>2. s \in DOMAIN rows.sources /\ at \in SourceRow /\ new = NewSource(r, at)
    BY <1>1, UpgradedSources
<1>3. row \in SourceRow  BY <1>2, RowsOf
<1>4. at.kind = row.kind /\ at.status = row.status
    <2>1. CASE r = 7  BY <1>3, <2>1, HostedIs DEF At
    <2>2. CASE r # 7  BY <2>2 DEF At
    <2> QED  BY <2>1, <2>2
<1>5. /\ row.kind \in SourceKindsAt(r - 1) /\ row.status \in SourceStatesAt(r - 1)
      /\ r = 9 => row.kind \in Kinds9
    BY <1>2
<1> HIDE DEF new, at, row
<1>6. /\ new.kind = at.kind
      /\ new.status = IF r = 10 THEN IF HasTag(at) THEN at.notes[1] ELSE "active"
                      ELSE IF r = 14 /\ at.status = "paused" THEN "active" ELSE at.status
    <2>1. /\ NewSource(r, at).kind = at.kind
          /\ NewSource(r, at).status = IF r = 10 THEN IF HasTag(at) THEN at.notes[1] ELSE "active"
                                       ELSE IF r = 14 /\ at.status = "paused" THEN "active"
                                       ELSE at.status
        BY <1>1, <1>2, NewSourceIs
    <2> QED  BY <1>2, <2>1
<1>7. new.kind \in SourceKindsAt(r)
    <2>1. row.kind \in SourceKindsAt(r)
        BY <1>5 DEF SourceKindsAt, Kinds1, Kinds9, Kinds25, Latest
    <2> QED  BY <1>4, <1>6, <2>1
<1>8. new.status \in SourceStatesAt(r)
    <2>1. CASE r = 10
        <3>1. HasTag(at) => at.notes[1] \in States10  BY DEF HasTag, States10
        <3> QED  BY <1>6, <2>1, <3>1 DEF SourceStatesAt, States10
    <2>2. CASE r # 10
        BY <1>4, <1>5, <1>6, <2>2 DEF SourceStatesAt, States10, States14, Latest
    <2> QED  BY <2>1, <2>2
<1> QED  BY <1>7, <1>8 DEF new

LEMMA RunKindsAbove ==
    ASSUME NEW r \in 2..Latest, NEW k, NEW e
    PROVE  NewChecks(r, ChecksAt(r - 1, k, e)).runKind
             = IF r = 8 THEN RunKinds8 ELSE IF r \in {9, 12} THEN RunKinds9
               ELSE IF r = 25 THEN RunKinds25 ELSE k
<1> USE DEF Latest
<1> PICK checks : checks = ChecksAt(r - 1, k, e)  OBVIOUS
<1>1. checks.runKind = k  BY DEF ChecksAt
<1>2. CASE r = 8
    <2>1. NewChecks(r, checks) = [checks EXCEPT !.runKind = RunKinds8]  BY <1>2 DEF NewChecks
    <2> QED  BY <1>2, <2>1 DEF ChecksAt
<1>3. CASE r = 9
    <2>1. NewChecks(r, checks)
            = [checks EXCEPT !.sourceKind = Kinds9, !.runKind = RunKinds9]
        BY <1>3 DEF NewChecks
    <2>2. NewChecks(r, checks).runKind = RunKinds9
        BY <2>1 DEF ChecksAt
    <2> QED  BY <1>3, <2>2
<1>4. CASE r = 12
    <2>1. NewChecks(r, checks) = [checks EXCEPT !.runKind = RunKinds9]  BY <1>4 DEF NewChecks
    <2> QED  BY <1>4, <2>1 DEF ChecksAt
<1>5. CASE r = 25
    <2>1. NewChecks(r, checks)
            = [checks EXCEPT !.sourceKind = Kinds25, !.runKind = RunKinds25]
        BY <1>5 DEF NewChecks
    <2>2. NewChecks(r, checks).runKind = RunKinds25
        BY <2>1 DEF ChecksAt
    <2> QED  BY <1>5, <2>2
<1>6. CASE r \notin {8, 9, 12, 25}
    <2>1. NewChecks(r, checks).runKind = checks.runKind
        BY <1>6 DEF NewChecks, ChecksAt
    <2> QED  BY <1>1, <1>6, <2>1
<1> QED  BY <1>2, <1>3, <1>4, <1>5, <1>6

LEMMA RunsChecked ==
    ASSUME NEW r \in 2..Latest, NEW rows, IsDatabase(rows), NEW k \in RunKindsAt(r - 1), NEW e,
           \A x \in DOMAIN rows.runs : /\ rows.runs[x].kind \in k
                                       /\ rows.runs[x].status \in RunStatusesAt(r - 1)
                                       /\ rows.runs[x].source \in DOMAIN rows.sources
                                       /\ r = 9 => rows.runs[x].kind \in RunKinds9
    PROVE  \A x \in DOMAIN rows.runs :
              /\ Upgraded(r, rows).runs[x].kind \in NewChecks(r, ChecksAt(r - 1, k, e)).runKind
              /\ Upgraded(r, rows).runs[x].status \in RunStatusesAt(r)
<1>1. r \in Nat  BY DEF Latest
<1> SUFFICES ASSUME NEW x \in DOMAIN rows.runs
             PROVE  /\ Upgraded(r, rows).runs[x].kind \in NewChecks(r, ChecksAt(r - 1, k, e)).runKind
                    /\ Upgraded(r, rows).runs[x].status \in RunStatusesAt(r)
    OBVIOUS
<1> DEFINE row == rows.runs[x]
           new == Upgraded(r, rows).runs[x]
           kinds == NewChecks(r, ChecksAt(r - 1, k, e)).runKind
<1>2. row \in RunRow  BY RowsOf
<1>3. new.kind = NewRun(r, row).kind /\ new.status = NewRun(r, row).status
    BY <1>1, UpgradedRuns
<1>4. /\ row.kind \in k /\ row.status \in RunStatusesAt(r - 1)
      /\ r = 9 => row.kind \in RunKinds9
    OBVIOUS
<1>5. kinds = IF r = 8 THEN RunKinds8 ELSE IF r \in {9, 12} THEN RunKinds9
              ELSE IF r = 25 THEN RunKinds25 ELSE k
    BY RunKindsAbove
<1> HIDE DEF row, new, kinds
<1>6. /\ new.kind = IF r = 12 /\ row.kind = "pipeline" THEN "parse" ELSE row.kind
      /\ new.status = IF r = 17 /\ row.status \in {"paused", "cancelled"} THEN "stopped"
                      ELSE row.status
    BY <1>1, <1>2, <1>3, NewRunIs
<1>7. new.kind \in kinds
    <2>1. CASE r = 8
        <3>1. k = RunKinds1  BY <2>1 DEF RunKindsAt
        <3> QED  BY <1>4, <1>5, <1>6, <2>1, <3>1 DEF RunKinds8
    <2>2. CASE r = 9  BY <1>4, <1>5, <1>6, <2>2
    <2>3. CASE r = 12
        <3>1. k \in {RunKinds9, Pipelines}  BY <2>3 DEF RunKindsAt
        <3>2. row.kind \in {"sitemap", "seed", "parse", "pipeline"}
            BY <1>4, <3>1 DEF RunKinds9, Pipelines
        <3> QED  BY <1>5, <1>6, <2>3, <3>2 DEF RunKinds9
    <2>4. CASE r = 25
        <3>1. k = RunKinds9  BY <2>4 DEF RunKindsAt
        <3> QED  BY <1>4, <1>5, <1>6, <2>4, <3>1 DEF RunKinds25
    <2>5. CASE r \notin {8, 9, 12, 25}  BY <1>4, <1>5, <1>6, <2>5
    <2> QED  BY <2>1, <2>2, <2>3, <2>4, <2>5
<1>8. new.status \in RunStatusesAt(r)
    BY <1>4, <1>6 DEF RunStatusesAt, Statuses1, Statuses4, Statuses16, Statuses17, Latest
<1> QED  BY <1>7, <1>8 DEF new, kinds

\* Methods, decisions and the chunk of a claim only ever gain values; 0022 gives
\* every entity a status.
LEMMA GraphChecked ==
    ASSUME NEW r \in 2..Latest, NEW rows, IsDatabase(rows), r <= 20 => DOMAIN rows.candidates = {},
           \A m \in DOMAIN rows.mentions : rows.mentions[m].method \in MethodsAt(r - 1),
           \A c \in DOMAIN rows.candidates : rows.candidates[c].decision \in DecisionsAt(r - 1),
           \A c \in DOMAIN rows.claims : rows.claims[c].chunk \in ChunksAt(r - 1),
           \A e \in DOMAIN rows.entities : rows.entities[e].status \in EntitiesAt(r - 1)
    PROVE  LET up == Upgraded(r, rows) IN
           /\ \A m \in DOMAIN up.mentions : up.mentions[m].method \in MethodsAt(r)
           /\ \A c \in DOMAIN up.candidates : up.candidates[c].decision \in DecisionsAt(r)
           /\ \A c \in DOMAIN up.claims : up.claims[c].chunk \in ChunksAt(r)
           /\ \A e \in DOMAIN up.entities : up.entities[e].status \in EntitiesAt(r)
<1>1. r \in Nat  BY DEF Latest
<1>2. MethodsAt(r - 1) \subseteq MethodsAt(r)
    BY DEF MethodsAt, Methods1, Methods2, Methods22, Latest
<1>3. r > 20 => DecisionsAt(r - 1) \subseteq DecisionsAt(r)
    BY DEF DecisionsAt, Decisions20, Decisions22, Latest
<1>4. ChunksAt(r - 1) \subseteq ChunksAt(r)
    <2>1. {TRUE} \subseteq BOOLEAN  BY Zenon
    <2>2. CASE r = 26
        <3>1. ChunksAt(r - 1) = {TRUE} /\ ChunksAt(r) = BOOLEAN  BY <2>2 DEF ChunksAt
        <3> QED  BY <2>1, <3>1
    <2>3. CASE r # 26
        <3>1. ChunksAt(r - 1) = ChunksAt(r)  BY <2>3 DEF ChunksAt, Latest
        <3> QED  BY <3>1
    <2> QED  BY <2>2, <2>3
<1> DEFINE up == Upgraded(r, rows)
<1>5. /\ up.mentions = rows.mentions
      /\ DOMAIN up.claims = DOMAIN rows.claims
      /\ DOMAIN up.candidates = DOMAIN rows.candidates
      /\ DOMAIN up.entities = DOMAIN rows.entities
      /\ \A c \in DOMAIN rows.claims : up.claims[c].chunk = rows.claims[c].chunk
      /\ \A c \in DOMAIN rows.candidates : up.candidates[c].decision = rows.candidates[c].decision
      /\ \A e \in DOMAIN rows.entities :
            up.entities[e].status = IF r = 22 THEN "active" ELSE rows.entities[e].status
    <2>1. IsDatabase(rows) /\ r \in Nat  BY <1>1
    <2> QED  BY ONLY <2>1, UpgradedOthers DEF up
<1> HIDE DEF up
<1>6. \A m \in DOMAIN up.mentions : up.mentions[m].method \in MethodsAt(r)
    BY <1>2, <1>5
<1>7. \A c \in DOMAIN up.candidates : up.candidates[c].decision \in DecisionsAt(r)
    BY <1>1, <1>3, <1>5
<1>8. \A c \in DOMAIN up.claims : up.claims[c].chunk \in ChunksAt(r)
    BY <1>4, <1>5
<1>9. \A e \in DOMAIN up.entities : up.entities[e].status \in EntitiesAt(r)
    <2>1. CASE r = 22
        <3>1. "active" \in EntitiesAt(r)  BY <2>1 DEF EntitiesAt, Entities22
        <3> QED  BY <1>5, <2>1, <3>1
    <2>2. CASE r # 22
        <3>1. EntitiesAt(r - 1) = EntitiesAt(r)  BY <2>2 DEF EntitiesAt, Latest
        <3> QED  BY <1>5, <2>2, <3>1
    <2> QED  BY <2>1, <2>2
<1> QED  BY <1>6, <1>7, <1>8, <1>9 DEF up

LEMMA CheckedAbove ==
    ASSUME NEW d, IsSchema(d), d.rev < Latest,
           d.rev = 8 => /\ \A s \in DOMAIN d.rows.sources : d.rows.sources[s].kind \in Kinds9
                        /\ \A x \in DOMAIN d.rows.runs : d.rows.runs[x].kind \in RunKinds9
    PROVE  Checked(Above(d))
<1> DEFINE r == d.rev + 1
           k == d.checks.runKind
           e == d.checks.confidence
           up == Upgraded(r, d.rows)
<1>1. /\ r \in 2..Latest /\ r \in Nat /\ r - 1 = d.rev /\ (r = 9 <=> d.rev = 8)
      /\ (r <= 20 <=> d.rev < 20)
    BY DEF IsSchema, Latest
<1>2. /\ IsDatabase(d.rows) /\ k \in RunKindsAt(r - 1) /\ d.checks = ChecksAt(r - 1, k, e)
      /\ r <= 20 => DOMAIN d.rows.candidates = {}
    BY <1>1 DEF IsSchema
<1>3. Checked(d) /\ \A x \in DOMAIN d.rows.runs : d.rows.runs[x].source \in DOMAIN d.rows.sources
    BY DEF IsSchema, Fits, Referenced
<1>4. /\ d.checks.sourceKind = SourceKindsAt(r - 1)
      /\ d.checks.sourceStatus = SourceStatesAt(r - 1)
      /\ d.checks.runStatus = RunStatusesAt(r - 1) /\ d.checks.method = MethodsAt(r - 1)
      /\ d.checks.decision = DecisionsAt(r - 1) /\ d.checks.chunk = ChunksAt(r - 1)
      /\ d.checks.entity = EntitiesAt(r - 1)
    <2> HIDE DEF r, k, e
    <2> QED  BY <1>2 DEF ChecksAt
<1>5. Above(d).rows = up /\ Above(d).checks = NewChecks(r, ChecksAt(r - 1, k, e))
      /\ Above(d).rev = r
    <2>1. Above(d).checks = NewChecks(r, d.checks) /\ Above(d).rows = up /\ Above(d).rev = r
        BY AboveIs
    <2> HIDE DEF r, k, e, up
    <2> QED  BY <1>2, <2>1
<1>6. /\ Above(d).checks.sourceKind = SourceKindsAt(r)
      /\ Above(d).checks.sourceStatus = SourceStatesAt(r)
      /\ Above(d).checks.runStatus = RunStatusesAt(r) /\ Above(d).checks.method = MethodsAt(r)
      /\ Above(d).checks.decision = DecisionsAt(r) /\ Above(d).checks.chunk = ChunksAt(r)
      /\ Above(d).checks.entity = EntitiesAt(r)
    <2>1. Above(d).checks = ChecksAt(r, Above(d).checks.runKind, Above(d).checks.confidence)
        BY <1>5, SchemaAbove
    <2> HIDE DEF r, k, e, up
    <2> QED  BY <2>1 DEF ChecksAt
<1> HIDE DEF r
<1>7. \A s \in DOMAIN up.sources : /\ up.sources[s].kind \in SourceKindsAt(r)
                                   /\ up.sources[s].status \in SourceStatesAt(r)
    <2>1. \A s \in DOMAIN d.rows.sources : /\ d.rows.sources[s].kind \in SourceKindsAt(r - 1)
                                           /\ d.rows.sources[s].status \in SourceStatesAt(r - 1)
                                           /\ r = 9 => d.rows.sources[s].kind \in Kinds9
        BY <1>1, <1>3, <1>4 DEF Checked
    <2> QED  BY <1>1, <1>2, <2>1, SourcesChecked
<1>8. \A x \in DOMAIN d.rows.runs : /\ up.runs[x].kind \in Above(d).checks.runKind
                                    /\ up.runs[x].status \in RunStatusesAt(r)
    <2>1. \A x \in DOMAIN d.rows.runs : /\ d.rows.runs[x].kind \in k
                                        /\ d.rows.runs[x].status \in RunStatusesAt(r - 1)
                                        /\ d.rows.runs[x].source \in DOMAIN d.rows.sources
                                        /\ r = 9 => d.rows.runs[x].kind \in RunKinds9
        BY <1>1, <1>3, <1>4 DEF Checked
    <2> HIDE DEF k, e
    <2>2. \A x \in DOMAIN d.rows.runs :
             /\ up.runs[x].kind \in NewChecks(r, ChecksAt(r - 1, k, e)).runKind
             /\ up.runs[x].status \in RunStatusesAt(r)
        BY <1>1, <1>2, <2>1, RunsChecked
    <2> HIDE DEF up
    <2> QED  BY <1>5, <2>2
<1>9. DOMAIN up.runs = DOMAIN d.rows.runs
    BY <1>1, <1>2, <1>3, UpgradedRuns
<1>10. /\ \A m \in DOMAIN up.mentions : up.mentions[m].method \in MethodsAt(r)
       /\ \A c \in DOMAIN up.candidates : up.candidates[c].decision \in DecisionsAt(r)
       /\ \A c \in DOMAIN up.claims : up.claims[c].chunk \in ChunksAt(r)
       /\ \A x \in DOMAIN up.entities : up.entities[x].status \in EntitiesAt(r)
    <2>1. /\ \A m \in DOMAIN d.rows.mentions : d.rows.mentions[m].method \in MethodsAt(r - 1)
          /\ \A c \in DOMAIN d.rows.candidates :
                d.rows.candidates[c].decision \in DecisionsAt(r - 1)
          /\ \A c \in DOMAIN d.rows.claims : d.rows.claims[c].chunk \in ChunksAt(r - 1)
          /\ \A x \in DOMAIN d.rows.entities : d.rows.entities[x].status \in EntitiesAt(r - 1)
        BY <1>3, <1>4 DEF Checked
    <2> QED  BY <1>1, <1>2, <2>1, GraphChecked
<1> HIDE DEF up, k, e
<1> QED  BY <1>5, <1>6, <1>7, <1>8, <1>9, <1>10 DEF Checked

LEMMA ActiveBefore ==
    ASSUME NEW r \in Nat, NEW row \in RunRow, NewRun(r, row).status \in Active
    PROVE  row.status \in Active
    BY NewRunIs DEF Active

LEMMA OneActiveAbove ==
    ASSUME NEW d, IsSchema(d), d.rev < Latest,
           d.rev = 4 => \A a, b \in DOMAIN d.rows.runs :
                            /\ d.rows.runs[a].status \in Active /\ d.rows.runs[b].status \in Active
                            /\ d.rows.runs[a].source = d.rows.runs[b].source
                            => a = b,
           d.rev = 6 => \A s, t \in DOMAIN d.rows.sources : SameSite(s, t, d.rows) => s = t
    PROVE  OneActive(Above(d))
<1> DEFINE r == d.rev + 1
           up == Upgraded(r, d.rows)
<1>1. r \in 2..27 /\ r \in Nat /\ d.rev = r - 1  BY DEF IsSchema, Latest
<1>2. /\ IsDatabase(d.rows) /\ d.index = IndexedBy(r - 1) /\ OneActive(d)
      /\ \A x \in DOMAIN d.rows.runs : d.rows.runs[x].source \in DOMAIN d.rows.sources
    BY <1>1 DEF IsSchema, Fits, Referenced
<1>3. Above(d).index = IndexedBy(r) /\ Above(d).rows = up  BY AboveIs
<1> HIDE DEF r
<1>4. \A s \in DOMAIN d.rows.sources : Into(r, s, d.rows) = s
    BY <1>1, <1>2, NoneMerged
<1>5. /\ DOMAIN up.runs = DOMAIN d.rows.runs
      /\ \A x \in DOMAIN d.rows.runs :
            /\ up.runs[x].source = Into(r, d.rows.runs[x].source, d.rows)
            /\ up.runs[x].kind = NewRun(r, d.rows.runs[x]).kind
            /\ up.runs[x].status = NewRun(r, d.rows.runs[x]).status
    BY <1>1, <1>2, UpgradedRuns
<1> HIDE DEF up
<1>6. ASSUME NEW x \in DOMAIN d.rows.runs
      PROVE  /\ up.runs[x].source = d.rows.runs[x].source
             /\ r > 15 => up.runs[x].kind = d.rows.runs[x].kind
             /\ up.runs[x].status \in Active => d.rows.runs[x].status \in Active
    <2>1. d.rows.runs[x] \in RunRow  BY <1>2, RowsOf
    <2>2. up.runs[x].source = d.rows.runs[x].source  BY <1>2, <1>4, <1>5
    <2>3. r > 15 => up.runs[x].kind = d.rows.runs[x].kind  BY <1>1, <1>5, <2>1, NewRunIs
    <2>4. up.runs[x].status \in Active => d.rows.runs[x].status \in Active
        BY <1>1, <1>5, <2>1, ActiveBefore
    <2> QED  BY <2>2, <2>3, <2>4
<1>7. SUFFICES ASSUME NEW a \in DOMAIN up.runs, NEW b \in DOMAIN up.runs,
                      IndexedBy(r) # {}, {up.runs[a].status, up.runs[b].status} \subseteq Active,
                      "source" \in IndexedBy(r) => up.runs[a].source = up.runs[b].source,
                      "kind" \in IndexedBy(r) => up.runs[a].kind = up.runs[b].kind
               PROVE  a = b
    BY <1>3 DEF OneActive
<1>8. /\ a \in DOMAIN d.rows.runs /\ b \in DOMAIN d.rows.runs
      /\ d.rows.runs[a].status \in Active /\ d.rows.runs[b].status \in Active
    BY <1>5, <1>6, <1>7
<1>9. r >= 5 /\ "source" \in IndexedBy(r)
    BY <1>1, <1>7 DEF IndexedBy, Index5, Index15
<1>10. d.rows.runs[a].source = d.rows.runs[b].source  BY <1>6, <1>7, <1>8, <1>9
<1>11. CASE r = 5  BY <1>1, <1>8, <1>10, <1>11
<1>12. CASE r \in 6..15
    <2>1. d.index = {"source"}  BY <1>2, <1>12 DEF IndexedBy, Index5
    <2> QED  BY <1>2, <1>8, <1>10, <2>1 DEF OneActive
<1>13. CASE r > 15
    <2>1. d.index = Index15 /\ IndexedBy(r) = Index15  BY <1>1, <1>2, <1>13 DEF IndexedBy
    <2>2. d.rows.runs[a].kind = d.rows.runs[b].kind
        BY <1>6, <1>7, <1>8, <1>13, <2>1 DEF Index15
    <2>3. d.index # {}  BY <2>1 DEF Index15
    <2> QED  BY <1>2, <1>8, <1>10, <2>2, <2>3 DEF OneActive
<1> QED  BY <1>1, <1>9, <1>11, <1>12, <1>13

LEMMA IdentifiedAbove ==
    ASSUME NEW d, IsSchema(d), d.rev < Latest,
           d.rev = 6 => /\ \A s, t \in DOMAIN d.rows.sources : SameSite(s, t, d.rows) => s = t
                        /\ ~\E s, t \in DOMAIN d.rows.sources :
                              /\ d.rows.sources[s].kind = "domain"
                              /\ d.rows.sources[t].kind # "domain"
                              /\ d.rows.sources[t].page = "site"
                              /\ d.rows.sources[s].host = d.rows.sources[t].host
    PROVE  Identified(Above(d))
<1> DEFINE r == d.rev + 1
           up == Upgraded(r, d.rows)
<1>1. r \in 2..27 /\ r \in Nat /\ d.rev = r - 1  BY DEF IsSchema, Latest
<1>2. IsDatabase(d.rows) /\ Identified(d)  BY DEF IsSchema, Fits
<1>3. Above(d).rows = up  BY AboveIs
<1> HIDE DEF r
<1>4. /\ DOMAIN up.sources \subseteq DOMAIN d.rows.sources
      /\ \A s \in DOMAIN up.sources :
            /\ At(r, d.rows.sources[s]) \in SourceRow
            /\ up.sources[s] = NewSource(r, At(r, d.rows.sources[s]))
    BY <1>1, <1>2, UpgradedSources
<1> HIDE DEF up
<1>5. ASSUME NEW s \in DOMAIN up.sources
      PROVE  /\ s \in DOMAIN d.rows.sources
             /\ up.sources[s].host = d.rows.sources[s].host
             /\ up.sources[s].page = IF r = 7 /\ d.rows.sources[s].kind = "domain" THEN "site"
                                     ELSE d.rows.sources[s].page
    <2> DEFINE row == d.rows.sources[s]
               at == At(r, row)
    <2>1. row \in SourceRow /\ at \in SourceRow  BY <1>2, <1>4, RowsOf
    <2>2. /\ up.sources[s].host = at.host /\ up.sources[s].page = at.page
        BY <1>1, <1>4, <2>1, NewSourceIs
    <2>3. /\ at.host = row.host
          /\ at.page = IF r = 7 /\ row.kind = "domain" THEN "site" ELSE row.page
        BY <2>1, HostedIs DEF At
    <2> HIDE DEF at
    <2> QED  BY <1>4, <2>2, <2>3
<1>6. ASSUME NEW s \in DOMAIN up.sources, NEW t \in DOMAIN up.sources,
             up.sources[s].host = up.sources[t].host, up.sources[s].page = up.sources[t].page
      PROVE  s = t
    <2>1. s \in DOMAIN d.rows.sources /\ t \in DOMAIN d.rows.sources
          /\ d.rows.sources[s].host = d.rows.sources[t].host
        BY <1>5, <1>6
    <2>2. CASE r # 7
        <3>1. d.rows.sources[s].page = d.rows.sources[t].page  BY <1>5, <1>6, <2>2
        <3> QED  BY <1>2, <2>1, <3>1 DEF Identified
    <2>3. CASE r = 7
        <3>1. CASE d.rows.sources[s].kind = "domain" /\ d.rows.sources[t].kind = "domain"
            BY <1>1, <2>1, <2>3, <3>1 DEF SameSite
        <3>2. CASE d.rows.sources[s].kind = "domain" /\ d.rows.sources[t].kind # "domain"
            <4>1. d.rows.sources[t].page = "site"  BY <1>5, <1>6, <2>3, <3>2
            <4> QED  BY <1>1, <2>1, <2>3, <3>2, <4>1
        <3>3. CASE d.rows.sources[s].kind # "domain" /\ d.rows.sources[t].kind = "domain"
            <4>1. d.rows.sources[s].page = "site"  BY <1>5, <1>6, <2>3, <3>3
            <4> QED  BY <1>1, <2>1, <2>3, <3>3, <4>1
        <3>4. CASE d.rows.sources[s].kind # "domain" /\ d.rows.sources[t].kind # "domain"
            <4>1. d.rows.sources[s].page = d.rows.sources[t].page  BY <1>5, <1>6, <3>4
            <4> QED  BY <1>2, <2>1, <4>1 DEF Identified
        <3> QED  BY <3>1, <3>2, <3>3, <3>4
    <2> QED  BY <2>2, <2>3
<1> QED  BY <1>3, <1>6 DEF Identified

LEMMA ReferencedAbove ==
    ASSUME NEW d, IsSchema(d), d.rev < Latest,
           d.rev = 6 => \A s, t \in DOMAIN d.rows.sources : SameSite(s, t, d.rows) => s = t
    PROVE  Referenced(Above(d))
<1> DEFINE r == d.rev + 1
           up == Upgraded(r, d.rows)
<1>1. r \in 2..27 /\ r \in Nat /\ d.rev = r - 1  BY DEF IsSchema, Latest
<1>2. IsDatabase(d.rows) /\ Referenced(d)  BY DEF IsSchema, Fits
<1>3. Above(d).rows = up  BY AboveIs
<1> HIDE DEF r
<1>4. \A s \in DOMAIN d.rows.sources : Into(r, s, d.rows) = s
    BY <1>1, <1>2, NoneMerged
<1>5. DOMAIN up.sources = DOMAIN d.rows.sources
    <2>1. DOMAIN up.sources = {Into(r, t, d.rows) : t \in DOMAIN d.rows.sources}
        BY <1>1, <1>2, UpgradedSources
    <2> HIDE DEF up
    <2> QED  BY <1>4, <2>1
<1>6. /\ DOMAIN up.runs = DOMAIN d.rows.runs
      /\ \A x \in DOMAIN d.rows.runs : up.runs[x].source = Into(r, d.rows.runs[x].source, d.rows)
    BY <1>1, <1>2, UpgradedRuns DEF Referenced
<1>7. /\ DOMAIN up.fetches = DOMAIN d.rows.fetches /\ DOMAIN up.claims = DOMAIN d.rows.claims
      /\ up.evidence = d.rows.evidence /\ up.mentions = d.rows.mentions
      /\ DOMAIN up.candidates = DOMAIN d.rows.candidates
      /\ \A f \in DOMAIN d.rows.fetches : up.fetches[f].run = d.rows.fetches[f].run
      /\ \A c \in DOMAIN d.rows.candidates :
            up.candidates[c].mention = d.rows.candidates[c].mention
    BY <1>1, <1>2, UpgradedOthers
<1> HIDE DEF up
<1> QED  BY <1>2, <1>3, <1>4, <1>5, <1>6, <1>7 DEF Referenced

LEMMA UpgradeFits == SchemaInv => StuckOnlyFor
<1> SUFFICES ASSUME SchemaInv, db.rev < Latest, ~(db.rev = 4 /\ Overlap),
                    ~(db.rev = 6 /\ (SiteShared \/ HostTaken)), ~(db.rev = 8 /\ GivenUp)
             PROVE  Fits(Above(db))
    BY DEF StuckOnlyFor, Stuck
<1>1. IsSchema(db)  BY DEF SchemaInv, Placed
<1>2. db.rev = 6 => \A s, t \in DOMAIN db.rows.sources : SameSite(s, t, db.rows) => s = t
    BY DEF SiteShared
<1>3. db.rev = 6 => ~\E s, t \in DOMAIN db.rows.sources :
                        /\ db.rows.sources[s].kind = "domain" /\ db.rows.sources[t].kind # "domain"
                        /\ db.rows.sources[t].page = "site"
                        /\ db.rows.sources[s].host = db.rows.sources[t].host
    BY DEF HostTaken
<1>4. db.rev = 4 => \A a, b \in DOMAIN db.rows.runs :
                        /\ db.rows.runs[a].status \in Active /\ db.rows.runs[b].status \in Active
                        /\ db.rows.runs[a].source = db.rows.runs[b].source
                        => a = b
    BY DEF Overlap
<1>5. db.rev = 8 => /\ \A s \in DOMAIN db.rows.sources : db.rows.sources[s].kind \in Kinds9
                    /\ \A x \in DOMAIN db.rows.runs : db.rows.runs[x].kind \in RunKinds9
    BY DEF GivenUp
<1>6. Checked(Above(db))  BY <1>1, <1>5, CheckedAbove
<1>7. OneActive(Above(db))  BY <1>1, <1>2, <1>4, OneActiveAbove
<1>8. Identified(Above(db))  BY <1>1, <1>2, <1>3, IdentifiedAbove
<1>9. Referenced(Above(db))  BY <1>1, <1>2, ReferencedAbove
<1> QED  BY <1>6, <1>7, <1>8, <1>9 DEF Fits

\* `alembic upgrade head` is refused, at any revision any sequence of steps leads
\* to, only for two active runs of one source (0005), for pages of one site or a
\* bare host that is taken (0007), and for kinds that were given up (0009).
THEOREM UpgradesAreRefusedOnlyFor == SchemaSpec => []StuckOnlyFor
    BY SchemaInvariant, UpgradeFits, PTL
=============================================================================
