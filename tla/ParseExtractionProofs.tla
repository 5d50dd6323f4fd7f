------------------------ MODULE ParseExtractionProofs ------------------------
(***************************************************************************)
(* No document is forgotten, and no extractor run is left running: the     *)
(* extraction half of ParsePipeline, for any number of runs, contents,     *)
(* deletions, kills and retries.                                           *)
(*                                                                         *)
(* A document is a row of its own: once deleted it does not come back      *)
(* (Old), so what a job holds is never mistaken for a document made later. *)
(* ExtractionFacts(p) follows the documents that the job of p holds, from  *)
(* the moment it makes or finds them to the moment it has extracted them.  *)
(* PaidInv counts what was extracted against the runs there are.           *)
(***************************************************************************)
EXTENDS ParsePipelineProofs

\* A document that is there, or was there and is deleted.
Old(d) == d \in docs \/ d[2] < deletions[d[1]]

DocFacts ==
    /\ \A d \in docs : d[2] = deletions[d[1]]
    /\ batches \in [Documents -> Nat]

Extracting == {"ask", "asked"}
Finishing == {"finish", "complete"}

ExtractionFacts(p) ==
    /\ job[p].extractor = "running" => job[p].pc \in {"ask", "asked", "fail", "dead"}
    /\ job[p].pc \in {"idle", "launch"} => job[p].got = {}
    /\ job[p].pc \in {"idle"} \cup (Steps \ {"link"}) => job[p].doc = None
    /\ \A d \in job[p].got : Old(d)
    /\ job[p].pc = "link" => Old(job[p].doc)
    /\ job[p].pc \in Extracting =>
         \A d \in job[p].got \cap docs : d \in job[p].queue \/ batches[d] > 0
    /\ job[p].pc \in Finishing => \A d \in job[p].got \cap docs : batches[d] > 0

ExtractInv ==
    /\ ParseInv
    /\ DocFacts
    /\ \A p \in Runs : ExtractionFacts(p)
    /\ UnextractedIsExplained

-----------------------------------------------------------------------------
(* What outlasts the steps of others.                                      *)

\* New documents are new, extracted ones stay extracted.
Keeps ==
    /\ \A d \in Documents : Old(d) => Old(d)'
    /\ \A d \in docs' : d \in docs \/ ~Old(d)
    /\ \A d \in Documents : batches[d] > 0 => batches'[d] > 0
    /\ abandoned \subseteq abandoned'

LEMMA ExtractionFactsLast ==
    ASSUME ParseInv, Keeps, NEW p \in Runs, ExtractionFacts(p), UNCHANGED job[p]
    PROVE  ExtractionFacts(p)'
  <1>1. job[p].got \subseteq Documents
    BY DEF ParseInv, Types, JobType
  <1>2. job[p].pc = "link" => job[p].doc \in Documents
    BY DEF ParseInv, JobFacts
  <1>3. \A d \in job[p].got : Old(d) /\ Old(d)'
    BY <1>1 DEF Keeps, ExtractionFacts
  <1>4. job[p].pc = "link" => Old(job[p].doc)'
    <2> SUFFICES ASSUME job[p].pc = "link" PROVE Old(job[p].doc)'
      OBVIOUS
    <2>1. PICK d \in Documents : d = job[p].doc
      BY <1>2
    <2>2. Old(d)'
      BY <2>1 DEF Keeps, ExtractionFacts
    <2> QED  BY <2>1, <2>2 DEF Old
  <1>5. job[p].got \cap docs' \subseteq job[p].got \cap docs
    BY <1>3 DEF Keeps
  <1>6. \A d \in job[p].got : batches[d] > 0 => batches'[d] > 0
    BY <1>1 DEF Keeps
  <1> QED  BY <1>3, <1>4, <1>5, <1>6 DEF ExtractionFacts

\* The documents in the hands of a job stay there, are abandoned or extracted.
HandsPass(p) ==
    \A d \in docs' :
      d \in Hands(p) /\ job[p].pc \in Steps =>
        \/ job'[p].pc \in Steps /\ d \in Hands(p)'
        \/ d \in abandoned'
        \/ batches'[d] > 0

LEMMA OneExtracts ==
    ASSUME ExtractInv, ParseInv', DocFacts', Keeps, NEW p \in Runs,
           \A q \in Runs \ {p} : UNCHANGED job[q],
           ExtractionFacts(p)', HandsPass(p),
           \A d \in docs' : d \in docs \/ (job'[p].pc \in Steps /\ d \in Hands(p)')
    PROVE  ExtractInv'
  <1>1. ASSUME NEW q \in Runs, q # p PROVE ExtractionFacts(q)'
    BY <1>1, ExtractionFactsLast DEF ExtractInv
  <1>2. ASSUME NEW d \in docs', batches'[d] = 0
        PROVE  \/ d \in abandoned'
               \/ \E q \in Runs : job'[q].pc \in Steps /\ d \in Hands(q)'
    <2>1. CASE d \in docs
      <3>1. d \in Documents
        BY <2>1 DEF ExtractInv, ParseInv, StoreFacts
      <3>2. batches[d] = 0
        BY <1>2, <3>1 DEF Keeps, ExtractInv, DocFacts
      <3>3. d \in abandoned \/ \E q \in Runs : job[q].pc \in Steps /\ d \in Hands(q)
        BY <2>1, <3>2 DEF ExtractInv, UnextractedIsExplained
      <3>4. ASSUME NEW q \in Runs, job[q].pc \in Steps, d \in Hands(q), q # p
            PROVE  job'[q].pc \in Steps /\ d \in Hands(q)'
        BY <3>4 DEF Hands
      <3>5. ASSUME job[p].pc \in Steps, d \in Hands(p)
            PROVE  d \in abandoned' \/ (job'[p].pc \in Steps /\ d \in Hands(p)')
        BY <1>2, <3>5 DEF HandsPass
      <3> QED  BY <3>3, <3>4, <3>5 DEF Keeps
    <2> QED  BY <2>1
  <1>3. UnextractedIsExplained'
    BY <1>2 DEF UnextractedIsExplained
  <1> QED  BY <1>1, <1>3 DEF ExtractInv

LEMMA NothingNew ==
    ASSUME DocFacts, UNCHANGED <<docs, deletions, batches>>, abandoned \subseteq abandoned'
    PROVE  DocFacts' /\ Keeps
  BY DEF DocFacts, Keeps, Old

\* A step that changes a job and no document.
LEMMA JobMoves ==
    ASSUME ExtractInv, ParseInv', UNCHANGED <<docs, deletions, batches>>,
           abandoned \subseteq abandoned', NEW p \in Runs,
           \A q \in Runs \ {p} : UNCHANGED job[q],
           ExtractionFacts(p)', HandsPass(p)
    PROVE  ExtractInv'
  <1>1. DocFacts' /\ Keeps
    BY NothingNew DEF ExtractInv
  <1> QED  BY <1>1, OneExtracts

\* The documents of a job are kept where they are.
LEMMA GotKept ==
    ASSUME ExtractInv, NEW p \in Runs, UNCHANGED <<docs, deletions, batches>>,
           job'[p].got = job[p].got, job'[p].doc = job[p].doc,
           job'[p].pc \notin {"idle", "launch", "link"},
           job[p].pc \in Steps \ {"link"} \/ job'[p].pc \notin Steps,
           job'[p].extractor = "running" => job'[p].pc \in {"ask", "asked", "fail", "dead"},
           job'[p].pc \in Extracting =>
             \A d \in job[p].got \cap docs : d \in job'[p].queue \/ batches[d] > 0,
           job'[p].pc \in Finishing => \A d \in job[p].got \cap docs : batches[d] > 0
    PROVE  ExtractionFacts(p)'
  <1>1. ExtractionFacts(p)
    BY DEF ExtractInv
  <1>2. \A d \in job'[p].got : Old(d)'
    BY <1>1 DEF ExtractionFacts, Old
  <1>3. job'[p].pc \in Steps \ {"link"} => job'[p].doc = None
    BY <1>1 DEF ExtractionFacts
  <1> QED  BY <1>2, <1>3 DEF ExtractionFacts

LEMMA HandsKept ==
    ASSUME NEW p \in Runs, job'[p].got = job[p].got, job'[p].doc = job[p].doc,
           job'[p].pc \in Steps
    PROVE  HandsPass(p)
  BY DEF HandsPass, Hands

\* None is not a document.
LEMMA NoneIsNoDocument == None \notin Documents
  <1>1. 0..MaxDeletes \subseteq Nat
    OBVIOUS
  <1> QED  BY <1>1, NoneAssumption DEF Documents

-----------------------------------------------------------------------------
(* The steps of a job, in the order of a run.                              *)

\* The scope is taken, whatever it is, and nothing else.
LEMMA FreezeTakes ==
    ASSUME ParseInv, NEW p \in Runs, Freeze(p)
    PROVE  /\ UNCHANGED <<store, row, abandoned>>
           /\ job[p].pc = "freeze" /\ job'[p].pc \in {"close", "pick", "load"}
           /\ job'[p].got = job[p].got /\ job'[p].doc = job[p].doc
           /\ job'[p].queue = job[p].queue /\ job'[p].extractor = job[p].extractor
           /\ \A q \in Runs \ {p} : UNCHANGED job[q]
  <1> DEFINE scope == Scope(p)
             next == IF ~Active(p) THEN "close" ELSE IF scope = {} THEN "pick" ELSE "load"
  <1>1. UNCHANGED store /\ UNCHANGED row /\ UNCHANGED abandoned /\ job[p].pc = "freeze"
    BY Zenon DEF Freeze
  <1>2. job' = [job EXCEPT ![p].pc = next, ![p].frozen = scope, ![p].todo = scope,
                           ![p].snapshot = None]
    BY Zenon DEF Freeze
  <1>3. next \in {"close", "pick", "load"}
    OBVIOUS
  <1> HIDE DEF scope, next
  <1>4. job \in [Runs -> JobType]
    BY DEF ParseInv, Types
  <1> QED  BY <1>1, <1>2, <1>3, <1>4 DEF JobType

\* Steps between two points at which nothing is held or nothing happens to it.
LEMMA PassingSteps ==
    ASSUME ExtractInv, ParseInv', NEW p \in Runs,
           Launch(p) \/ Freeze(p) \/ Tick(p) \/ ModelFails(p) \/ Finish(p) \/ Extracted(p)
    PROVE  ExtractInv'
  <1>1. /\ UNCHANGED <<docs, deletions, batches, abandoned>>
        /\ \A q \in Runs \ {p} : UNCHANGED job[q]
        /\ job'[p].got = job[p].got /\ job'[p].doc = job[p].doc
        /\ job'[p].queue = job[p].queue
    <2>1. UNCHANGED <<docs, deletions, batches, abandoned>>
      BY DEF store, Launch, Freeze, Tick, ModelFails, Finish, Extracted
    <2>2. job \in [Runs -> JobType]
      BY DEF ExtractInv, ParseInv, Types
    <2>3. CASE Launch(p) \/ ModelFails(p) \/ Finish(p)
      BY <2>1, <2>2, <2>3 DEF JobType, Goto, Launch, ModelFails, Finish
    <2>4. CASE Freeze(p)
      BY <2>1, <2>4, FreezeTakes DEF ExtractInv
    <2>5. CASE Tick(p)
      BY <2>1, <2>2, <2>5 DEF JobType, Tick
    <2>6. CASE Extracted(p)
      BY <2>1, <2>2, <2>6 DEF JobType, Extracted
    <2> QED  BY <2>3, <2>4, <2>5, <2>6
  <1>2. ExtractionFacts(p)
    BY DEF ExtractInv
  <1>3. CASE Launch(p) \/ Freeze(p) \/ Tick(p) \/ ModelFails(p) \/ Finish(p)
    <2>1. /\ job'[p].extractor = job[p].extractor
          /\ job[p].pc \in {"launch", "freeze", "tick", "create", "ask", "finish"}
          /\ job[p].pc = "launch" => job'[p].pc \in {"freeze", "dead"}
          /\ job[p].pc \in {"freeze", "tick"} => job'[p].pc \in {"close", "pick", "load"}
          /\ job[p].pc \in {"create", "ask"} => job'[p].pc = "fail"
          /\ job[p].pc = "finish" => job'[p].pc \in {"complete", "close"}
      <3>1. job \in [Runs -> JobType]
        BY DEF ExtractInv, ParseInv, Types
      <3>2. CASE Launch(p)
        BY <3>1, <3>2 DEF JobType, Goto, Launch
      <3>3. CASE ModelFails(p)
        BY <3>1, <3>3 DEF JobType, Goto, ModelFails
      <3>4. CASE Finish(p)
        BY <3>1, <3>4 DEF JobType, Goto, Finish
      <3>5. CASE Freeze(p)
        BY <3>5, FreezeTakes DEF ExtractInv
      <3>6. CASE Tick(p)
        BY <3>1, <3>6 DEF JobType, Tick
      <3> QED  BY <1>3, <3>2, <3>3, <3>4, <3>5, <3>6
    <2>2. job[p].extractor = "running" => job'[p].pc = "fail"
      BY <1>2, <2>1 DEF ExtractionFacts
    <2>3. job'[p].pc \in Finishing => \A d \in job[p].got \cap docs : batches[d] > 0
      BY <1>2, <2>1 DEF ExtractionFacts, Finishing
    <2>4. ExtractionFacts(p)'
      BY <1>1, <2>1, <2>2, <2>3, GotKept DEF Steps, Pages, Extracting
    <2>5. CASE job'[p].pc \in Steps
      BY <1>1, <2>4, <2>5, HandsKept, JobMoves
    <2>6. CASE job[p].pc = "launch"
      <3>1. Hands(p) = {}
        BY <1>2, <2>6, NoneIsNoDocument DEF ExtractionFacts, Hands, Steps, Pages
      <3> QED  BY <1>1, <2>4, <3>1, JobMoves DEF HandsPass
    <2> QED  BY <2>1, <2>5, <2>6 DEF Steps, Pages
  <1>4. CASE Extracted(p)
    <2>1. /\ job[p].pc = "asked" /\ job'[p].pc \in {"close", "finish", "ask"}
          /\ job'[p].pc = "finish" => job[p].queue = {}
          /\ job'[p].pc # "ask" => job'[p].extractor \in {"failed", "complete"}
      BY <1>4 DEF ExtractInv, ParseInv, Types, JobType, Extracted
    <2>2. \A d \in job[p].got \cap docs : d \in job[p].queue \/ batches[d] > 0
      BY <1>2, <2>1 DEF ExtractionFacts, Extracting
    <2>3. ExtractionFacts(p)'
      BY <1>1, <2>1, <2>2, GotKept DEF Steps, Pages, Extracting, Finishing
    <2> QED  BY <1>1, <2>1, <2>3, HandsKept, JobMoves DEF Steps, Pages
  <1> QED  BY <1>3, <1>4

\* Whatever ends the execution before the last step abandons what it holds.
LEMMA AbandoningSteps ==
    ASSUME ExtractInv, ParseInv', NEW p \in Runs, Close(p) \/ Fail(p) \/ Kill(p)
    PROVE  ExtractInv'
  <1>1. /\ UNCHANGED <<docs, deletions, batches>>
        /\ abandoned' = abandoned \cup Hands(p)
        /\ \A q \in Runs \ {p} : UNCHANGED job[q]
        /\ job'[p].got = job[p].got /\ job'[p].doc = job[p].doc
        /\ job'[p].pc \in {"closed", "dead"}
    BY DEF ExtractInv, ParseInv, Types, JobType, Goto, Abandon, store, Close, Fail, Kill
  <1>2. job'[p].extractor = "running" => job'[p].pc = "dead"
    <2>1. CASE Close(p)
      <3>1. job[p].pc = "close" /\ job'[p].extractor = job[p].extractor
        BY <2>1 DEF ExtractInv, ParseInv, Types, JobType, Goto, Close
      <3> QED  BY <3>1 DEF ExtractInv, ExtractionFacts
    <2>2. CASE Fail(p)
      BY <2>2 DEF ExtractInv, ParseInv, Types, JobType, Fail
    <2>3. CASE Kill(p)
      BY <2>3 DEF ExtractInv, ParseInv, Types, JobType, Goto, Kill
    <2> QED  BY <2>1, <2>2, <2>3
  <1>3. ExtractionFacts(p)'
    BY <1>1, <1>2, GotKept DEF Steps, Pages, Extracting, Finishing
  <1> QED  BY <1>1, <1>3, JobMoves DEF HandsPass

\* The last step: everything held has been extracted.
LEMMA CompleteExtracts ==
    ASSUME ExtractInv, ParseInv', NEW p \in Runs, Complete(p)
    PROVE  ExtractInv'
  <1>1. /\ UNCHANGED <<docs, deletions, batches, abandoned>>
        /\ \A q \in Runs \ {p} : UNCHANGED job[q]
        /\ job'[p].got = job[p].got /\ job'[p].doc = job[p].doc
        /\ job'[p].extractor = job[p].extractor
        /\ job[p].pc = "complete" /\ job'[p].pc = "done"
    BY DEF ExtractInv, ParseInv, Types, JobType, Goto, store, Complete
  <1>2. ExtractionFacts(p)
    BY DEF ExtractInv
  <1>3. ExtractionFacts(p)'
    <2>1. job'[p].extractor # "running"
      BY <1>1, <1>2 DEF ExtractionFacts
    <2> QED  BY <1>1, <2>1, GotKept DEF Steps, Pages, Extracting, Finishing
  <1>4. Hands(p) \subseteq job[p].got
    BY <1>1, <1>2, NoneIsNoDocument DEF ExtractionFacts, Hands, Steps, Pages
  <1>5. HandsPass(p)
    BY <1>1, <1>2, <1>4 DEF HandsPass, ExtractionFacts, Finishing
  <1> QED  BY <1>1, <1>3, <1>5, JobMoves

\* A document that is found is held.
LEMMA LoadExtracts ==
    ASSUME ExtractInv, ParseInv', NEW p \in Runs, Load(p)
    PROVE  ExtractInv'
  <1> DEFINE found == DocumentsOf(Content(Current(p)))
  <1>1. ExtractionFacts(p) /\ job[p].pc = "load" /\ job[p].doc = None
    BY DEF ExtractInv, ExtractionFacts, Load, Steps, Pages
  <1>2. /\ UNCHANGED <<docs, deletions, batches, abandoned>>
        /\ \A q \in Runs \ {p} : UNCHANGED job[q]
        /\ job'[p].got = job[p].got /\ job'[p].extractor = job[p].extractor
        /\ \/ job'[p].pc = "create" /\ job'[p].doc = job[p].doc
           \/ job'[p].pc = "link" /\ job'[p].doc \in docs
    <2> DEFINE one == CHOOSE d \in found : TRUE
    <2>1. found # {} => one \in docs
      BY DEF DocumentsOf
    <2>2. /\ UNCHANGED <<docs, deletions, batches, abandoned>>
          /\ \/ found = {} /\ job' = [job EXCEPT ![p].pc = "create"]
             \/ found # {} /\ job' = [job EXCEPT ![p].pc = "link", ![p].doc = one]
      BY DEF Goto, store, Load
    <2>3. job \in [Runs -> JobType]
      BY DEF ExtractInv, ParseInv, Types
    <2> HIDE DEF one, found
    <2>4. CASE found = {}
      BY <2>2, <2>3, <2>4 DEF JobType
    <2>5. CASE found # {}
      BY <2>1, <2>2, <2>3, <2>5 DEF JobType
    <2> QED  BY <2>4, <2>5
  <1>3. job'[p].extractor # "running"
    BY <1>1, <1>2 DEF ExtractionFacts
  <1>4. ExtractionFacts(p)'
    BY <1>1, <1>2, <1>3 DEF ExtractionFacts, Old, Steps, Pages, Extracting, Finishing
  <1>5. Hands(p) \subseteq Hands(p)'
    BY <1>1, <1>2, NoneIsNoDocument DEF Hands
  <1>6. HandsPass(p)
    BY <1>2, <1>5 DEF HandsPass, Steps, Pages
  <1> QED  BY <1>2, <1>4, <1>6, JobMoves

\* A document that is made is a new one, and it is held.
LEMMA CreateExtracts ==
    ASSUME ExtractInv, ParseInv', NEW p \in Runs, Create(p)
    PROVE  ExtractInv'
  <1> DEFINE c == Content(Current(p))
             new == <<c, deletions[c]>>
  <1>1. /\ ExtractionFacts(p) /\ DocFacts /\ StoreFacts
        /\ job[p].pc = "create" /\ job[p].doc = None
    BY DEF ExtractInv, ParseInv, ExtractionFacts, Create, Steps, Pages
  <1>2. c \in Contents /\ deletions[c] \in 0..MaxDeletes /\ MaxDeletes \in Nat
    BY <1>1, CurrentIsFetch, BoundAssumption DEF ExtractInv, Looping, StoreFacts
  <1>3. new \in Documents /\ new[1] = c /\ new[2] = deletions[c]
    BY <1>2 DEF Documents
  <1>4. /\ UNCHANGED <<deletions, batches, abandoned>>
        /\ \A q \in Runs \ {p} : UNCHANGED job[q]
        /\ job'[p].got = job[p].got /\ job'[p].extractor = job[p].extractor
        /\ job'[p].pc = "link" /\ job'[p].doc \in docs'
        /\ \/ docs' = docs
           \/ DocumentsOf(c) = {} /\ docs' = docs \cup {new} /\ job'[p].doc = new
    <2> DEFINE found == DocumentsOf(c)
               one == CHOOSE d \in found : TRUE
    <2>1. found # {} => one \in docs
      BY DEF DocumentsOf
    <2>2. /\ UNCHANGED <<deletions, batches, abandoned>>
          /\ \/ /\ found = {} /\ docs' = docs \cup {new}
                /\ job' = [job EXCEPT ![p].pc = "link", ![p].doc = new]
             \/ /\ found # {} /\ docs' = docs
                /\ job' = [job EXCEPT ![p].pc = "link", ![p].doc = one]
      BY DEF Create
    <2>3. job \in [Runs -> JobType]
      BY DEF ExtractInv, ParseInv, Types
    <2> HIDE DEF one, new, c
    <2>4. CASE found = {}
      BY <2>2, <2>3, <2>4 DEF JobType
    <2>5. CASE found # {}
      BY <2>1, <2>2, <2>3, <2>5 DEF JobType
    <2> QED  BY <2>4, <2>5
  <1> HIDE DEF new, c
  <1>5. DocumentsOf(c) = {} => ~Old(new)
    BY <1>2, <1>3 DEF DocumentsOf, Old
  <1>6. DocFacts'
    BY <1>1, <1>3, <1>4 DEF DocFacts
  <1>7. Keeps
    BY <1>4, <1>5 DEF Keeps, Old
  <1>8. ExtractionFacts(p)'
    <2>1. job'[p].extractor # "running"
      BY <1>1, <1>4 DEF ExtractionFacts
    <2>2. \A d \in job'[p].got : Old(d)'
      BY <1>1, <1>4 DEF ExtractionFacts, Old
    <2> QED  BY <1>4, <2>1, <2>2 DEF ExtractionFacts, Old, Steps, Pages, Extracting, Finishing
  <1>9. HandsPass(p)
    BY <1>1, <1>4, NoneIsNoDocument DEF HandsPass, Hands, Steps, Pages
  <1>10. \A d \in docs' : d \in docs \/ (job'[p].pc \in Steps /\ d \in Hands(p)')
    BY <1>3, <1>4 DEF Hands, Steps, Pages
  <1> QED  BY <1>4, <1>6, <1>7, <1>8, <1>9, <1>10, OneExtracts

\* A document that is linked goes from the one in hand to those normalized.
LEMMA LinkExtracts ==
    ASSUME ExtractInv, ParseInv', NEW p \in Runs, Link(p)
    PROVE  ExtractInv'
  <1>1. ExtractionFacts(p) /\ job[p].pc = "link" /\ Old(job[p].doc)
    BY DEF ExtractInv, ExtractionFacts, Link
  <1>2. /\ UNCHANGED <<docs, deletions, batches, abandoned>>
        /\ \A q \in Runs \ {p} : UNCHANGED job[q]
        /\ job'[p].got = job[p].got \cup {job[p].doc}
        /\ job'[p].extractor = job[p].extractor
        /\ job'[p].pc = "tick" /\ job'[p].doc = None
    BY DEF ExtractInv, ParseInv, Types, JobType, Link
  <1>3. job'[p].extractor # "running"
    BY <1>1, <1>2 DEF ExtractionFacts
  <1>4. \A d \in job'[p].got : Old(d)'
    BY <1>1, <1>2 DEF ExtractionFacts, Old
  <1>5. ExtractionFacts(p)'
    BY <1>2, <1>3, <1>4 DEF ExtractionFacts, Extracting, Finishing
  <1>6. HandsPass(p)
    BY <1>2 DEF HandsPass, Hands, Steps, Pages
  <1> QED  BY <1>2, <1>5, <1>6, JobMoves

\* What is not taken to be extracted has claims.
LEMMA PickExtracts ==
    ASSUME ExtractInv, ParseInv', NEW p \in Runs, Pick(p)
    PROVE  ExtractInv'
  <1> DEFINE queue == ToExtract(p)
  <1>1. \A d \in job[p].got \cap docs : d \in queue \/ batches[d] > 0
    BY DEF ToExtract, HasClaims
  <1>2. /\ UNCHANGED <<docs, deletions, batches, abandoned>> /\ job[p].pc = "pick"
        /\ \/ job' = [job EXCEPT ![p].pc = "close"]
           \/ queue = {} /\ job' = [job EXCEPT ![p].pc = "finish"]
           \/ job' = [job EXCEPT ![p].pc = "ask", ![p].queue = queue, ![p].extractor = "running"]
    BY DEF Pick, Goto, store
  <1> HIDE DEF queue
  <1>3. job \in [Runs -> JobType] /\ ExtractionFacts(p)
    BY DEF ExtractInv, ParseInv, Types
  <1>4. /\ \A q \in Runs \ {p} : UNCHANGED job[q]
        /\ job'[p].got = job[p].got /\ job'[p].doc = job[p].doc
        /\ \/ job'[p].pc = "close" /\ job'[p].extractor = job[p].extractor
           \/ queue = {} /\ job'[p].pc = "finish" /\ job'[p].extractor = job[p].extractor
           \/ job'[p].pc = "ask" /\ job'[p].queue = queue
    BY <1>2, <1>3 DEF JobType
  <1>5. job[p].extractor # "running"
    BY <1>2, <1>3 DEF ExtractionFacts
  <1>6. ExtractionFacts(p)'
    BY <1>1, <1>2, <1>4, <1>5, GotKept DEF Steps, Pages, Extracting, Finishing
  <1> QED  BY <1>2, <1>4, <1>6, HandsKept, JobMoves DEF Steps, Pages

\* The claims of a document are stored, or the run fails with it in hand.
LEMMA ExtractExtracts ==
    ASSUME ExtractInv, ParseInv', NEW p \in Runs, NEW e \in Documents, Extract(p, e)
    PROVE  ExtractInv'
  <1>1. /\ UNCHANGED <<docs, deletions, abandoned>> /\ job[p].pc = "ask"
        /\ \/ /\ batches' = [batches EXCEPT ![e] = @ + 1]
              /\ job' = [job EXCEPT ![p].pc = "asked", ![p].queue = @ \ {e}]
           \/ batches' = batches /\ job' = [job EXCEPT ![p].pc = "fail"]
    BY DEF Extract, Goto
  <1>2. /\ job \in [Runs -> JobType] /\ DocFacts /\ ExtractionFacts(p)
        /\ job[p].got \subseteq Documents
    BY DEF ExtractInv, ParseInv, Types, JobType
  <1>3. /\ batches' \in [Documents -> Nat]
        /\ \A d \in Documents : batches[d] > 0 => batches'[d] > 0
        /\ job'[p].pc = "asked" => batches'[e] > 0
    BY <1>1, <1>2 DEF DocFacts, JobType
  <1>4. DocFacts' /\ Keeps
    BY <1>1, <1>2, <1>3 DEF DocFacts, Keeps, Old
  <1>5. /\ \A q \in Runs \ {p} : UNCHANGED job[q]
        /\ job'[p].got = job[p].got /\ job'[p].doc = job[p].doc
        /\ \/ job'[p].pc = "asked" /\ job'[p].queue = job[p].queue \ {e}
           \/ job'[p].pc = "fail"
    BY <1>1, <1>2 DEF JobType
  <1>6. job'[p].pc = "asked" =>
          \A d \in job'[p].got \cap docs' : d \in job'[p].queue \/ batches'[d] > 0
    BY <1>1, <1>2, <1>3, <1>5 DEF ExtractionFacts, Extracting
  <1>7. \A d \in job'[p].got : Old(d)'
    BY <1>1, <1>2, <1>5 DEF ExtractionFacts, Old
  <1>8. job'[p].doc = None
    BY <1>1, <1>2, <1>5 DEF ExtractionFacts, Steps
  <1>9. ExtractionFacts(p)'
    BY <1>5, <1>6, <1>7, <1>8 DEF ExtractionFacts, Extracting, Finishing
  <1>10. HandsPass(p)
    BY <1>5, HandsKept DEF Steps
  <1> QED  BY <1>1, <1>4, <1>5, <1>9, <1>10, OneExtracts

\* An execution that starts, again or for the first time, holds nothing.
LEMMA StartsExtract ==
    ASSUME ExtractInv, ParseInv', NEW p \in Runs,
           Retry(p) \/ \E s \in Sources, scope \in Scopes : Request(p, s, scope)
    PROVE  ExtractInv'
  <1>1. job \in [Runs -> JobType] /\ ExtractionFacts(p)
    BY DEF ExtractInv, ParseInv, Types
  <1>2. /\ UNCHANGED <<docs, deletions, batches, abandoned>>
        /\ job[p].pc \in {"dead", "idle"}
        /\ \A q \in Runs \ {p} : UNCHANGED job[q]
        /\ job'[p].pc = "launch" /\ job'[p].got = {} /\ job'[p].doc = None
        /\ job'[p].extractor # "running"
    <2>1. CASE Retry(p)
      BY <1>1, <2>1, NoneAssumption DEF Retry, Fresh, store
    <2>2. CASE \E s \in Sources, scope \in Scopes : Request(p, s, scope)
      <3>1. UNCHANGED store /\ row[p].status = None /\ job' = [job EXCEPT ![p].pc = "launch"]
            /\ UNCHANGED abandoned
        BY <2>2 DEF Request
      <3>2. job[p].pc = "idle"
        BY <3>1 DEF ExtractInv, ParseInv, JobFacts
      <3> QED  BY <1>1, <3>1, <3>2 DEF ExtractionFacts, JobType, store
    <2> QED  BY <2>1, <2>2
  <1>3. ExtractionFacts(p)'
    BY <1>2 DEF ExtractionFacts, Extracting, Finishing
  <1>4. HandsPass(p)
    BY <1>2 DEF HandsPass, Steps, Pages
  <1> QED  BY <1>2, <1>3, <1>4, JobMoves

\* A deleted document is old; so is what the jobs hold of it.
LEMMA DeleteExtracts ==
    ASSUME ExtractInv, ParseInv', NEW e \in docs, DeleteDocument(e)
    PROVE  ExtractInv'
  <1>1. /\ docs' = docs \ {e} /\ deletions' = [deletions EXCEPT ![e[1]] = @ + 1]
        /\ UNCHANGED <<batches, job, abandoned>>
    BY DEF DeleteDocument
  <1>2. StoreFacts /\ DocFacts /\ MaxDeletes \in Nat
    BY BoundAssumption DEF ExtractInv, ParseInv
  <1>3. /\ deletions \in [Contents -> Nat] /\ e[1] \in Contents /\ docs \subseteq Documents
        /\ \A d \in Documents : d[1] \in Contents /\ d[2] \in Nat
    BY <1>2 DEF StoreFacts, Documents
  <1>4. \A d \in docs' : d[1] # e[1]
    BY <1>1, <1>2 DEF StoreFacts
  <1>5. DocFacts'
    BY <1>1, <1>2, <1>3, <1>4 DEF DocFacts
  <1>6. \A d \in Documents : Old(d) => Old(d)'
    <2> SUFFICES ASSUME NEW d \in Documents, Old(d) PROVE Old(d)'
      OBVIOUS
    <2>1. deletions'[d[1]] >= deletions[d[1]] /\ deletions'[e[1]] = deletions[e[1]] + 1
      BY <1>1, <1>3
    <2>2. e[2] = deletions[e[1]]
      BY <1>2 DEF DocFacts
    <2>3. CASE d[2] < deletions[d[1]]
      <3>1. deletions[d[1]] \in Nat /\ deletions'[d[1]] \in Nat /\ d[2] \in Nat
        BY <1>1, <1>3
      <3> QED  BY <2>1, <2>3, <3>1 DEF Old
    <2>4. CASE d = e
      BY <1>3, <2>1, <2>2, <2>4 DEF Old
    <2>5. CASE d \in docs /\ d # e
      BY <1>1, <2>5 DEF Old
    <2> QED  BY <2>3, <2>4, <2>5 DEF Old
  <1>7. Keeps
    BY <1>1, <1>6 DEF Keeps
  <1>8. ASSUME NEW p \in Runs PROVE ExtractionFacts(p)'
    BY <1>1, <1>7, ExtractionFactsLast DEF ExtractInv
  <1>9. UnextractedIsExplained'
    BY <1>1 DEF ExtractInv, UnextractedIsExplained, Hands
  <1> QED  BY <1>5, <1>8, <1>9 DEF ExtractInv

\* Crawls and the status of a run do not touch what a job holds.
LEMMA OthersExtract ==
    ASSUME ExtractInv, ParseInv', UNCHANGED <<docs, deletions, batches, job, abandoned>>
    PROVE  ExtractInv'
  <1>1. DocFacts' /\ Keeps
    BY NothingNew DEF ExtractInv
  <1>2. ASSUME NEW p \in Runs PROVE ExtractionFacts(p)'
    BY <1>1, ExtractionFactsLast DEF ExtractInv
  <1>3. UnextractedIsExplained'
    BY DEF ExtractInv, UnextractedIsExplained, Hands
  <1> QED  BY <1>1, <1>2, <1>3 DEF ExtractInv

-----------------------------------------------------------------------------
(* Every step, and the theorems.                                           *)

LEMMA ExtractStep == ASSUME ExtractInv, Snapshots, [Next]_vars PROVE ExtractInv'
  <1>1. ParseInv'
    BY ParseStep DEF ExtractInv
  <1>2. ASSUME NEW p \in Runs, Step(p) PROVE ExtractInv'
    BY <1>1, <1>2, PassingSteps, AbandoningSteps, CompleteExtracts, LoadExtracts,
       CreateExtracts, LinkExtracts, PickExtracts, ExtractExtracts DEF Step
  <1>3. ASSUME NEW p \in Runs, Kill(p) \/ Retry(p) PROVE ExtractInv'
    BY <1>1, <1>3, AbandoningSteps, StartsExtract
  <1>4. ASSUME NEW p \in Runs, NEW s \in Sources, NEW scope \in Scopes, Request(p, s, scope)
        PROVE  ExtractInv'
    BY <1>1, <1>4, StartsExtract
  <1>5. ASSUME NEW d \in docs, DeleteDocument(d) PROVE ExtractInv'
    BY <1>1, <1>5, DeleteExtracts
  <1>6. ASSUME \/ \E u \in Urls, c \in Contents : ReadPage(u, c)
               \/ \E r \in reading : StorePage(r)
               \/ \E p \in Runs : Pause(p) \/ Sweep(p) \/ RecordExecution(p)
               \/ UNCHANGED vars
        PROVE  ExtractInv'
    <2>1. UNCHANGED <<docs, deletions, batches, job, abandoned>>
      BY <1>6 DEF ReadPage, StorePage, Pause, Sweep, RecordExecution, vars, store
    <2> QED  BY <1>1, <2>1, OthersExtract
  <1> QED  BY <1>2, <1>3, <1>4, <1>5, <1>6 DEF Next

LEMMA ExtractAtFirst == Init => ExtractInv
  <1> SUFFICES ASSUME Init PROVE ExtractInv
    OBVIOUS
  <1>1. ParseInv
    BY ParseAtFirst
  <1>2. DocFacts /\ UnextractedIsExplained
    BY DEF Init, DocFacts, UnextractedIsExplained
  <1>3. ASSUME NEW p \in Runs PROVE ExtractionFacts(p)
    <2>1. job[p] = [Fresh(0) EXCEPT !.pc = "idle"]
      BY DEF Init
    <2>2. job[p].pc = "idle" /\ job[p].got = {} /\ job[p].doc = None /\ job[p].extractor = None
      BY <2>1 DEF Fresh
    <2> QED  BY <2>2, NoneAssumption DEF ExtractionFacts, Extracting, Finishing
  <1> QED  BY <1>1, <1>2, <1>3 DEF ExtractInv

\* A document nobody extracted is in the hands of a running job, or was in
\* those of one that was stopped, failed or was killed
\* (extraction/runner.py, extract_pending; parse/orchestrator.py).
THEOREM NoneForgotten == Spec => []UnextractedIsExplained
  <1> QED  BY ExtractAtFirst, ExtractStep, ParseAlways, PTL DEF Spec, ExtractInv

\* Only a killed execution leaves its extractor run running
\* (extraction/runner.py, the two except clauses).
THEOREM ExtractorRunsSettle == Spec => []ExtractorRunSettles
  <1>1. ExtractInv => ExtractorRunSettles
    BY DEF ExtractInv, ExtractionFacts, ExtractorRunSettles
  <1> QED  BY <1>1, ExtractAtFirst, ExtractStep, ParseAlways, PTL DEF Spec

-----------------------------------------------------------------------------
(* What a document with claims cost: one extraction for each run that was  *)
(* requested and met it before any had stored its claims.                  *)

Started == {p \in Runs : row[p].status # None}
Ahead(d) == {p \in Runs : job[p].pc \in Extracting /\ d \in job[p].queue}

PaidFor(d) == batches[d] + Cardinality(Ahead(d)) <= Cardinality(Started)

\* The extractions stored and those that are still to come, each of its own
\* run, are no more than the runs.
PaidInv ==
    /\ ExtractInv
    /\ IsFiniteSet(Started)
    /\ \A d \in Documents : d[1] \notin Barren => PaidFor(d)

LEMMA AheadAreStarted ==
    ASSUME ParseInv, IsFiniteSet(Started), NEW d
    PROVE  /\ Ahead(d) \subseteq Started /\ IsFiniteSet(Ahead(d))
           /\ Cardinality(Ahead(d)) \in Nat /\ Cardinality(Started) \in Nat
           /\ Cardinality(Ahead(d)) <= Cardinality(Started)
  <1>1. Ahead(d) \subseteq Started
    BY DEF ParseInv, JobFacts, Ahead, Started, Extracting
  <1> QED  BY <1>1, FS_Subset, FS_CardinalityType

\* A run that stops short of extracting a document costs nothing.
LEMMA FewerAhead ==
    ASSUME PaidInv, ExtractInv', UNCHANGED batches, Started' = Started,
           NEW d \in Documents, d[1] \notin Barren,
           Ahead(d)' \subseteq Ahead(d) \/ batches[d] = 0
    PROVE  PaidFor(d)'
  <1>1. batches[d] \in Nat /\ PaidFor(d) /\ IsFiniteSet(Started)'
    BY DEF PaidInv, ExtractInv, DocFacts
  <1>2. /\ IsFiniteSet(Ahead(d)) /\ Cardinality(Ahead(d)) \in Nat
        /\ Cardinality(Started) \in Nat
    BY AheadAreStarted DEF PaidInv, ExtractInv
  <1>3. Ahead(d)' \subseteq Started' /\ IsFiniteSet(Started')
    BY <1>1, AheadAreStarted DEF ExtractInv, PaidInv, ParseInv, JobFacts, Ahead, Started, Extracting
  <1>4. CASE Ahead(d)' \subseteq Ahead(d)
    <2>1. Cardinality(Ahead(d)') \in Nat /\ Cardinality(Ahead(d)') <= Cardinality(Ahead(d))
      BY <1>2, <1>4, FS_Subset, FS_CardinalityType
    <2> QED  BY <1>1, <1>2, <2>1 DEF PaidFor
  <1>5. CASE batches[d] = 0
    <2>1. /\ Cardinality(Ahead(d)') \in Nat
          /\ Cardinality(Ahead(d)') <= Cardinality(Started')
      BY <1>3, FS_Subset, FS_CardinalityType
    <2> QED  BY <1>5, <2>1 DEF PaidFor
  <1> QED  BY <1>4, <1>5

\* Steps that leave the claims, and that start no run.
LEMMA NothingPaid ==
    ASSUME PaidInv, ExtractInv', UNCHANGED batches, Started' = Started,
           \A d \in Documents : d[1] \notin Barren =>
             Ahead(d)' \subseteq Ahead(d) \/ batches[d] = 0
    PROVE  PaidInv'
  <1>1. IsFiniteSet(Started)'
    BY DEF PaidInv
  <1>2. ASSUME NEW d \in Documents, d[1] \notin Barren PROVE PaidFor(d)'
    BY <1>2, FewerAhead
  <1> QED  BY <1>1, <1>2 DEF PaidInv

\* The claims of a document are stored by a run that was to extract it.
LEMMA ExtractPays ==
    ASSUME PaidInv, ExtractInv', NEW p \in Runs, NEW e \in Documents, Extract(p, e)
    PROVE  PaidInv'
  <1>1. /\ UNCHANGED row /\ job[p].pc = "ask" /\ e \in job[p].queue
        /\ \/ /\ batches' = [batches EXCEPT ![e] = @ + 1]
              /\ job' = [job EXCEPT ![p].pc = "asked", ![p].queue = @ \ {e}]
           \/ batches' = batches /\ job' = [job EXCEPT ![p].pc = "fail"]
    BY DEF Extract, Goto
  <1>2. job \in [Runs -> JobType] /\ batches \in [Documents -> Nat]
    BY DEF PaidInv, ExtractInv, DocFacts, ParseInv, Types
  <1>3. UNCHANGED Started
    BY <1>1 DEF Started
  <1>4. CASE /\ batches' = [batches EXCEPT ![e] = @ + 1]
             /\ job' = [job EXCEPT ![p].pc = "asked", ![p].queue = @ \ {e}]
    <2>1. /\ \A q \in Runs \ {p} : UNCHANGED job[q]
          /\ job'[p].pc = "asked" /\ job'[p].queue = job[p].queue \ {e}
      BY <1>2, <1>4 DEF JobType
    <2>2. Ahead(e)' = Ahead(e) \ {p} /\ p \in Ahead(e)
      BY <1>1, <2>1 DEF Ahead, Extracting
    <2>3. \A d \in Documents \ {e} : Ahead(d)' \subseteq Ahead(d) /\ batches'[d] = batches[d]
      BY <1>1, <1>2, <1>4, <2>1 DEF Ahead, Extracting
    <2>4. ASSUME NEW d \in Documents, d[1] \notin Barren PROVE PaidFor(d)'
      <3>1. PaidFor(d) /\ batches[d] \in Nat
        BY <1>2, <2>4 DEF PaidInv
      <3>2. /\ IsFiniteSet(Ahead(d)) /\ Cardinality(Ahead(d)) \in Nat
            /\ Cardinality(Started) \in Nat
        BY AheadAreStarted DEF PaidInv, ExtractInv
      <3>3. CASE d = e
        <4>1. Cardinality(Ahead(d)') = Cardinality(Ahead(d)) - 1
          BY <2>2, <3>2, <3>3, FS_RemoveElement
        <4>2. batches'[d] = batches[d] + 1
          BY <1>2, <1>4, <3>3
        <4> QED  BY <1>3, <3>1, <3>2, <4>1, <4>2 DEF PaidFor
      <3>4. CASE d # e
        <4>1. Cardinality(Ahead(d)') \in Nat /\ Cardinality(Ahead(d)') <= Cardinality(Ahead(d))
          BY <2>3, <3>2, <3>4, FS_Subset, FS_CardinalityType
        <4> QED  BY <1>3, <2>3, <3>1, <3>2, <3>4, <4>1 DEF PaidFor
      <3> QED  BY <3>3, <3>4
    <2> QED  BY <1>3, <2>4 DEF PaidInv
  <1>5. CASE batches' = batches /\ job' = [job EXCEPT ![p].pc = "fail"]
    <2>1. \A d \in Documents : Ahead(d)' \subseteq Ahead(d)
      BY <1>2, <1>5 DEF Ahead, Extracting, JobType
    <2> QED  BY <1>3, <1>5, <2>1, NothingPaid
  <1> QED  BY <1>1, <1>4, <1>5

\* A run that is requested may extract everything once.
LEMMA RequestPays ==
    ASSUME PaidInv, ExtractInv', NEW p \in Runs, NEW s \in Sources, NEW scope \in Scopes,
           Request(p, s, scope)
    PROVE  PaidInv'
  <1> DEFINE asked == [status |-> "active", source |-> s, scope |-> scope, snapshot |-> None,
                       first |-> None, erased |-> FALSE]
  <1>1. /\ row[p].status = None /\ UNCHANGED batches
        /\ job' = [job EXCEPT ![p].pc = "launch"]
        /\ row' = [q \in Runs |->
             CASE q = p -> asked
               [] row[q].source = s /\ row[q].status = "stopped"
                    -> [row[q] EXCEPT !.status = "superseded"]
               [] OTHER -> row[q]]
    BY DEF Request, store
  <1>2. job \in [Runs -> JobType] /\ row \in [Runs -> RowType] /\ batches \in [Documents -> Nat]
    BY DEF PaidInv, ExtractInv, DocFacts, ParseInv, Types
  <1>3. Started' = Started \cup {p} /\ p \notin Started
    <2>1. row'[p].status = "active"
      <3>1. row[p].status # "stopped"
        BY <1>1, NoneAssumption
      <3> QED  BY <1>1, <3>1
    <2>2. \A q \in Runs \ {p} : row'[q].status # None <=> row[q].status # None
      BY <1>1, <1>2, NoneAssumption DEF RowType
    <2> QED  BY <1>1, <2>1, <2>2, NoneAssumption DEF Started
  <1>4. /\ IsFiniteSet(Started') /\ Cardinality(Started') = Cardinality(Started) + 1
    BY <1>3, FS_AddElement DEF PaidInv
  <1>5. \A d \in Documents : Ahead(d)' \subseteq Ahead(d)
    BY <1>1, <1>2 DEF Ahead, Extracting, JobType
  <1>6. ASSUME NEW d \in Documents, d[1] \notin Barren PROVE PaidFor(d)'
    <2>1. PaidFor(d) /\ batches[d] \in Nat
      BY <1>2, <1>6 DEF PaidInv
    <2>2. /\ IsFiniteSet(Ahead(d)) /\ Cardinality(Ahead(d)) \in Nat
          /\ Cardinality(Started) \in Nat
      BY AheadAreStarted DEF PaidInv, ExtractInv
    <2>3. Cardinality(Ahead(d)') \in Nat /\ Cardinality(Ahead(d)') <= Cardinality(Ahead(d))
      BY <1>5, <2>2, FS_Subset, FS_CardinalityType
    <2> QED  BY <1>1, <1>4, <2>1, <2>2, <2>3 DEF PaidFor
  <1> QED  BY <1>4, <1>6 DEF PaidInv

Unpaid(p) ==
    \/ Launch(p) \/ Freeze(p) \/ Load(p) \/ Create(p) \/ Link(p) \/ Tick(p) \/ Pick(p)
    \/ Extracted(p) \/ ModelFails(p) \/ Finish(p) \/ Complete(p) \/ Close(p) \/ Fail(p)
    \/ Kill(p) \/ Retry(p)

\* Only the documents without claims are taken to be extracted.
LEMMA StepPays ==
    ASSUME PaidInv, ExtractInv', NEW p \in Runs, Unpaid(p) PROVE PaidInv'
  <1>1. job \in [Runs -> JobType] /\ row \in [Runs -> RowType] /\ batches \in [Documents -> Nat]
    BY DEF PaidInv, ExtractInv, DocFacts, ParseInv, Types
  <1>2. UNCHANGED batches
    <2>1. CASE Launch(p) \/ Load(p) \/ Pick(p) \/ Extracted(p) \/ Tick(p)
      BY <2>1 DEF Launch, Load, Pick, Extracted, Tick, store
    <2>4. CASE Freeze(p)
      BY <2>4, FreezeTakes DEF PaidInv, ExtractInv, store
    <2>2. CASE Create(p) \/ Link(p)
      BY <2>2 DEF Create, Link
    <2>3. CASE \/ ModelFails(p) \/ Finish(p) \/ Complete(p) \/ Close(p) \/ Fail(p)
               \/ Kill(p) \/ Retry(p)
      BY <2>3 DEF ModelFails, Finish, Complete, Close, Fail, Kill, Retry, store
    <2> QED  BY <2>1, <2>2, <2>3, <2>4 DEF Unpaid
  <1>3. Started' = Started
    <2>1. \A q \in Runs : row'[q].status # None <=> row[q].status # None
      <3>1. ParseInv
        BY DEF PaidInv, ExtractInv
      <3>2. CASE UNCHANGED row
        BY <3>2
      <3>3. CASE Launch(p)
        <4>1. row[p].status # None
          BY <3>1, <3>3 DEF ParseInv, JobFacts, Launch
        <4> QED  BY <1>1, <3>3, <4>1, NoneAssumption DEF Launch, RowType
      <3>4. CASE Complete(p) \/ Close(p) \/ Fail(p)
        <4>1. row[p].status # None
          BY <3>1, <3>4 DEF ParseInv, JobFacts, Complete, Close, Fail
        <4> QED  BY <1>1, <3>4, <4>1, NoneAssumption DEF Complete, Close, Fail, RowType
      <3>5. CASE Load(p) \/ Tick(p) \/ Pick(p) \/ Extracted(p)
        BY <3>5 DEF Load, Tick, Pick, Extracted
      <3>7. CASE Freeze(p)
        BY <3>1, <3>7, FreezeTakes
      <3>6. CASE Create(p) \/ Link(p) \/ ModelFails(p) \/ Finish(p) \/ Kill(p) \/ Retry(p)
        BY <3>6 DEF Create, Link, ModelFails, Finish, Kill, Retry
      <3> QED  BY <3>2, <3>3, <3>4, <3>5, <3>6, <3>7 DEF Unpaid
    <2> QED  BY <2>1 DEF Started
  <1>4. CASE Pick(p)
    <2>1. \A q \in Runs \ {p} : UNCHANGED job[q]
      BY <1>1, <1>4 DEF Pick, Goto
    <2>2. job'[p].pc \in Extracting => job'[p].queue = ToExtract(p)
      BY <1>1, <1>4 DEF Pick, Goto, Extracting, JobType
    <2>3. \A d \in ToExtract(p) : d[1] \in Barren \/ ~(batches[d] > 0)
      BY DEF ToExtract, HasClaims
    <2>4. ASSUME NEW d \in Documents, d[1] \notin Barren
          PROVE  Ahead(d)' \subseteq Ahead(d) \/ batches[d] = 0
      <3>1. CASE d \in ToExtract(p)
        BY <1>1, <2>3, <2>4, <3>1
      <3>2. CASE d \notin ToExtract(p)
        BY <2>1, <2>2, <3>2 DEF Ahead
      <3> QED  BY <3>1, <3>2
    <2> QED  BY <1>2, <1>3, <2>4, NothingPaid
  <1>5. CASE ~Pick(p)
    <2>1. /\ \A q \in Runs \ {p} : UNCHANGED job[q]
          /\ job'[p].pc \in Extracting => job[p].pc \in Extracting /\ job'[p].queue = job[p].queue
      <3>1. CASE Launch(p) \/ Finish(p) \/ ModelFails(p) \/ Complete(p) \/ Close(p) \/ Kill(p)
        BY <1>1, <3>1 DEF JobType, Goto, Launch, Finish, ModelFails, Complete, Close, Kill,
                          Extracting
      <3>2. CASE Freeze(p)
        BY <3>2, FreezeTakes DEF PaidInv, ExtractInv, Extracting
      <3>6. CASE Tick(p)
        BY <1>1, <3>6 DEF JobType, Tick, Extracting
      <3>3. CASE Load(p) \/ Create(p) \/ Link(p)
        BY <1>1, <3>3 DEF JobType, Goto, Load, Create, Link, Extracting
      <3>4. CASE Extracted(p) \/ Fail(p)
        BY <1>1, <3>4 DEF JobType, Extracted, Fail, Extracting
      <3>5. CASE Retry(p)
        BY <1>1, <3>5 DEF JobType, Retry, Fresh, Extracting
      <3> QED  BY <1>5, <3>1, <3>2, <3>3, <3>4, <3>5, <3>6 DEF Unpaid
    <2>2. \A d \in Documents : Ahead(d)' \subseteq Ahead(d)
      BY <2>1 DEF Ahead
    <2> QED  BY <1>2, <1>3, <2>2, NothingPaid
  <1> QED  BY <1>4, <1>5

LEMMA PaidStep == ASSUME PaidInv, Snapshots, [Next]_vars PROVE PaidInv'
  <1>1. ExtractInv'
    BY ExtractStep DEF PaidInv
  <1>2. ASSUME NEW p \in Runs, Step(p) \/ Kill(p) \/ Retry(p) PROVE PaidInv'
    BY <1>1, <1>2, StepPays, ExtractPays DEF Step, Unpaid
  <1>3. ASSUME NEW p \in Runs, NEW s \in Sources, NEW scope \in Scopes, Request(p, s, scope)
        PROVE  PaidInv'
    BY <1>1, <1>3, RequestPays
  <1>4. ASSUME \/ \E u \in Urls, c \in Contents : ReadPage(u, c)
               \/ \E r \in reading : StorePage(r)
               \/ \E d \in docs : DeleteDocument(d)
               \/ UNCHANGED vars
        PROVE  PaidInv'
    <2>1. UNCHANGED <<batches, job, row>>
      BY <1>4 DEF ReadPage, StorePage, DeleteDocument, vars, store
    <2>2. Started' = Started /\ \A d : Ahead(d)' = Ahead(d)
      BY <2>1 DEF Started, Ahead
    <2> QED  BY <1>1, <2>1, <2>2, NothingPaid
  <1>5. ASSUME NEW p \in Runs, Pause(p) \/ Sweep(p) PROVE PaidInv'
    <2>1. /\ UNCHANGED <<batches, job>> /\ row[p].status = "active"
          /\ \E x \in {"stopped", "failed"} : row' = [row EXCEPT ![p].status = x]
      BY <1>5 DEF Pause, Sweep, Active, store
    <2>2. row \in [Runs -> RowType]
      BY DEF PaidInv, ExtractInv, ParseInv, Types
    <2>3. \A q \in Runs : row'[q].status # None <=> row[q].status # None
      BY <2>1, <2>2, NoneAssumption DEF RowType
    <2>4. Started' = Started /\ \A d : Ahead(d)' = Ahead(d)
      BY <2>1, <2>3 DEF Started, Ahead
    <2> QED  BY <1>1, <2>1, <2>4, NothingPaid
  <1>6. ASSUME NEW p \in Runs, RecordExecution(p) PROVE PaidInv'
    <2>1. /\ UNCHANGED <<batches, job>>
          /\ row' = [row EXCEPT ![p].snapshot = None, ![p].erased = TRUE]
      BY <1>6 DEF RecordExecution, store
    <2>2. \A q \in Runs : row'[q].status = row[q].status
      BY <2>1 DEF PaidInv, ExtractInv, ParseInv, Types, RowType
    <2>3. Started' = Started /\ \A d : Ahead(d)' = Ahead(d)
      BY <2>1, <2>2 DEF Started, Ahead
    <2> QED  BY <1>1, <2>1, <2>3, NothingPaid
  <1> QED  BY <1>2, <1>3, <1>4, <1>5, <1>6 DEF Next

LEMMA PaidAtFirst == Init => PaidInv
  <1> SUFFICES ASSUME Init PROVE PaidInv
    OBVIOUS
  <1>1. Started = {} /\ \A d \in Documents : Ahead(d) = {} /\ batches[d] = 0
    BY DEF Init, Started, Ahead, Extracting, Fresh
  <1> QED  BY <1>1, ExtractAtFirst, FS_EmptySet DEF PaidInv, PaidFor

\* A run, however often it is retried, pays at most once for a document that
\* has claims (extraction/runner.py, the query of extract_pending).
THEOREM PaidOnce == Spec => []PaidOncePerRun
  <1>1. PaidInv => PaidOncePerRun
    <2> SUFFICES ASSUME PaidInv, NEW d \in docs, d[1] \notin Barren
                 PROVE  batches[d] <= Cardinality(Started)
      BY DEF PaidOncePerRun, Started
    <2>1. d \in Documents /\ batches[d] \in Nat
      BY DEF PaidInv, ExtractInv, DocFacts, ParseInv, StoreFacts
    <2>2. Cardinality(Ahead(d)) \in Nat /\ Cardinality(Started) \in Nat
      BY AheadAreStarted DEF PaidInv, ExtractInv
    <2>3. PaidFor(d)
      BY <2>1 DEF PaidInv
    <2> QED  BY <2>1, <2>2, <2>3 DEF PaidFor
  <1> QED  BY <1>1, PaidAtFirst, PaidStep, ParseAlways, PTL DEF Spec
=============================================================================
