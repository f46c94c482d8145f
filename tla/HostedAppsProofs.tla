-------------------------- MODULE HostedAppsProofs --------------------------
(***************************************************************************)
(* A verdict about the agent's work is a verdict about its requests: for   *)
(* every application, the state the evaluator reads is what the accepted   *)
(* requests left, however many there are.                                  *)
(***************************************************************************)
EXTENDS HostedApps, SequenceTheorems, FiniteSetTheorems, WellFoundedInduction, TLAPS

(* What the applications share, whatever the bound on their requests. *)
Session == INSTANCE AppSession WITH MaxRequests <- 0

(* Every instance of FiniteSets counts alike. *)
LEMMA SameCardinality ==
    ASSUME NEW S
    PROVE  /\ Sheets!Cardinality(S) = Cardinality(S)
           /\ Calendar!Cardinality(S) = Cardinality(S)
           /\ Inbox!Cardinality(S) = Cardinality(S)
  BY Zenon DEF Sheets!Cardinality, Calendar!Cardinality, Inbox!Cardinality, Cardinality

(* Two different elements are two. *)
LEMMA PairCount ==
    ASSUME NEW a, NEW b, a # b PROVE Cardinality({a, b}) = 2
<1>1. IsFiniteSet({a}) /\ Cardinality({a}) = 1
  BY FS_Singleton
<1>2. Cardinality({a} \cup {b}) = Cardinality({a}) + 1
  BY <1>1, FS_AddElement
<1>3. {a, b} = {a} \cup {b}
  OBVIOUS
<1> QED BY <1>1, <1>2, <1>3

(* The largest and the smallest number of a set, as every application has  *)
(* them from its own instance of FiniteSetsExt.                            *)
LEMMA LargestIs ==
    ASSUME NEW S \in SUBSET Nat, NEW m \in S, \A n \in S : n <= m
    PROVE  (CHOOSE x \in S : \A y \in S : x >= y) = m
<1> DEFINE x == CHOOSE x \in S : \A y \in S : x >= y
<1>1. m \in S /\ \A y \in S : m >= y
  OBVIOUS
<1>2. x \in S /\ \A y \in S : x >= y
  BY <1>1, Zenon
<1>3. x \in Nat /\ m \in Nat /\ x <= m /\ x >= m
  BY <1>2
<1>4. x = m
  <2> HIDE DEF x
  <2> QED BY <1>3
<1> QED BY <1>4

(* And the smallest. *)
LEMMA SmallestIs ==
    ASSUME NEW S \in SUBSET Nat, NEW m \in S, \A n \in S : m <= n
    PROVE  (CHOOSE x \in S : \A y \in S : x =< y) = m
<1> DEFINE x == CHOOSE x \in S : \A y \in S : x =< y
<1>1. m \in S /\ \A y \in S : m =< y
  OBVIOUS
<1>2. x \in S /\ \A y \in S : x =< y
  BY <1>1, Zenon
<1>3. x \in Nat /\ m \in Nat /\ x <= m /\ x >= m
  BY <1>2
<1>4. x = m
  <2> HIDE DEF x
  <2> QED BY <1>3
<1> QED BY <1>4

(* Every application takes the same largest number of a set. *)
LEMMA LatestIs ==
    ASSUME NEW S \in SUBSET Nat, NEW m \in S, \A n \in S : n <= m
    PROVE  /\ Notes!Max(S) = m /\ Wiki!Max(S) = m /\ Repo!Max(S) = m /\ Sheets!Max(S) = m
           /\ Calendar!Max(S) = m /\ Inbox!Max(S) = m /\ Shopping!Max(S) = m /\ Forum!Max(S) = m
  BY LargestIs, Zenon DEF Notes!Max, Wiki!Max, Repo!Max, Sheets!Max, Calendar!Max,
                            Inbox!Max, Shopping!Max, Forum!Max

(* And the same smallest one. *)
LEMMA EarliestIs ==
    ASSUME NEW S \in SUBSET Nat, NEW m \in S, \A n \in S : m <= n
    PROVE  Calendar!Min(S) = m /\ Inbox!Min(S) = m /\ Forum!Min(S) = m
  BY SmallestIs, Zenon DEF Calendar!Min, Inbox!Min, Forum!Min

(* A non-empty set of numbers has a smallest one. *)
LEMMA EarliestExists ==
    ASSUME NEW S \in SUBSET Nat, S # {}
    PROVE  \E m \in S : \A n \in S : m <= n
<1>1. IsWellFoundedOn(OpToRel(<, Nat), Nat)
  BY NatLessThanWellFounded
<1>2. PICK m \in S : \A n \in S : ~(<<n, m>> \in OpToRel(<, Nat))
  BY <1>1, WFMin
<1>3. ASSUME NEW n \in S PROVE m <= n
  <2>1. n \in Nat /\ m \in Nat /\ ~(n < m)
    BY <1>2, <1>3 DEF OpToRel
  <2> QED BY <2>1
<1> QED BY <1>3

(* And a bounded one has a largest. *)
LEMMA LatestExists ==
    ASSUME NEW k \in Nat, NEW S \in SUBSET (0..k), S # {}
    PROVE  \E m \in S : \A n \in S : n <= m
<1> DEFINE B == {b \in Nat : \A n \in S : n <= b}
<1>1. k \in B /\ B \in SUBSET Nat
  OBVIOUS
<1>2. PICK b \in B : \A c \in B : b <= c
  <2> HIDE DEF B
  <2> QED BY <1>1, EarliestExists
<1>3. b \in S
  <2> SUFFICES ASSUME b \notin S PROVE FALSE
    OBVIOUS
  <2>1. PICK n \in S : TRUE
    OBVIOUS
  <2>2. b \in Nat /\ \A m \in S : m \in Nat /\ m < b
    BY <1>2
  <2>3. b - 1 \in B
    BY <2>1, <2>2
  <2> QED BY <1>2, <2>2, <2>3
<1> QED BY <1>2, <1>3

-----------------------------------------------------------------------------
(* The envelope *)

(* The steps that are no request to the application: the end of the work,  *)
(* its judgement and a recovery.                                           *)
Rests(verdict, w) ==
    Session!Complete \/ Session!Judge(verdict) \/ Session!Recover(w)

(* Such a step keeps the envelope, the task and the requests, and stores   *)
(* no other verdict than the one it was given.                             *)
LEMMA EnvelopeKept ==
    ASSUME Session!TypeOfEnvelope,
           NEW v \in {"passed", "failed"}, \E w : Rests(v, w)
    PROVE  /\ Session!TypeOfEnvelope'
           /\ UNCHANGED <<task, log>>
           /\ result = "none" => result' \in {"none", v}
<1>1. CASE Session!Complete
  BY <1>1 DEF Session!TypeOfEnvelope, Session!Complete
<1>2. CASE Session!Judge(v)
  <2>1. finishing' = FALSE /\ (open' = FALSE \/ open' = open) /\ UNCHANGED <<task, log>>
        /\ (result' = v \/ result' = result)
    BY <1>2 DEF Session!Judge, Session!Answered, Session!AnswerLost, Session!NotReached,
                Session!Stored
  <2>2. result' \in {"none", "passed", "failed"}
    BY <2>1 DEF Session!TypeOfEnvelope
  <2>3. open' \in BOOLEAN /\ finishing' \in BOOLEAN /\ ~finishing'
    BY <2>1, Zenon DEF Session!TypeOfEnvelope
  <2>4. Session!TypeOfEnvelope'
    BY <2>2, <2>3, Zenon DEF Session!TypeOfEnvelope
  <2> QED BY <2>1, <2>4
<1>3. CASE \E w : Session!Recover(w)
  BY <1>3 DEF Session!TypeOfEnvelope, Session!Recover
<1> QED BY <1>1, <1>2, <1>3 DEF Rests

(* An accepted request. *)
Accepted(request, w) ==
    /\ log' = Append(log, request) /\ work' = w
    /\ open /\ finishing' \in BOOLEAN /\ UNCHANGED <<task, open, result>>

(* An accepted request keeps the envelope, the task and the stored result. *)
LEMMA AcceptedEnvelope ==
    ASSUME Session!TypeOfEnvelope, \E request, w : Accepted(request, w)
    PROVE  Session!TypeOfEnvelope' /\ UNCHANGED <<task, result>>
  BY DEF Session!TypeOfEnvelope, Accepted

(* The log of requests of a kind R grows at its end. *)
LEMMA LogGrows ==
    ASSUME NEW R, log \in Seq(R), NEW r \in R, log' = Append(log, r)
    PROVE  /\ log' \in Seq(R) /\ Len(log) \in Nat /\ Len(log') = Len(log) + 1
           /\ DOMAIN log = 1..Len(log) /\ DOMAIN log' = DOMAIN log \cup {Len(log')}
           /\ log'[Len(log')] = r /\ Len(log') \notin DOMAIN log
           /\ \A i \in DOMAIN log : log'[i] = log[i] /\ i < Len(log')
           /\ DOMAIN log \subseteq Nat /\ DOMAIN log' \subseteq Nat
  OBVIOUS

-----------------------------------------------------------------------------
(* Notes *)

(* A note says what the latest request wrote into it, or the seed. *)
NotesWritten(n) ==
    \/ /\ n = 1 /\ work[n] = task.seed
       /\ \A i \in DOMAIN log : log[i].note # n
    \/ \E i \in DOMAIN log :
        /\ log[i].note = n /\ log[i].text = work[n]
        /\ \A j \in DOMAIN log : log[j].note = n => j <= i

NotesInv ==
    /\ Session!TypeOfEnvelope /\ Len(log) <= Requests["notes-lite"]
    /\ task \in Notes!Questions
    /\ Notes!TypeOfWork
    /\ log \in Seq([note : Nat, text : Notes!Texts])
    /\ 1 \in DOMAIN work
    /\ \A i \in DOMAIN log : log[i].note \in DOMAIN work
    /\ \A n \in DOMAIN work : NotesWritten(n)

(* A session of the notes starts in this invariant. *)
LEMMA NotesStarts ==
    ASSUME Notes!Init PROVE NotesInv
<1>1. PICK t \in Notes!Questions : Notes!Fresh(t, <<t.seed>>)
  BY DEF Notes!Init
<1>2. t.seed \in Notes!Texts
  BY DEF Notes!Questions, Notes!Question, Notes!Texts
<1> QED
  <2>1. log = <<>> /\ task = t /\ work = <<t.seed>>
    BY <1>1 DEF Notes!Fresh
  <2>2. Session!TypeOfEnvelope
    BY <1>1 DEF Notes!Fresh, Session!TypeOfEnvelope
  <2>3. work \in Seq(Notes!Texts) /\ DOMAIN work = {1} /\ work[1] = task.seed
    BY <1>2, <2>1
  <2>4. Requests["notes-lite"] \in Nat
    BY RequestsAssumption
  <2>5. Len(log) = 0 /\ DOMAIN log = {}
    BY <2>1
  <2>6. log \in Seq([note : Nat, text : Notes!Texts])
    BY <2>1
  <2>7. \A n \in DOMAIN work : NotesWritten(n)
    BY <2>3, <2>5 DEF NotesWritten
  <2> QED
    BY <2>1, <2>2, <2>3, <2>4, <2>5, <2>6, <2>7 DEF NotesInv, Notes!TypeOfWork

(* Texts w in which n says what is given and the others are those there are. *)
NotesWith(n, text, w) ==
    /\ w \in Seq(Notes!Texts)
    /\ n \in DOMAIN w /\ w[n] = text /\ DOMAIN w = DOMAIN work \cup {n}
    /\ \A m \in DOMAIN work \ {n} : w[m] = work[m]

(* A request that writes one note as the log says it does keeps the        *)
(* invariant.                                                              *)
LEMMA NotesAccepts ==
    ASSUME NotesInv,
           \E n \in Nat, text \in Notes!Texts, ends \in BOOLEAN : \E w :
              /\ NotesWith(n, text, w)
              /\ Notes!Accept([note |-> n, text |-> text], w, ends)
    PROVE  NotesInv'
<1>0. PICK n \in Nat, text \in Notes!Texts, ends \in BOOLEAN, w \in Seq(Notes!Texts) :
              /\ NotesWith(n, text, w)
              /\ Notes!Accept([note |-> n, text |-> text], w, ends)
  BY DEF NotesWith
<1>9. /\ n \in DOMAIN w /\ w[n] = text /\ DOMAIN w = DOMAIN work \cup {n}
      /\ \A m \in DOMAIN work \ {n} : w[m] = work[m]
  BY <1>0 DEF NotesWith
<1> DEFINE r == [note |-> n, text |-> text]
           k == Len(log) + 1
<1>1. Accepted(r, w) /\ Len(log) < Requests["notes-lite"]
  BY <1>0 DEF Notes!Accept, Accepted
<1>2. log \in Seq([note : Nat, text : Notes!Texts]) /\ r \in [note : Nat, text : Notes!Texts]
  BY DEF NotesInv
<1>3. /\ log' \in Seq([note : Nat, text : Notes!Texts]) /\ Len(log) \in Nat /\ Len(log') = k
      /\ DOMAIN log' = DOMAIN log \cup {k} /\ log'[k] = r
      /\ \A i \in DOMAIN log : log'[i] = log[i] /\ i < k
      /\ DOMAIN log \subseteq Nat /\ work' = w /\ task' = task
  <2> HIDE DEF r
  <2> QED BY <1>1, <1>2, LogGrows DEF Accepted
<1>4. \A m \in DOMAIN work' : NotesWritten(m)'
  <2> TAKE m \in DOMAIN work'
  <2>1. CASE m = n
    BY <1>3, <1>9, <2>1 DEF NotesWritten
  <2>2. CASE m # n
    <3>1. m \in DOMAIN work /\ work'[m] = work[m] /\ NotesWritten(m)
      BY <1>3, <1>9, <2>2 DEF NotesInv
    <3>2. \A i \in DOMAIN log' : i \in DOMAIN log \/ (i = k /\ log'[i].note # m)
      BY <1>3, <2>2
    <3>3. CASE m = 1 /\ work[m] = task.seed /\ \A i \in DOMAIN log : log[i].note # m
      <4>1. \A i \in DOMAIN log' : log'[i].note # m
        BY <1>3, <3>2, <3>3
      <4> QED BY <1>3, <3>1, <3>3, <4>1 DEF NotesWritten
    <3>4. CASE \E i \in DOMAIN log : /\ log[i].note = m /\ log[i].text = work[m]
                                     /\ \A j \in DOMAIN log : log[j].note = m => j <= i
      <4>1. PICK i \in DOMAIN log : /\ log[i].note = m /\ log[i].text = work[m]
                                    /\ \A j \in DOMAIN log : log[j].note = m => j <= i
        BY <3>4
      <4>2. i \in DOMAIN log' /\ log'[i] = log[i]
        BY <1>3
      <4>3. \A j \in DOMAIN log' : log'[j].note = m => j <= i
        BY <1>3, <3>2, <4>1
      <4> QED BY <1>3, <3>1, <4>1, <4>2, <4>3 DEF NotesWritten
    <3> QED BY <3>1, <3>3, <3>4 DEF NotesWritten
  <2> QED BY <2>1, <2>2
<1>5. \A i \in DOMAIN log' : log'[i].note \in DOMAIN work'
  BY <1>3, <1>9 DEF NotesInv
<1>6. Session!TypeOfEnvelope'
  BY <1>1, AcceptedEnvelope DEF NotesInv
<1>7. Len(log') <= Requests["notes-lite"]
  BY <1>1, <1>3, RequestsAssumption
<1> QED
  BY <1>0, <1>3, <1>4, <1>5, <1>6, <1>7, <1>9 DEF NotesInv, Notes!TypeOfWork

(* A step that keeps the task, the requests and the work of the notes      *)
(* keeps it.                                                               *)
LEMMA NotesSame ==
    ASSUME NotesInv, Session!TypeOfEnvelope', UNCHANGED <<task, log, work>> PROVE NotesInv'
<1>1. Session!TypeOfEnvelope' /\ UNCHANGED <<task, log>>
  OBVIOUS
<1>2. work' = work
  OBVIOUS
<1> QED BY <1>1, <1>2 DEF NotesInv, NotesWritten, Notes!TypeOfWork

NotesRequest ==
    \E text \in Notes!Texts :
        Notes!Create(text) \/ \E n \in 1..Requests["notes-lite"] : Notes!Update(n, text)

(* A step of the notes is a request or one of the envelope, which judges   *)
(* as the evaluator says of the work.                                      *)
LEMMA NotesSteps ==
    ASSUME Notes!Next
    PROVE  \/ NotesRequest
           \/ \E v \in {"passed", "failed"} : v = Notes!Evaluate(work) /\ Rests(v, work)
<1>1. Notes!Evaluate(work) \in {"passed", "failed"}
  BY DEF Notes!Evaluate
<1>2. NotesRequest \/ Rests(Notes!Evaluate(work), work)
  BY DEF Notes!Next, NotesRequest, Rests, Notes!Hydrate, Notes!Complete, Session!Complete,
         Notes!Recover, Session!Recover, Notes!Judge, Session!Judge, Notes!Answered,
         Session!Answered, Notes!AnswerLost, Session!AnswerLost, Notes!NotReached,
         Session!NotReached, Notes!Stored, Session!Stored
<1> QED BY <1>1, <1>2

(* Every request the application accepts keeps the invariant and stores no *)
(* result.                                                                 *)
LEMMA NotesRequested ==
    ASSUME NotesInv, NotesRequest PROVE NotesInv' /\ result' = result
<1>1. work \in Seq(Notes!Texts) /\ DOMAIN work = 1..Len(work) /\ Len(work) \in Nat
  BY DEF NotesInv, Notes!TypeOfWork
<1>2. ASSUME NEW text \in Notes!Texts, Notes!Create(text) PROVE NotesInv' /\ result' = result
  <2> DEFINE w == Append(work, text)
             ends == task.all = {} \/ Notes!Evaluate(w) = "passed"
  <2>1. w \in Seq(Notes!Texts) /\ Len(w) = Len(work) + 1 /\ DOMAIN w = 1..Len(w)
        /\ w[Len(w)] = text /\ \A m \in DOMAIN work : w[m] = work[m]
    BY <1>1
  <2>2. Notes!Accept([note |-> Len(w), text |-> text], w, ends) /\ ends \in BOOLEAN
    BY <1>2 DEF Notes!Create
  <2>3. Len(w) \in Nat /\ NotesWith(Len(w), text, w)
    BY <1>1, <2>1 DEF NotesWith
  <2> HIDE DEF w, ends
  <2>4. NotesInv'
    BY <2>2, <2>3, NotesAccepts, Zenon
  <2> QED BY <2>2, <2>4 DEF Notes!Accept
<1>3. ASSUME NEW n \in Nat, NEW text \in Notes!Texts, Notes!Update(n, text)
      PROVE  NotesInv' /\ result' = result
  <2> DEFINE w == [work EXCEPT ![n] = text]
  <2>1. n \in DOMAIN work /\ Notes!Accept([note |-> n, text |-> text], w, TRUE)
    BY <1>3 DEF Notes!Update
  <2>2. NotesWith(n, text, w) /\ TRUE \in BOOLEAN
    BY <1>1, <2>1 DEF NotesWith
  <2> HIDE DEF w
  <2>3. NotesInv'
    BY <2>1, <2>2, NotesAccepts, Zenon
  <2> QED BY <2>1, <2>3 DEF Notes!Accept
<1>4. Requests["notes-lite"] \in Nat
  BY RequestsAssumption
<1> QED BY <1>2, <1>3, <1>4 DEF NotesRequest

(* What the evaluator reads is what the requests wrote. *)
LEMMA NotesSay ==
    ASSUME NotesInv, NEW n \in DOMAIN work PROVE Notes!Says(n) = work[n]
<1> DEFINE writes == {i \in DOMAIN log : log[i].note = n}
<1>1. NotesWritten(n) /\ DOMAIN log \subseteq Nat
  BY DEF NotesInv
<1>2. CASE n = 1 /\ work[n] = task.seed /\ \A i \in DOMAIN log : log[i].note # n
  <2>1. writes = {}
    BY <1>2
  <2> QED BY <1>2, <2>1 DEF Notes!Says
<1>3. CASE \E i \in DOMAIN log : /\ log[i].note = n /\ log[i].text = work[n]
                                 /\ \A j \in DOMAIN log : log[j].note = n => j <= i
  <2>1. PICK i \in DOMAIN log : /\ log[i].note = n /\ log[i].text = work[n]
                                /\ \A j \in DOMAIN log : log[j].note = n => j <= i
    BY <1>3
  <2>2. writes \in SUBSET Nat /\ i \in writes /\ \A j \in writes : j <= i
    BY <1>1, <2>1
  <2>3. Notes!Max(writes) = i
    <3> HIDE DEF writes
    <3> QED BY <2>2, LatestIs
  <2> QED BY <2>1, <2>2, <2>3 DEF Notes!Says
<1> QED BY <1>1, <1>2, <1>3 DEF NotesWritten

(* The evaluator passes exactly the work that the requests make deserved. *)
LEMMA NotesJudged ==
    ASSUME NotesInv PROVE Notes!Evaluate(work) = "passed" <=> Notes!Deserved
<1> DEFINE notes == {1} \cup {log[i].note : i \in DOMAIN log}
<1>1. notes = DOMAIN work
  <2>1. ASSUME NEW n \in DOMAIN work PROVE n \in notes
    BY <2>1 DEF NotesInv, NotesWritten
  <2> QED BY <2>1 DEF NotesInv
<1>2. \A n \in DOMAIN work : Notes!Says(n) = work[n]
  BY NotesSay
<1>3. task.target \in {0, 1} /\ 1 \in DOMAIN work /\ 0 \notin DOMAIN work
  BY DEF NotesInv, Notes!TypeOfWork, Notes!Questions, Notes!Question, Notes!Seed
<1> DEFINE candidates == IF task.all = {} /\ task.target # 0 THEN {task.target} ELSE DOMAIN work
<1>4. (\E n \in candidates : work[n] \in task.fits)
      <=> \E n \in DOMAIN work : work[n] \in task.fits /\ (task.all = {} => task.target \in {0, n})
  BY <1>3
<1>5. Notes!Evaluate(work) = "passed" <=>
        /\ \A text \in task.all : \E n \in DOMAIN work : work[n] = text
        /\ \E n \in candidates : work[n] \in task.fits
  BY DEF Notes!Evaluate
<1>6. Notes!Deserved <=>
        /\ \A text \in task.all : \E n \in DOMAIN work : Notes!Says(n) = text
        /\ \E n \in DOMAIN work :
             Notes!Says(n) \in task.fits /\ (task.all = {} => task.target \in {0, n})
  BY <1>1 DEF Notes!Deserved, Notes!Seed
<1> HIDE DEF candidates
<1> QED BY <1>2, <1>4, <1>5, <1>6
-----------------------------------------------------------------------------
(* Wiki *)

WikiRecord == [op : {"view", "answer"}, on : Wiki!Articles \cup Wiki!Answers]

(* The answer is that of the latest request that gave one. *)
WikiAnswered ==
    \/ work.answer = "none" /\ \A i \in DOMAIN log : log[i].op # "answer"
    \/ \E i \in DOMAIN log :
        /\ log[i].op = "answer" /\ log[i].on = work.answer
        /\ \A j \in DOMAIN log : log[j].op = "answer" => j <= i

WikiViewed(article) == \E i \in DOMAIN log : log[i] = [op |-> "view", on |-> article]

WikiInv ==
    /\ Session!TypeOfEnvelope /\ Len(log) <= Requests["wiki-lite"]
    /\ task \in Wiki!Questions
    /\ Wiki!TypeOfWork
    /\ log \in Seq(WikiRecord)
    /\ \A article \in Wiki!Articles : article \in work.viewed <=> WikiViewed(article)
    /\ WikiAnswered

(* A session of the wiki starts in this invariant. *)
LEMMA WikiStarts ==
    ASSUME Wiki!Init PROVE WikiInv
<1>1. PICK t \in Wiki!Questions : Wiki!Fresh(t, [viewed |-> {}, answer |-> "none"])
  BY DEF Wiki!Init
<1>2. /\ log = <<>> /\ task = t /\ work = [viewed |-> {}, answer |-> "none"]
      /\ Session!TypeOfEnvelope
  BY <1>1 DEF Wiki!Fresh, Session!TypeOfEnvelope
<1>3. Len(log) = 0 /\ DOMAIN log = {} /\ log \in Seq(WikiRecord)
  BY <1>2
<1>4. Wiki!TypeOfWork
  BY <1>2 DEF Wiki!TypeOfWork
<1>5. Requests["wiki-lite"] \in Nat
  BY RequestsAssumption
<1>6. WikiAnswered
  BY <1>2, <1>3 DEF WikiAnswered
<1>7. \A article \in Wiki!Articles : article \in work.viewed <=> WikiViewed(article)
  BY <1>2, <1>3 DEF WikiViewed
<1> QED BY <1>2, <1>3, <1>4, <1>5, <1>6, <1>7 DEF WikiInv

(* A step that keeps the task, the requests and the work of the wiki keeps *)
(* it.                                                                     *)
LEMMA WikiSame ==
    ASSUME WikiInv, Session!TypeOfEnvelope', UNCHANGED <<task, log, work>> PROVE WikiInv'
<1>1. Session!TypeOfEnvelope' /\ UNCHANGED <<task, log>>
  OBVIOUS
<1>2. work' = work
  OBVIOUS
<1> QED BY <1>1, <1>2 DEF WikiInv, WikiAnswered, WikiViewed, Wiki!TypeOfWork

WikiRequest ==
    \/ \E article \in Wiki!Articles : Wiki!View(article)
    \/ \E answer \in Wiki!Answers : Wiki!Answer(answer)

(* A step of the wiki is a request or one of the envelope, which judges as *)
(* the evaluator says of the work.                                         *)
LEMMA WikiSteps ==
    ASSUME Wiki!Next
    PROVE  \/ WikiRequest
           \/ \E v \in {"passed", "failed"} : v = Wiki!Evaluate(work) /\ Rests(v, work)
<1>1. Wiki!Evaluate(work) \in {"passed", "failed"}
  BY DEF Wiki!Evaluate
<1>2. WikiRequest \/ Rests(Wiki!Evaluate(work), work)
  BY DEF Wiki!Next, WikiRequest, Rests, Wiki!Hydrate, Wiki!Complete, Session!Complete,
         Wiki!Recover, Session!Recover, Wiki!Judge, Session!Judge, Wiki!Answered,
         Session!Answered, Wiki!AnswerLost, Session!AnswerLost, Wiki!NotReached,
         Session!NotReached, Wiki!Stored, Session!Stored
<1> QED BY <1>1, <1>2

(* Viewing an article keeps the invariant. *)
LEMMA WikiViews ==
    ASSUME WikiInv, NEW article \in Wiki!Articles, Wiki!View(article)
    PROVE  WikiInv' /\ result' = result
<1> DEFINE r == [op |-> "view", on |-> article]
           k == Len(log')
<1>1. /\ Accepted(r, [work EXCEPT !.viewed = @ \cup {article}])
      /\ Len(log) < Requests["wiki-lite"]
  BY DEF Wiki!View, Wiki!Accept, Accepted
<1>2. log \in Seq(WikiRecord) /\ r \in WikiRecord
  BY DEF WikiInv, WikiRecord
<1>3. /\ log' \in Seq(WikiRecord) /\ Len(log) \in Nat /\ k = Len(log) + 1
      /\ DOMAIN log' = DOMAIN log \cup {k} /\ log'[k] = r
      /\ \A i \in DOMAIN log : log'[i] = log[i]
  <2> HIDE DEF r
  <2> QED BY <1>1, <1>2, LogGrows DEF Accepted
<1>4. /\ work' \in [viewed : SUBSET Wiki!Articles, answer : Wiki!Answers \cup {"none"}]
      /\ work'.viewed = work.viewed \cup {article} /\ work'.answer = work.answer
  BY <1>1 DEF WikiInv, Wiki!TypeOfWork, Accepted
<1>5. WikiAnswered'
  <2>1. CASE work.answer = "none" /\ \A i \in DOMAIN log : log[i].op # "answer"
    BY <1>3, <1>4, <2>1 DEF WikiAnswered
  <2>2. CASE \E i \in DOMAIN log : /\ log[i].op = "answer" /\ log[i].on = work.answer
                                   /\ \A j \in DOMAIN log : log[j].op = "answer" => j <= i
    <3>1. PICK i \in DOMAIN log : /\ log[i].op = "answer" /\ log[i].on = work.answer
                                  /\ \A j \in DOMAIN log : log[j].op = "answer" => j <= i
      BY <2>2
    <3>2. \A j \in DOMAIN log' : log'[j].op = "answer" => j <= i
      BY <1>3, <3>1
    <3> QED BY <1>3, <1>4, <3>1, <3>2 DEF WikiAnswered
  <2> QED BY <2>1, <2>2 DEF WikiInv, WikiAnswered
<1>6. \A a \in Wiki!Articles : WikiViewed(a)' <=> WikiViewed(a) \/ a = article
  BY <1>3 DEF WikiViewed
<1>7. Session!TypeOfEnvelope' /\ UNCHANGED <<task, result>>
  BY <1>1, AcceptedEnvelope DEF WikiInv
<1>8. Len(log') <= Requests["wiki-lite"]
  BY <1>1, <1>3, RequestsAssumption
<1> QED BY <1>3, <1>4, <1>5, <1>6, <1>7, <1>8 DEF WikiInv, Wiki!TypeOfWork

(* An answer replaces the one before it, and keeps the invariant. *)
LEMMA WikiAnswers ==
    ASSUME WikiInv, NEW answer \in Wiki!Answers, Wiki!Answer(answer)
    PROVE  WikiInv' /\ result' = result
<1> DEFINE r == [op |-> "answer", on |-> answer]
           k == Len(log')
<1>1. /\ Accepted(r, [work EXCEPT !.answer = answer])
      /\ Len(log) < Requests["wiki-lite"]
  BY DEF Wiki!Answer, Wiki!Accept, Accepted
<1>2. log \in Seq(WikiRecord) /\ r \in WikiRecord
  BY DEF WikiInv, WikiRecord
<1>3. /\ log' \in Seq(WikiRecord) /\ Len(log) \in Nat /\ k = Len(log) + 1
      /\ DOMAIN log' = DOMAIN log \cup {k} /\ log'[k] = r
      /\ \A i \in DOMAIN log : log'[i] = log[i] /\ i < k
  <2> HIDE DEF r
  <2> QED BY <1>1, <1>2, LogGrows DEF Accepted
<1>4. /\ work' \in [viewed : SUBSET Wiki!Articles, answer : Wiki!Answers \cup {"none"}]
      /\ work'.viewed = work.viewed /\ work'.answer = answer
  BY <1>1 DEF WikiInv, Wiki!TypeOfWork, Accepted
<1>5. WikiAnswered'
  BY <1>3, <1>4 DEF WikiAnswered
<1>6. \A a \in Wiki!Articles : WikiViewed(a)' <=> WikiViewed(a)
  BY <1>3 DEF WikiViewed
<1>7. Session!TypeOfEnvelope' /\ UNCHANGED <<task, result>>
  BY <1>1, AcceptedEnvelope DEF WikiInv
<1>8. Len(log') <= Requests["wiki-lite"]
  BY <1>1, <1>3, RequestsAssumption
<1> QED BY <1>3, <1>4, <1>5, <1>6, <1>7, <1>8 DEF WikiInv, Wiki!TypeOfWork

(* The evaluator passes exactly the work that the requests make deserved. *)
LEMMA WikiJudged ==
    ASSUME WikiInv PROVE Wiki!Evaluate(work) = "passed" <=> Wiki!Deserved
<1> DEFINE answers == {i \in DOMAIN log : log[i].op = "answer"}
           right == Wiki!Accepted(task.normalization)
<1>1. work.answer \in right
      <=> answers # {} /\ log[Wiki!Max(answers)].on \in right
  <2>1. CASE work.answer = "none" /\ \A i \in DOMAIN log : log[i].op # "answer"
    BY <2>1 DEF Wiki!Accepted
  <2>2. CASE \E i \in DOMAIN log : /\ log[i].op = "answer" /\ log[i].on = work.answer
                                   /\ \A j \in DOMAIN log : log[j].op = "answer" => j <= i
    <3>1. PICK i \in DOMAIN log : /\ log[i].op = "answer" /\ log[i].on = work.answer
                                  /\ \A j \in DOMAIN log : log[j].op = "answer" => j <= i
      BY <2>2
    <3>2. answers \in SUBSET Nat /\ i \in answers /\ \A j \in answers : j <= i
      BY <3>1 DEF WikiInv
    <3>3. Wiki!Max(answers) = i
      <4> HIDE DEF answers
      <4> QED BY <3>2, LatestIs
    <3> HIDE DEF right
    <3> QED BY <3>1, <3>2, <3>3
  <2> QED BY <2>1, <2>2 DEF WikiInv, WikiAnswered
<1>2. task.required \subseteq Wiki!Articles
  BY DEF WikiInv, Wiki!Questions, Wiki!Question, Wiki!Articles
<1>3. task.required \subseteq work.viewed <=> \A article \in task.required : WikiViewed(article)
  BY <1>2 DEF WikiInv
<1> HIDE DEF answers, right
<1>4. Wiki!Evaluate(work) = "passed"
      <=> work.answer \in right /\ task.required \subseteq work.viewed
  BY DEF Wiki!Evaluate, right
<1>5. Wiki!Deserved
      <=> /\ answers # {} /\ log[Wiki!Max(answers)].on \in right
          /\ \A article \in task.required : WikiViewed(article)
  BY DEF Wiki!Deserved, WikiViewed, answers, right
<1> QED BY <1>1, <1>3, <1>4, <1>5

-----------------------------------------------------------------------------
(* The repository *)

RepoRecord == [op : {"edit", "merge"}, file : Repo!Files \cup {"all"}, content : Repo!Contents]
MergeRequest == [asked : BOOLEAN, files : [Repo!Files -> Repo!Contents]]

(* A file is as the latest edit left it. *)
RepoEdited(f) ==
    \/ work.files[f] = "seed" /\ \A i \in DOMAIN log : log[i].file # f
    \/ \E i \in DOMAIN log :
        /\ log[i].file = f /\ log[i].content = work.files[f]
        /\ \A j \in DOMAIN log : log[j].file = f => j <= i

(* The last merge request is the one that was made last. *)
RepoMerged ==
    \/ work.requests = <<>> /\ \A i \in DOMAIN log : log[i].op # "merge"
    \/ /\ work.requests # <<>>
       /\ \E i \in DOMAIN log :
            /\ log[i].op = "merge"
            /\ log[i].content = "asked" <=> work.requests[Len(work.requests)].asked
            /\ \A j \in DOMAIN log : log[j].op = "merge" => j <= i

RepoInv ==
    /\ Session!TypeOfEnvelope /\ Len(log) <= Requests["repo-lite"]
    /\ task \in Repo!Questions
    /\ work \in [files : [Repo!Files -> Repo!Contents], requests : Seq(MergeRequest)]
    /\ log \in Seq(RepoRecord)
    /\ \A f \in Repo!Files : RepoEdited(f)
    /\ RepoMerged

(* A session of the repository starts in this invariant. *)
LEMMA RepoStarts ==
    ASSUME Repo!Init PROVE RepoInv
<1>1. PICK t \in Repo!Questions : Repo!Fresh(t, [files |-> Repo!Untouched, requests |-> <<>>])
  BY DEF Repo!Init
<1>2. /\ log = <<>> /\ task = t /\ work = [files |-> Repo!Untouched, requests |-> <<>>]
      /\ Session!TypeOfEnvelope
  BY <1>1 DEF Repo!Fresh, Session!TypeOfEnvelope
<1>3. Len(log) = 0 /\ DOMAIN log = {} /\ log \in Seq(RepoRecord)
  BY <1>2
<1>4. work \in [files : [Repo!Files -> Repo!Contents], requests : Seq(MergeRequest)]
  BY <1>2 DEF Repo!Untouched, Repo!Contents
<1>5. Requests["repo-lite"] \in Nat
  BY RequestsAssumption
<1>6. RepoMerged
  BY <1>2, <1>3 DEF RepoMerged
<1>7. \A f \in Repo!Files : RepoEdited(f)
  BY <1>2, <1>3 DEF RepoEdited, Repo!Untouched
<1> QED BY <1>2, <1>3, <1>4, <1>5, <1>6, <1>7 DEF RepoInv

(* A step that keeps the task, the requests and the work of the repository *)
(* keeps it.                                                               *)
LEMMA RepoSame ==
    ASSUME RepoInv, Session!TypeOfEnvelope', UNCHANGED <<task, log, work>> PROVE RepoInv'
<1>1. Session!TypeOfEnvelope' /\ UNCHANGED <<task, log>>
  OBVIOUS
<1>2. work' = work
  OBVIOUS
<1> QED BY <1>1, <1>2 DEF RepoInv, RepoEdited, RepoMerged

RepoRequest ==
    \/ \E f \in Repo!Files, content \in Repo!Contents : Repo!Edit(f, content)
    \/ \E asked \in BOOLEAN : Repo!CreateMergeRequest(asked)

(* A step of the repository is a request or one of the envelope, which     *)
(* judges as the evaluator says of the work.                               *)
LEMMA RepoSteps ==
    ASSUME Repo!Next
    PROVE  \/ RepoRequest
           \/ \E v \in {"passed", "failed"} : v = Repo!Evaluate(work) /\ Rests(v, work)
<1>1. Repo!Evaluate(work) \in {"passed", "failed"}
  BY DEF Repo!Evaluate
<1>2. RepoRequest \/ Rests(Repo!Evaluate(work), work)
  BY DEF Repo!Next, RepoRequest, Rests, Repo!Hydrate, Repo!Complete, Session!Complete,
         Repo!Recover, Session!Recover, Repo!Judge, Session!Judge, Repo!Answered,
         Session!Answered, Repo!AnswerLost, Session!AnswerLost, Repo!NotReached,
         Session!NotReached, Repo!Stored, Session!Stored
<1> QED BY <1>1, <1>2

(* An edit leaves the file as it asks, and keeps the invariant. *)
LEMMA RepoEdits ==
    ASSUME RepoInv, NEW f \in Repo!Files, NEW content \in Repo!Contents, Repo!Edit(f, content)
    PROVE  RepoInv' /\ result' = result
<1> DEFINE r == [op |-> "edit", file |-> f, content |-> content]
           k == Len(log')
<1>1. /\ Accepted(r, [work EXCEPT !.files[f] = content])
      /\ Len(log) < Requests["repo-lite"]
  BY DEF Repo!Edit, Repo!Accept, Accepted
<1>2. log \in Seq(RepoRecord) /\ r \in RepoRecord
  BY DEF RepoInv, RepoRecord
<1>3. /\ log' \in Seq(RepoRecord) /\ Len(log) \in Nat /\ k = Len(log) + 1
      /\ DOMAIN log' = DOMAIN log \cup {k} /\ log'[k] = r
      /\ \A i \in DOMAIN log : log'[i] = log[i] /\ i < k
  <2> HIDE DEF r
  <2> QED BY <1>1, <1>2, LogGrows DEF Accepted
<1>4. /\ work' \in [files : [Repo!Files -> Repo!Contents], requests : Seq(MergeRequest)]
      /\ work'.requests = work.requests /\ work'.files[f] = content
      /\ \A g \in Repo!Files \ {f} : work'.files[g] = work.files[g]
  BY <1>1 DEF RepoInv, Accepted
<1>5. RepoMerged'
  <2>1. CASE work.requests = <<>> /\ \A i \in DOMAIN log : log[i].op # "merge"
    BY <1>3, <1>4, <2>1 DEF RepoMerged
  <2>2. CASE work.requests # <<>>
    <3>1. PICK i \in DOMAIN log :
            /\ log[i].op = "merge"
            /\ log[i].content = "asked" <=> work.requests[Len(work.requests)].asked
            /\ \A j \in DOMAIN log : log[j].op = "merge" => j <= i
      BY <2>2 DEF RepoInv, RepoMerged
    <3>2. \A j \in DOMAIN log' : log'[j].op = "merge" => j <= i
      BY <1>3, <3>1
    <3> QED BY <1>3, <1>4, <2>2, <3>1, <3>2 DEF RepoMerged
  <2> QED BY <2>1, <2>2 DEF RepoInv, RepoMerged
<1>6. \A g \in Repo!Files : RepoEdited(g)'
  <2> TAKE g \in Repo!Files
  <2>1. CASE g = f
    BY <1>3, <1>4, <2>1 DEF RepoEdited
  <2>2. CASE g # f /\ \A i \in DOMAIN log : log[i].file # g
    BY <1>3, <1>4, <2>2 DEF RepoInv, RepoEdited
  <2>3. CASE g # f /\ \E i \in DOMAIN log : log[i].file = g
    <3>1. PICK i \in DOMAIN log : /\ log[i].file = g /\ log[i].content = work.files[g]
                                  /\ \A j \in DOMAIN log : log[j].file = g => j <= i
      BY <2>3 DEF RepoInv, RepoEdited
    <3>2. \A j \in DOMAIN log' : log'[j].file = g => j <= i
      BY <1>3, <2>3, <3>1
    <3> QED BY <1>3, <1>4, <2>3, <3>1, <3>2 DEF RepoEdited
  <2> QED BY <2>1, <2>2, <2>3
<1>7. Session!TypeOfEnvelope' /\ UNCHANGED <<task, result>>
  BY <1>1, AcceptedEnvelope DEF RepoInv
<1>8. Len(log') <= Requests["repo-lite"]
  BY <1>1, <1>3, RequestsAssumption
<1> QED BY <1>3, <1>4, <1>5, <1>6, <1>7, <1>8 DEF RepoInv

(* A merge request takes the files as they are, and keeps the invariant. *)
LEMMA RepoMerges ==
    ASSUME RepoInv, NEW asked \in BOOLEAN, Repo!CreateMergeRequest(asked)
    PROVE  RepoInv' /\ result' = result
<1> DEFINE r == [op |-> "merge", file |-> "all", content |-> IF asked THEN "asked" ELSE "stray"]
           m == [asked |-> asked, files |-> work.files]
           k == Len(log')
<1>1. /\ Accepted(r, [work EXCEPT !.requests = Append(@, m)])
      /\ Len(log) < Requests["repo-lite"]
  BY DEF Repo!CreateMergeRequest, Repo!Accept, Accepted
<1>2. log \in Seq(RepoRecord) /\ r \in RepoRecord
  BY DEF RepoInv, RepoRecord, Repo!Contents
<1>3. /\ log' \in Seq(RepoRecord) /\ Len(log) \in Nat /\ k = Len(log) + 1
      /\ DOMAIN log' = DOMAIN log \cup {k} /\ log'[k] = r
      /\ \A i \in DOMAIN log : log'[i] = log[i] /\ i < k
  <2> HIDE DEF r
  <2> QED BY <1>1, <1>2, LogGrows DEF Accepted
<1>4. m \in MergeRequest /\ m.asked = asked
  BY DEF MergeRequest, RepoInv
<1>5. /\ work' \in [files : [Repo!Files -> Repo!Contents], requests : Seq(MergeRequest)]
      /\ work'.requests # <<>> /\ work'.requests[Len(work'.requests)] = m
      /\ work'.files = work.files
  <2>1. /\ work.requests \in Seq(MergeRequest) /\ work.files \in [Repo!Files -> Repo!Contents]
        /\ work = [files |-> work.files, requests |-> work.requests]
    BY DEF RepoInv
  <2> DEFINE q == Append(work.requests, m)
  <2>2. q \in Seq(MergeRequest) /\ q # <<>> /\ q[Len(q)] = m
    <3> HIDE DEF m
    <3> QED BY <1>4, <2>1
  <2> HIDE DEF q
  <2>3. work' = [files |-> work.files, requests |-> q]
    BY <1>1, <2>1 DEF Accepted, q
  <2> HIDE DEF m, r
  <2> QED BY <2>1, <2>2, <2>3
<1>6. RepoMerged'
  <2>1. r.op = "merge" /\ (r.content = "asked" <=> m.asked)
    BY <1>4
  <2>2. \A j \in DOMAIN log' : j <= k
    BY <1>3
  <2> HIDE DEF m, r
  <2> QED BY <1>3, <1>5, <2>1, <2>2 DEF RepoMerged
<1>7. \A g \in Repo!Files : RepoEdited(g)'
  <2> TAKE g \in Repo!Files
  <2>0. r.file # g
    BY DEF Repo!Files
  <2> HIDE DEF r
  <2>1. CASE \A i \in DOMAIN log : log[i].file # g
    BY <1>3, <1>5, <2>0, <2>1 DEF RepoInv, RepoEdited
  <2>2. CASE \E i \in DOMAIN log : log[i].file = g
    <3>1. PICK i \in DOMAIN log : /\ log[i].file = g /\ log[i].content = work.files[g]
                                  /\ \A j \in DOMAIN log : log[j].file = g => j <= i
      BY <2>2 DEF RepoInv, RepoEdited
    <3>2. \A j \in DOMAIN log' : log'[j].file = g => j <= i
      BY <1>3, <2>0, <3>1
    <3> QED BY <1>3, <1>5, <3>1, <3>2 DEF RepoEdited
  <2> QED BY <2>1, <2>2
<1>8. Session!TypeOfEnvelope' /\ UNCHANGED <<task, result>>
  BY <1>1, AcceptedEnvelope DEF RepoInv
<1>9. Len(log') <= Requests["repo-lite"]
  BY <1>1, <1>3, RequestsAssumption
<1> QED BY <1>3, <1>5, <1>6, <1>7, <1>8, <1>9 DEF RepoInv

(* The evaluator passes exactly the work that the requests make deserved. *)
LEMMA RepoJudged ==
    ASSUME RepoInv PROVE Repo!Evaluate(work) = "passed" <=> Repo!Deserved
<1> DEFINE merges == {i \in DOMAIN log : log[i].op = "merge"}
           edits(f) == {i \in DOMAIN log : log[i].file = f}
           last == work.requests[Len(work.requests)]
<1>1. (work.requests # <<>> /\ last.asked)
      <=> (merges # {} /\ log[Repo!Max(merges)].content = "asked")
  <2>1. CASE work.requests = <<>> /\ \A i \in DOMAIN log : log[i].op # "merge"
    BY <2>1
  <2>2. CASE work.requests # <<>>
    <3>1. PICK i \in DOMAIN log :
            /\ log[i].op = "merge" /\ (log[i].content = "asked" <=> last.asked)
            /\ \A j \in DOMAIN log : log[j].op = "merge" => j <= i
      BY <2>2 DEF RepoInv, RepoMerged
    <3>2. merges \in SUBSET Nat /\ i \in merges /\ \A j \in merges : j <= i
      BY <3>1 DEF RepoInv
    <3>3. Repo!Max(merges) = i
      <4> HIDE DEF merges
      <4> QED BY <3>2, LatestIs
    <3> HIDE DEF last, merges
    <3> QED BY <2>2, <3>1, <3>2, <3>3
  <2> QED BY <2>1, <2>2 DEF RepoInv, RepoMerged
<1>2. ASSUME NEW f \in Repo!Files
      PROVE  work.files[f] = "asked"
             <=> (edits(f) # {} /\ log[Repo!Max(edits(f))].content = "asked")
  <2>1. CASE work.files[f] = "seed" /\ \A i \in DOMAIN log : log[i].file # f
    BY <2>1
  <2>2. CASE \E i \in DOMAIN log : log[i].file = f
    <3>1. PICK i \in DOMAIN log : /\ log[i].file = f /\ log[i].content = work.files[f]
                                  /\ \A j \in DOMAIN log : log[j].file = f => j <= i
      BY <2>2 DEF RepoInv, RepoEdited
    <3> DEFINE S == edits(f)
    <3>2. S \in SUBSET Nat /\ i \in S /\ \A j \in S : j <= i
      BY <3>1 DEF RepoInv
    <3>3. Repo!Max(S) = i
      <4> HIDE DEF S
      <4> QED BY <3>2, LatestIs
    <3> QED BY <3>1, <3>2, <3>3
  <2> QED BY <2>1, <2>2 DEF RepoInv, RepoEdited
<1>3. task.files \subseteq Repo!Files
  BY DEF RepoInv, Repo!Questions, Repo!Files
<1> HIDE DEF merges, edits, last
<1>4. Repo!Evaluate(work) = "passed"
      <=> (work.requests # <<>> /\ last.asked) /\ \A f \in task.files : work.files[f] = "asked"
  BY DEF Repo!Evaluate, Repo!Satisfied, last
<1>5. Repo!Deserved
      <=> /\ merges # {} /\ log[Repo!Max(merges)].content = "asked"
          /\ \A f \in task.files : edits(f) # {} /\ log[Repo!Max(edits(f))].content = "asked"
  BY DEF Repo!Deserved, merges, edits
<1> QED BY <1>1, <1>2, <1>3, <1>4, <1>5

-----------------------------------------------------------------------------
(* The spreadsheet *)

SheetsRecord ==
    [op : {"upsert", "remove", "validate"}, row : Sheets!Orders \cup {"all"},
     value : {"right", "wrong", "absent"}]

SheetsCell(o) == IF o \in DOMAIN work.rows THEN work.rows[o] ELSE "absent"

(* The validation is the latest one, of the rows as they were then. *)
SheetsValidated ==
    \/ ~work.validated.passed /\ \A i \in DOMAIN log : log[i].op # "validate"
    \/ \E i \in DOMAIN log :
        /\ log[i].op = "validate"
        /\ \A j \in DOMAIN log : log[j].op = "validate" => j <= i
        /\ work.validated.passed <=> Sheets!ExactAfter(i)
        /\ work.validated.passed => work.validated.count = Cardinality(DOMAIN task.rows)

SheetsShape ==
    /\ work = [rows |-> work.rows, validated |-> work.validated]
    /\ DOMAIN work.rows \subseteq Sheets!Orders
    /\ work.rows \in [DOMAIN work.rows -> {"right", "wrong"}]
    /\ work.validated \in [passed : BOOLEAN, count : 0..Cardinality(Sheets!Orders)]

SheetsInv ==
    /\ Session!TypeOfEnvelope /\ Len(log) <= Requests["sheets-lite"]
    /\ task \in Sheets!Questions
    /\ SheetsShape
    /\ log \in Seq(SheetsRecord)
    /\ \A o \in Sheets!Orders : Sheets!Left(o, Len(log)) = SheetsCell(o)
    /\ SheetsValidated

(* The sets of orders are finite, and none is larger than all of them. *)
LEMMA OrdersCount ==
    /\ IsFiniteSet(Sheets!Orders) /\ Cardinality(Sheets!Orders) \in Nat
    /\ \A S \in SUBSET Sheets!Orders :
        IsFiniteSet(S) /\ Cardinality(S) \in 0..Cardinality(Sheets!Orders)
<1>1. Sheets!Orders = ({} \cup {"first"}) \cup {"second"} \cup {"third"}
  BY DEF Sheets!Orders
<1>2. IsFiniteSet(Sheets!Orders)
  BY <1>1, FS_EmptySet, FS_AddElement
<1> QED BY <1>2, FS_Subset, FS_CardinalityType

(* A question asks for rows that are right, of some of the orders. *)
LEMMA SheetsTask ==
    ASSUME NEW t \in Sheets!Questions
    PROVE  /\ DOMAIN t.rows \subseteq Sheets!Orders
           /\ t.rows = [o \in DOMAIN t.rows |-> "right"]
<1>1. PICK orders \in {{"first", "second"}, {"second", "third"}} : t = [rows |-> Sheets!Asked(orders)]
  BY DEF Sheets!Questions
<1> QED BY <1>1 DEF Sheets!Asked, Sheets!Orders

(* The rows are those asked for if and only if every cell is. *)
LEMMA SheetsExact ==
    ASSUME SheetsInv
    PROVE  Sheets!RowsAreExact(work) <=> Sheets!ExactAfter(Len(log))
<1> DEFINE D == DOMAIN task.rows
           E == DOMAIN work.rows
           R == task.rows
           W == work.rows
<1>1. D \subseteq Sheets!Orders /\ R = [o \in D |-> "right"]
  BY SheetsTask DEF SheetsInv
<1>2. E \subseteq Sheets!Orders /\ W \in [E -> {"right", "wrong"}]
  BY DEF SheetsInv, SheetsShape
<1>3. Sheets!ExactAfter(Len(log))
      <=> \A o \in Sheets!Orders : SheetsCell(o) = (IF o \in D THEN "right" ELSE "absent")
  BY DEF Sheets!ExactAfter, SheetsInv
<1>4. \A o \in Sheets!Orders : (o \in E => SheetsCell(o) = W[o])
                               /\ (o \notin E => SheetsCell(o) = "absent")
  BY DEF SheetsCell
<1>5. Sheets!RowsAreExact(work) <=> W = R
  BY DEF Sheets!RowsAreExact
<1> HIDE DEF D, E, R, W
<1>6. ASSUME W = R PROVE \A o \in Sheets!Orders : SheetsCell(o) = (IF o \in D THEN "right" ELSE "absent")
  <2>1. E = D
    BY <1>1, <1>2, <1>6
  <2> QED BY <1>1, <1>4, <1>6, <2>1
<1>7. ASSUME \A o \in Sheets!Orders : SheetsCell(o) = (IF o \in D THEN "right" ELSE "absent")
      PROVE  W = R
  <2>1. ASSUME NEW o \in Sheets!Orders PROVE (o \in E <=> o \in D) /\ (o \in E => W[o] = "right")
    <3>1. CASE o \in E
      <4>1. W[o] \in {"right", "wrong"} /\ SheetsCell(o) = W[o]
        BY <1>2, <1>4, <3>1
      <4> QED BY <1>7, <3>1, <4>1
    <3>2. CASE o \notin E
      BY <1>4, <1>7, <3>2
    <3> QED BY <3>1, <3>2
  <2>2. E = D
    BY <1>1, <1>2, <2>1
  <2>3. \A o \in D : W[o] = R[o]
    BY <1>1, <2>1, <2>2
  <2> QED BY <1>1, <1>2, <2>2, <2>3
<1> QED BY <1>3, <1>5, <1>6, <1>7

(* A session of the sheet starts in this invariant. *)
LEMMA SheetsStarts ==
    ASSUME Sheets!Init PROVE SheetsInv
<1> DEFINE w == [rows |-> [o \in {"first"} |-> "wrong"],
                 validated |-> [passed |-> FALSE, count |-> 0]]
<1>1. PICK t \in Sheets!Questions : Sheets!Fresh(t, w)
  BY DEF Sheets!Init
<1>2. log = <<>> /\ task = t /\ work = w /\ Session!TypeOfEnvelope
  BY <1>1 DEF Sheets!Fresh, Session!TypeOfEnvelope
<1>3. Len(log) = 0 /\ DOMAIN log = {} /\ log \in Seq(SheetsRecord)
  BY <1>2
<1>4. SheetsShape
  <2>1. 0 \in 0..Cardinality(Sheets!Orders)
    BY OrdersCount
  <2>2. w.validated \in [passed : BOOLEAN, count : 0..Cardinality(Sheets!Orders)]
    BY <2>1
  <2>3. w = [rows |-> w.rows, validated |-> w.validated]
    OBVIOUS
  <2>4. DOMAIN w.rows \subseteq Sheets!Orders /\ w.rows \in [DOMAIN w.rows -> {"right", "wrong"}]
    BY DEF Sheets!Orders
  <2> HIDE DEF w
  <2> QED BY <1>2, <2>2, <2>3, <2>4 DEF SheetsShape
<1>5. Requests["sheets-lite"] \in Nat
  BY RequestsAssumption
<1>6. SheetsValidated
  BY <1>2, <1>3 DEF SheetsValidated
<1>7. \A o \in Sheets!Orders : Sheets!Left(o, Len(log)) = SheetsCell(o)
  <2> TAKE o \in Sheets!Orders
  <2>1. {i \in 1..Len(log) : log[i].row = o} = {}
    BY <1>3
  <2> QED BY <1>2, <2>1 DEF Sheets!Left, SheetsCell
<1> QED BY <1>2, <1>3, <1>4, <1>5, <1>6, <1>7 DEF SheetsInv

(* A step that keeps the task, the requests and the work of the sheet      *)
(* keeps it.                                                               *)
LEMMA SheetsSame ==
    ASSUME SheetsInv, Session!TypeOfEnvelope', UNCHANGED <<task, log, work>> PROVE SheetsInv'
<1>1. Session!TypeOfEnvelope' /\ UNCHANGED <<task, log>>
  OBVIOUS
<1>2. work' = work
  OBVIOUS
<1>3. \A o, n : Sheets!Left(o, n)' = Sheets!Left(o, n)
  BY <1>1 DEF Sheets!Left
<1>4. \A n : Sheets!ExactAfter(n)' <=> Sheets!ExactAfter(n)
  BY <1>1, <1>3 DEF Sheets!ExactAfter
<1>5. \A o : SheetsCell(o)' = SheetsCell(o)
  BY <1>2 DEF SheetsCell
<1>6. SheetsValidated' /\ SheetsShape'
  BY <1>1, <1>2, <1>4 DEF SheetsInv, SheetsValidated, SheetsShape
<1>7. \A o \in Sheets!Orders : Sheets!Left(o, Len(log))' = SheetsCell(o)'
  BY <1>1, <1>3, <1>5 DEF SheetsInv
<1> QED BY <1>1, <1>6, <1>7 DEF SheetsInv

SheetsRequest ==
    \/ \E o \in Sheets!Orders :
        Sheets!Remove(o) \/ \E value \in {"right", "wrong"} : Sheets!Upsert(o, value)
    \/ Sheets!Validate

(* A step of the sheet is a request or one of the envelope, which judges   *)
(* as the evaluator says of the work.                                      *)
LEMMA SheetsSteps ==
    ASSUME Sheets!Next
    PROVE  \/ SheetsRequest
           \/ \E v \in {"passed", "failed"} : v = Sheets!Evaluate(work) /\ Rests(v, work)
<1>1. Sheets!Evaluate(work) \in {"passed", "failed"}
  BY DEF Sheets!Evaluate
<1>2. SheetsRequest \/ Rests(Sheets!Evaluate(work), work)
  BY DEF Sheets!Next, SheetsRequest, Rests, Sheets!Hydrate, Sheets!Complete, Session!Complete,
         Sheets!Recover, Session!Recover, Sheets!Judge, Session!Judge, Sheets!Answered,
         Session!Answered, Sheets!AnswerLost, Session!AnswerLost, Sheets!NotReached,
         Session!NotReached, Sheets!Stored, Session!Stored
<1> QED BY <1>1, <1>2

(* What an earlier request left a row with does not change. *)
LEMMA SheetsLeft ==
    ASSUME log \in Seq(SheetsRecord), NEW r \in SheetsRecord, log' = Append(log, r),
           NEW o \in Sheets!Orders
    PROVE  /\ \A n \in 0..Len(log) : Sheets!Left(o, n)' = Sheets!Left(o, n)
           /\ r.row = o => Sheets!Left(o, Len(log))' = r.value
           /\ r.row # o => Sheets!Left(o, Len(log))' = Sheets!Left(o, Len(log))
<1> DEFINE k == Len(log')
           W(n) == {i \in 1..n : log[i].row = o}
           V(n) == {i \in 1..n : log'[i].row = o}
<1>1. /\ Len(log) \in Nat /\ k = Len(log) + 1 /\ log'[k] = r
      /\ DOMAIN log = 1..Len(log) /\ \A i \in 1..Len(log) : log'[i] = log[i]
  BY LogGrows
<1>2. ASSUME NEW n \in 0..Len(log)
      PROVE  V(n) = W(n) /\ (W(n) # {} => Sheets!Max(W(n)) \in 1..Len(log))
  <2>1. V(n) = W(n)
    BY <1>1
  <2>2. ASSUME W(n) # {} PROVE Sheets!Max(W(n)) \in 1..Len(log)
    <3> DEFINE S == W(n)
    <3>1. n \in Nat /\ S \in SUBSET (0..n) /\ S \in SUBSET Nat /\ S # {}
          /\ S \subseteq 1..Len(log)
      BY <1>1, <2>2
    <3>2. PICK m \in S : \A i \in S : i <= m
      <4> HIDE DEF S
      <4> QED BY <3>1, LatestExists
    <3>3. Sheets!Max(S) = m
      <4> HIDE DEF S
      <4> QED BY <3>1, <3>2, LatestIs
    <3> QED BY <3>1, <3>2, <3>3
  <2> QED BY <2>1, <2>2
<1>3. ASSUME NEW n \in 0..Len(log)
      PROVE  Sheets!Left(o, n) = IF W(n) # {} THEN log'[Sheets!Max(W(n))].value
                                 ELSE IF o = "first" THEN "wrong" ELSE "absent"
  <2>1. W(n) # {} => log'[Sheets!Max(W(n))] = log[Sheets!Max(W(n))]
    BY <1>1, <1>2
  <2> QED BY <2>1 DEF Sheets!Left
<1>4. \A n : Sheets!Left(o, n)' = IF V(n) # {} THEN log'[Sheets!Max(V(n))].value
                                  ELSE IF o = "first" THEN "wrong" ELSE "absent"
  BY DEF Sheets!Left
<1>5. \A n \in 0..Len(log) : Sheets!Left(o, n)' = Sheets!Left(o, n)
  BY <1>2, <1>3, <1>4
<1>6. ASSUME r.row = o PROVE Sheets!Left(o, Len(log))' = r.value
  <2> DEFINE S == V(k)
  <2>1. k \in S /\ S \in SUBSET Nat /\ \A i \in S : i <= k
    BY <1>1, <1>6
  <2>2. Sheets!Max(S) = k
    <3> HIDE DEF S, k
    <3> QED BY <2>1, LatestIs
  <2> QED BY <1>1, <1>4, <2>1, <2>2
<1>7. ASSUME r.row # o PROVE Sheets!Left(o, Len(log))' = Sheets!Left(o, Len(log))
  <2>1. V(k) = W(Len(log)) /\ Len(log) \in 0..Len(log)
    BY <1>1, <1>7
  <2> QED BY <1>1, <1>3, <1>4, <2>1
<1> QED BY <1>5, <1>6, <1>7

(* Rows in which o has the value and the others are as they are. *)
SheetsWith(o, value, rows) ==
    /\ DOMAIN rows \subseteq Sheets!Orders /\ rows \in [DOMAIN rows -> {"right", "wrong"}]
    /\ \A p \in Sheets!Orders :
        (IF p \in DOMAIN rows THEN rows[p] ELSE "absent")
            = IF p = o THEN value ELSE SheetsCell(p)

(* A request that leaves one row as the log says it does keeps the         *)
(* invariant.                                                              *)
LEMMA SheetsWrites ==
    ASSUME SheetsInv, Len(log) < Requests["sheets-lite"],
           \E op \in {"upsert", "remove"}, o \in Sheets!Orders,
              value \in {"right", "wrong", "absent"} : \E rows :
              /\ SheetsWith(o, value, rows)
              /\ Accepted([op |-> op, row |-> o, value |-> value], [work EXCEPT !.rows = rows])
    PROVE  SheetsInv'
<1>0. PICK op \in {"upsert", "remove"}, o \in Sheets!Orders,
           value \in {"right", "wrong", "absent"} : \E rows :
              /\ SheetsWith(o, value, rows)
              /\ Accepted([op |-> op, row |-> o, value |-> value], [work EXCEPT !.rows = rows])
  OBVIOUS
<1>1. PICK rows :
        /\ SheetsWith(o, value, rows)
        /\ Accepted([op |-> op, row |-> o, value |-> value], [work EXCEPT !.rows = rows])
  BY <1>0, Zenon
<1> DEFINE r == [op |-> op, row |-> o, value |-> value]
           k == Len(log')
<1>2. log \in Seq(SheetsRecord) /\ r \in SheetsRecord
  BY DEF SheetsInv, SheetsRecord
<1>3. /\ log' \in Seq(SheetsRecord) /\ Len(log) \in Nat /\ k = Len(log) + 1
      /\ DOMAIN log = 1..Len(log) /\ DOMAIN log' = DOMAIN log \cup {k} /\ log'[k] = r
      /\ \A i \in DOMAIN log : log'[i] = log[i] /\ i < k
      /\ log' = Append(log, r) /\ task' = task
  <2> HIDE DEF r
  <2> QED BY <1>1, <1>2, LogGrows DEF Accepted, r
<1>4. /\ work'.rows = rows /\ work'.validated = work.validated
      /\ work' = [rows |-> rows, validated |-> work.validated]
  BY <1>1 DEF Accepted, SheetsInv, SheetsShape
<1>5. SheetsShape'
  BY <1>1, <1>4 DEF SheetsWith, SheetsInv, SheetsShape
<1>6. /\ \A n \in 0..Len(log), p \in Sheets!Orders : Sheets!Left(p, n)' = Sheets!Left(p, n)
      /\ \A p \in Sheets!Orders :
            Sheets!Left(p, Len(log))' = IF p = o THEN value ELSE Sheets!Left(p, Len(log))
  <2>1. r.row = o /\ r.value = value
    OBVIOUS
  <2> HIDE DEF r
  <2> QED BY <1>2, <1>3, <2>1, SheetsLeft
<1>7. \A p \in Sheets!Orders : Sheets!Left(p, Len(log))' = SheetsCell(p)'
  <2> TAKE p \in Sheets!Orders
  <2>1. SheetsCell(p)' = IF p = o THEN value ELSE SheetsCell(p)
    BY <1>1, <1>4 DEF SheetsCell, SheetsWith
  <2> QED BY <1>6, <2>1 DEF SheetsInv
<1>8. \A n \in 0..Len(log) : Sheets!ExactAfter(n)' <=> Sheets!ExactAfter(n)
  BY <1>3, <1>6 DEF Sheets!ExactAfter
<1>9. SheetsValidated'
  <2>1. CASE ~work.validated.passed /\ \A i \in DOMAIN log : log[i].op # "validate"
    BY <1>3, <1>4, <2>1 DEF SheetsValidated
  <2>2. CASE \E i \in DOMAIN log : log[i].op = "validate"
    <3>1. PICK i \in DOMAIN log :
            /\ log[i].op = "validate"
            /\ \A j \in DOMAIN log : log[j].op = "validate" => j <= i
            /\ work.validated.passed <=> Sheets!ExactAfter(i)
            /\ work.validated.passed => work.validated.count = Cardinality(DOMAIN task.rows)
      BY <2>2 DEF SheetsInv, SheetsValidated
    <3>2. \A j \in DOMAIN log' : log'[j].op = "validate" => j <= i
      BY <1>3, <3>1
    <3>3. i \in DOMAIN log' /\ log'[i].op = "validate" /\ (Sheets!ExactAfter(i)' <=> Sheets!ExactAfter(i))
      BY <1>3, <1>8, <3>1
    <3> QED BY <1>3, <1>4, <3>1, <3>2, <3>3 DEF SheetsValidated
  <2> QED BY <2>1, <2>2 DEF SheetsInv, SheetsValidated
<1>10. Session!TypeOfEnvelope'
  BY <1>1, AcceptedEnvelope DEF SheetsInv
<1>11. Len(log') <= Requests["sheets-lite"]
  BY <1>3, RequestsAssumption
<1> QED BY <1>3, <1>5, <1>7, <1>9, <1>10, <1>11 DEF SheetsInv

(* Writing a row is such a request. *)
LEMMA SheetsUpserts ==
    ASSUME SheetsInv, NEW o \in Sheets!Orders, NEW value \in {"right", "wrong"},
           Sheets!Upsert(o, value)
    PROVE  SheetsInv' /\ result' = result
<1> DEFINE rows == [r \in DOMAIN work.rows \cup {o} |-> IF r = o THEN value ELSE work.rows[r]]
<1>1. /\ Accepted([op |-> "upsert", row |-> o, value |-> value], [work EXCEPT !.rows = rows])
      /\ Len(log) < Requests["sheets-lite"] /\ result' = result
  BY DEF Sheets!Upsert, Sheets!Accept, Accepted
<1>2. SheetsWith(o, value, rows)
  BY DEF SheetsWith, SheetsCell, SheetsInv, SheetsShape
<1> HIDE DEF rows
<1>3. SheetsInv'
  <2>1. "upsert" \in {"upsert", "remove"} /\ value \in {"right", "wrong", "absent"}
    OBVIOUS
  <2> QED BY <1>1, <1>2, <2>1, SheetsWrites, Zenon
<1> QED BY <1>1, <1>3

(* And so is removing one. *)
LEMMA SheetsRemoves ==
    ASSUME SheetsInv, NEW o \in Sheets!Orders, Sheets!Remove(o)
    PROVE  SheetsInv' /\ result' = result
<1> DEFINE rows == Sheets!Restrict(work.rows, DOMAIN work.rows \ {o})
<1>1. /\ Accepted([op |-> "remove", row |-> o, value |-> "absent"], [work EXCEPT !.rows = rows])
      /\ Len(log) < Requests["sheets-lite"] /\ result' = result
  BY DEF Sheets!Remove, Sheets!Accept, Accepted
<1>2. SheetsWith(o, "absent", rows)
  BY DEF SheetsWith, SheetsCell, SheetsInv, SheetsShape, Sheets!Restrict
<1> HIDE DEF rows
<1>3. SheetsInv'
  <2>1. "remove" \in {"upsert", "remove"} /\ "absent" \in {"right", "wrong", "absent"}
    OBVIOUS
  <2> QED BY <1>1, <1>2, <2>1, SheetsWrites, Zenon
<1> QED BY <1>1, <1>3

(* A validation says whether the rows are exact after the requests so far, *)
(* so the invariant is kept.                                               *)
LEMMA SheetsValidates ==
    ASSUME SheetsInv, Sheets!Validate
    PROVE  SheetsInv' /\ result' = result
<1> DEFINE exact == Sheets!RowsAreExact(work)
           v == [passed |-> exact, count |-> Sheets!Cardinality(DOMAIN work.rows)]
           r == [op |-> "validate", row |-> "all", value |-> "absent"]
<1>0. PICK k \in Nat : k = Len(log) + 1
  BY DEF SheetsInv
<1>1. /\ Accepted(r, [work EXCEPT !.validated = v])
      /\ Len(log) < Requests["sheets-lite"]
  BY DEF Sheets!Validate, Sheets!Accept, Accepted, Sheets!RowsAreExact
<1>2. log \in Seq(SheetsRecord) /\ r \in SheetsRecord
  BY DEF SheetsInv, SheetsRecord
<1>3. /\ log' \in Seq(SheetsRecord) /\ Len(log) \in Nat /\ k = Len(log) + 1 /\ Len(log') = k
      /\ DOMAIN log = 1..Len(log) /\ DOMAIN log' = DOMAIN log \cup {k} /\ log'[k] = r
      /\ \A i \in DOMAIN log : log'[i] = log[i] /\ i < k
      /\ log' = Append(log, r) /\ task' = task /\ result' = result
  <2> HIDE DEF r
  <2> QED BY <1>0, <1>1, <1>2, LogGrows DEF Accepted
<1>4. v.passed \in BOOLEAN /\ v.count \in 0..Cardinality(Sheets!Orders)
      /\ (v.passed <=> exact) /\ v \in [passed : BOOLEAN, count : 0..Cardinality(Sheets!Orders)]
      /\ v.count = Cardinality(DOMAIN work.rows)
  <2>1. Sheets!Cardinality(DOMAIN work.rows) = Cardinality(DOMAIN work.rows)
    BY SameCardinality
  <2>2. Cardinality(DOMAIN work.rows) \in 0..Cardinality(Sheets!Orders)
    BY OrdersCount DEF SheetsInv, SheetsShape
  <2>3. exact \in BOOLEAN
    BY DEF Sheets!RowsAreExact
  <2> HIDE DEF exact
  <2> QED BY <2>1, <2>2, <2>3
<1>5. /\ work'.rows = work.rows /\ work'.validated = v
      /\ work' = [rows |-> work.rows, validated |-> v]
  <2> HIDE DEF v, r
  <2> QED BY <1>1 DEF Accepted, SheetsInv, SheetsShape
<1>6. SheetsShape'
  <2> HIDE DEF v
  <2> QED BY <1>4, <1>5 DEF SheetsInv, SheetsShape
<1>7. /\ \A n \in 0..Len(log), p \in Sheets!Orders : Sheets!Left(p, n)' = Sheets!Left(p, n)
      /\ \A p \in Sheets!Orders : Sheets!Left(p, Len(log))' = Sheets!Left(p, Len(log))
  <2>1. \A p \in Sheets!Orders : r.row # p
    BY DEF Sheets!Orders
  <2> HIDE DEF r
  <2> QED BY <1>2, <1>3, <2>1, SheetsLeft
<1>8. \A p \in Sheets!Orders : Sheets!Left(p, Len(log))' = SheetsCell(p)'
  BY <1>5, <1>7 DEF SheetsCell, SheetsInv
<1>9. Sheets!ExactAfter(k)' <=> exact
  <2>1. \A p \in Sheets!Orders : Sheets!Left(p, k)' = Sheets!Left(p, Len(log))
    <3>1. \A p : Sheets!Left(p, Len(log))' = Sheets!Left(p, k)'
      BY <1>3 DEF Sheets!Left
    <3> QED BY <1>7, <3>1
  <2>2. Sheets!ExactAfter(k)' <=> Sheets!ExactAfter(Len(log))
    BY <1>3, <2>1 DEF Sheets!ExactAfter
  <2> QED BY <2>2, SheetsExact
<1>10. exact => DOMAIN work.rows = DOMAIN task.rows
  BY DEF Sheets!RowsAreExact
<1>11. SheetsValidated'
  <2>1. k \in DOMAIN log' /\ log'[k].op = "validate" /\ \A j \in DOMAIN log' : j <= k
    BY <1>3
  <2>2. /\ work'.validated.passed <=> Sheets!ExactAfter(k)'
        /\ work'.validated.passed => work'.validated.count = Cardinality(DOMAIN task'.rows)
    <3> HIDE DEF v, exact
    <3> QED BY <1>3, <1>4, <1>5, <1>9, <1>10
  <2> QED BY <2>1, <2>2 DEF SheetsValidated
<1>12. Session!TypeOfEnvelope'
  BY <1>1, AcceptedEnvelope DEF SheetsInv
<1>13. Len(log') <= Requests["sheets-lite"]
  BY <1>1, <1>3, RequestsAssumption
<1> QED BY <1>3, <1>6, <1>8, <1>11, <1>12, <1>13 DEF SheetsInv

(* The evaluator passes exactly the work that the requests make deserved. *)
LEMMA SheetsJudged ==
    ASSUME SheetsInv PROVE Sheets!Evaluate(work) = "passed" <=> Sheets!Deserved
<1> DEFINE runs == {i \in DOMAIN log : log[i].op = "validate"}
           exact == Sheets!RowsAreExact(work)
<1>1. exact <=> Sheets!ExactAfter(Len(log))
  BY SheetsExact
<1>2. Sheets!Cardinality(DOMAIN work.rows) = Cardinality(DOMAIN work.rows)
  BY SameCardinality
<1>3. exact => DOMAIN work.rows = DOMAIN task.rows
  BY DEF Sheets!RowsAreExact
<1>4. Sheets!Evaluate(work) = "passed"
      <=> exact /\ work.validated.passed
          /\ work.validated.count = Sheets!Cardinality(DOMAIN work.rows)
  BY DEF Sheets!Evaluate
<1>5. Sheets!Deserved
      <=> runs # {} /\ Sheets!ExactAfter(Sheets!Max(runs)) /\ Sheets!ExactAfter(Len(log))
  BY DEF Sheets!Deserved
<1>6. CASE ~work.validated.passed /\ runs = {}
  BY <1>4, <1>5, <1>6
<1>7. CASE runs # {}
  <2>1. PICK i \in DOMAIN log :
          /\ log[i].op = "validate"
          /\ \A j \in DOMAIN log : log[j].op = "validate" => j <= i
          /\ work.validated.passed <=> Sheets!ExactAfter(i)
          /\ work.validated.passed => work.validated.count = Cardinality(DOMAIN task.rows)
    BY <1>7 DEF SheetsInv, SheetsValidated
  <2>2. runs \in SUBSET Nat /\ i \in runs /\ \A j \in runs : j <= i
    BY <2>1 DEF SheetsInv
  <2>3. Sheets!Max(runs) = i
    <3> HIDE DEF runs
    <3> QED BY <2>2, LatestIs
  <2> HIDE DEF exact, runs
  <2> QED BY <1>1, <1>2, <1>3, <1>4, <1>5, <1>7, <2>1, <2>3
<1> QED BY <1>6, <1>7 DEF SheetsInv, SheetsValidated

-----------------------------------------------------------------------------
(* The calendar *)

CalendarRecord ==
    [op : {"create", "update", "recheck"}, entry : Calendar!Entries, event : Nat]
CalendarEvent == [entry : Calendar!Entries, revision : Nat]
CalendarCheck == [event : Nat, baseline : Nat, updated : BOOLEAN]

CalendarWrite(i, e) == log[i].op # "recheck" /\ log[i].event = e

(* An event is as the latest request for it left it. *)
CalendarWritten(e) ==
    \E i \in DOMAIN log :
        /\ CalendarWrite(i, e) /\ log[i].entry = work.events[e].entry
        /\ \A j \in DOMAIN log : CalendarWrite(j, e) => j <= i

(* Before the request r, the entry was the tentative one. *)
CalendarTentative(r) ==
    \E i \in DOMAIN log :
        /\ CalendarWrite(i, 1) /\ i < r /\ log[i].entry = "tentative"
        /\ \A j \in DOMAIN log : CalendarWrite(j, 1) /\ j < r => j <= i

(* The rechecks from r to s saw the same revision, and the entry has been  *)
(* revised since if and only if it has been written since.                 *)
CalendarTracked(r, s, check) ==
    /\ r <= s /\ CalendarTentative(r)
    /\ \A j \in DOMAIN log : CalendarWrite(j, 1) => j < r \/ j > s
    /\ check.event = 1 /\ work.events[1].revision >= check.baseline
    /\ work.events[1].revision > check.baseline
       <=> \E j \in DOMAIN log : CalendarWrite(j, 1) /\ j > s

CalendarRechecks(S) ==
    S \subseteq DOMAIN log /\ \A i \in DOMAIN log : log[i].op = "recheck" <=> i \in S

CalendarOnce(r) == CalendarRechecks({r}) /\ CalendarTracked(r, r, work.checks[1])
CalendarTwice(r, s) ==
    r # s /\ CalendarRechecks({r, s}) /\ CalendarTracked(r, s, work.checks[2])

(* The availability is checked at most twice, the second time successfully. *)
CalendarChecked ==
    /\ Len(work.checks) <= 2
    /\ \A c \in DOMAIN work.checks : work.checks[c].updated <=> c = 2
    /\ Len(work.checks) = 0 => CalendarRechecks({})
    /\ Len(work.checks) = 1 => \E r \in DOMAIN log : CalendarOnce(r)
    /\ Len(work.checks) = 2 => \E r, s \in DOMAIN log : CalendarTwice(r, s)

CalendarShape ==
    /\ work = [events |-> work.events, checks |-> work.checks]
    /\ work.events \in Seq(CalendarEvent)
    /\ work.checks \in Seq(CalendarCheck)
    /\ \A e \in DOMAIN work.events : work.events[e].revision <= Len(log)
    /\ \A c \in DOMAIN work.checks :
        work.checks[c].event \in DOMAIN work.events /\ work.checks[c].baseline <= Len(log)

CalendarInv ==
    /\ Session!TypeOfEnvelope /\ Len(log) <= Requests["calendar-lite"]
    /\ task \in Calendar!Questions
    /\ CalendarShape
    /\ log \in Seq(CalendarRecord)
    /\ \A i \in DOMAIN log : log[i].op # "recheck" => log[i].event \in DOMAIN work.events
    /\ \A e \in DOMAIN work.events : CalendarWritten(e)
    /\ ~task.update => work.checks = <<>>
    /\ task.update => Len(work.events) <= 1
    /\ CalendarChecked

(* What the invariant says of a single event, a single check and the log. *)
LEMMA CalendarFacts ==
    ASSUME CalendarInv
    PROVE  /\ \A d \in DOMAIN work.events :
                /\ work.events[d].entry \in Calendar!Entries
                /\ work.events[d].revision \in Nat /\ work.events[d].revision <= Len(log)
           /\ \A c \in DOMAIN work.checks :
                /\ work.checks[c].event \in DOMAIN work.events
                /\ work.checks[c].baseline \in Nat /\ work.checks[c].baseline <= Len(log)
           /\ DOMAIN work.events = 1..Len(work.events) /\ Len(work.events) \in Nat
           /\ DOMAIN work.checks = 1..Len(work.checks) /\ Len(work.checks) \in Nat
           /\ Len(log) \in Nat /\ DOMAIN log = 1..Len(log)
<1>1. CalendarShape /\ log \in Seq(CalendarRecord)
  BY DEF CalendarInv
<1>2. \A d \in DOMAIN work.events : work.events[d] \in CalendarEvent
  BY <1>1, ElementOfSeq DEF CalendarShape
<1>3. \A c \in DOMAIN work.checks : work.checks[c] \in CalendarCheck
  BY <1>1, ElementOfSeq DEF CalendarShape
<1>4. /\ DOMAIN work.events = 1..Len(work.events) /\ Len(work.events) \in Nat
      /\ DOMAIN work.checks = 1..Len(work.checks) /\ Len(work.checks) \in Nat
      /\ Len(log) \in Nat /\ DOMAIN log = 1..Len(log)
  BY <1>1, LenProperties DEF CalendarShape
<1> QED BY <1>1, <1>2, <1>3, <1>4 DEF CalendarShape, CalendarEvent, CalendarCheck

(* A session of the calendar starts in this invariant. *)
LEMMA CalendarStarts ==
    ASSUME Calendar!Init PROVE CalendarInv
<1>1. PICK t \in Calendar!Questions : Calendar!Fresh(t, [events |-> <<>>, checks |-> <<>>])
  BY DEF Calendar!Init
<1>2. /\ log = <<>> /\ task = t /\ work = [events |-> <<>>, checks |-> <<>>]
      /\ Session!TypeOfEnvelope
  BY <1>1 DEF Calendar!Fresh, Session!TypeOfEnvelope
<1>3. Len(log) = 0 /\ DOMAIN log = {} /\ log \in Seq(CalendarRecord)
  BY <1>2
<1>4. CalendarShape /\ DOMAIN work.events = {} /\ Len(work.events) = 0 /\ work.checks = <<>>
  BY <1>2 DEF CalendarShape
<1>5. Requests["calendar-lite"] \in Nat
  BY RequestsAssumption
<1>6. CalendarChecked
  BY <1>3, <1>4 DEF CalendarChecked, CalendarRechecks, CalendarShape
<1> QED BY <1>2, <1>3, <1>4, <1>5, <1>6 DEF CalendarInv

(* A step that keeps the task, the requests and the work of the calendar   *)
(* keeps it.                                                               *)
LEMMA CalendarSame ==
    ASSUME CalendarInv, Session!TypeOfEnvelope', UNCHANGED <<task, log, work>> PROVE CalendarInv'
<1>1. Session!TypeOfEnvelope' /\ UNCHANGED <<task, log>>
  OBVIOUS
<1>2. work' = work
  OBVIOUS
<1>3. CalendarChecked'
  BY <1>1, <1>2 DEF CalendarInv, CalendarChecked, CalendarRechecks, CalendarTracked,
                    CalendarOnce, CalendarTwice,
                    CalendarTentative, CalendarWrite
<1>4. CalendarShape' /\ \A e : CalendarWritten(e)' <=> CalendarWritten(e)
  BY <1>1, <1>2 DEF CalendarInv, CalendarShape, CalendarWritten, CalendarWrite
<1> QED BY <1>1, <1>2, <1>3, <1>4 DEF CalendarInv

CalendarRequest ==
    \/ \E entry \in Calendar!Entries :
        \/ Calendar!Create(entry)
        \/ \E e \in 1..Requests["calendar-lite"] : Calendar!Update(e, entry)
    \/ Calendar!Recheck

(* A step of the calendar is a request or one of the envelope, which       *)
(* judges as the evaluator says of the work.                               *)
LEMMA CalendarSteps ==
    ASSUME Calendar!Next
    PROVE  \/ CalendarRequest
           \/ \E v \in {"passed", "failed"} : v = Calendar!Evaluate(work) /\ Rests(v, work)
<1>1. Calendar!Evaluate(work) \in {"passed", "failed"}
  BY DEF Calendar!Evaluate
<1>2. CalendarRequest \/ Rests(Calendar!Evaluate(work), work)
  BY DEF Calendar!Next, CalendarRequest, Rests, Calendar!Hydrate, Calendar!Complete,
         Session!Complete, Calendar!Recover, Session!Recover, Calendar!Judge, Session!Judge,
         Calendar!Answered, Session!Answered, Calendar!AnswerLost, Session!AnswerLost,
         Calendar!NotReached, Session!NotReached, Calendar!Stored, Session!Stored
<1> QED BY <1>1, <1>2

(* Events in which e has the entry, new or revised, and the others are as  *)
(* they are.                                                               *)
CalendarWith(e, entry, events) ==
    /\ events \in Seq(CalendarEvent)
    /\ e \in DOMAIN events /\ events[e].entry = entry
    /\ DOMAIN events = DOMAIN work.events \cup {e}
    /\ \A d \in DOMAIN work.events \ {e} : events[d] = work.events[d]
    /\ e \in DOMAIN work.events => events[e].revision = work.events[e].revision + 1
    /\ e \notin DOMAIN work.events => events[e].revision = 0
    /\ task.update => Len(events) <= 1 /\ e = 1

(* A request that leaves one event as the log says it does keeps the       *)
(* invariant: the checks are as old as they were.                          *)
LEMMA CalendarWrites ==
    ASSUME CalendarInv, Len(log) < Requests["calendar-lite"],
           \E op \in {"create", "update"}, e \in Nat, entry \in Calendar!Entries : \E events :
              /\ CalendarWith(e, entry, events)
              /\ Accepted([op |-> op, entry |-> entry, event |-> e],
                          [work EXCEPT !.events = events])
    PROVE  CalendarInv'
<1>op. PICK op \in {"create", "update"}, e \in Nat, entry \in Calendar!Entries : \E events :
              /\ CalendarWith(e, entry, events)
              /\ Accepted([op |-> op, entry |-> entry, event |-> e],
                          [work EXCEPT !.events = events])
  OBVIOUS
<1>1. PICK events :
        /\ CalendarWith(e, entry, events)
        /\ Accepted([op |-> op, entry |-> entry, event |-> e],
                    [work EXCEPT !.events = events])
  BY <1>op, Zenon
<1> DEFINE r == [op |-> op, entry |-> entry, event |-> e]
<1>2. log \in Seq(CalendarRecord) /\ r \in CalendarRecord
  BY DEF CalendarInv, CalendarRecord
<1>0. PICK k \in Nat : k = Len(log) + 1
  BY <1>2
<1>3. /\ log' \in Seq(CalendarRecord) /\ Len(log) \in Nat /\ k = Len(log) + 1 /\ Len(log') = k
      /\ DOMAIN log' = DOMAIN log \cup {k} /\ log'[k] = r
      /\ \A i \in DOMAIN log : log'[i] = log[i] /\ i < k /\ i \in Nat
      /\ task' = task /\ k \notin DOMAIN log
  <2> HIDE DEF r
  <2> QED BY <1>0, <1>1, <1>2, LogGrows DEF Accepted, r
<1>4. /\ work'.events = events /\ work'.checks = work.checks
      /\ work' = [events |-> events, checks |-> work.checks]
  BY <1>1 DEF Accepted, CalendarInv, CalendarShape
<1>5. /\ \A i \in DOMAIN log : \A d : CalendarWrite(i, d)' <=> CalendarWrite(i, d)
      /\ \A d : CalendarWrite(k, d)' <=> d = e
  BY <1>3 DEF CalendarWrite
<1>6. CalendarShape'
  <2>1. \A d \in DOMAIN events : events[d].revision <= k
    BY <1>1, <1>3, CalendarFacts DEF CalendarWith
  <2>2. \A c \in DOMAIN work.checks : work.checks[c].event \in DOMAIN events
                                      /\ work.checks[c].baseline <= k
    <3> TAKE c \in DOMAIN work.checks
    <3>1. /\ work.checks[c].event \in DOMAIN work.events
          /\ work.checks[c].baseline \in Nat /\ work.checks[c].baseline <= Len(log)
      BY CalendarFacts
    <3> QED BY <1>1, <1>3, <3>1 DEF CalendarWith
  <2> QED BY <1>1, <1>3, <1>4, <2>1, <2>2 DEF CalendarWith, CalendarInv, CalendarShape
<1>7. \A i \in DOMAIN log' : log'[i].op # "recheck" => log'[i].event \in DOMAIN work'.events
  BY <1>1, <1>3, <1>4 DEF CalendarWith, CalendarInv
<1>8. \A d \in DOMAIN work'.events : CalendarWritten(d)'
  <2> TAKE d \in DOMAIN work'.events
  <2>1. CASE d = e
    <3>1. /\ k \in DOMAIN log' /\ CalendarWrite(k, e)' /\ log'[k].entry = work'.events[e].entry
          /\ \A j \in DOMAIN log' : j <= k
      BY <1>1, <1>3, <1>4, <1>5 DEF CalendarWith
    <3> QED BY <2>1, <3>1 DEF CalendarWritten
  <2>2. CASE d # e
    <3>1. d \in DOMAIN work.events /\ work'.events[d] = work.events[d]
      BY <1>1, <1>4, <2>2 DEF CalendarWith
    <3>2. PICK i \in DOMAIN log : /\ CalendarWrite(i, d) /\ log[i].entry = work.events[d].entry
                                  /\ \A j \in DOMAIN log : CalendarWrite(j, d) => j <= i
      BY <3>1 DEF CalendarInv, CalendarWritten
    <3>3. \A j \in DOMAIN log' : CalendarWrite(j, d)' => j <= i
      BY <1>3, <1>5, <2>2, <3>2
    <3> QED BY <1>3, <1>5, <3>1, <3>2, <3>3 DEF CalendarWritten
  <2> QED BY <2>1, <2>2
<1>9. \A S : CalendarRechecks(S) => CalendarRechecks(S)'
  BY <1>3 DEF CalendarRechecks
<1>10. ASSUME NEW a \in DOMAIN log, NEW b \in DOMAIN log, NEW c \in DOMAIN work.checks,
              task.update, CalendarTracked(a, b, work.checks[c])
       PROVE  CalendarTracked(a, b, work.checks[c])'
  <2> DEFINE check == work.checks[c]
  <2>1. check.event = 1 /\ 1 \in DOMAIN work.events /\ check.baseline \in Nat /\ e = 1
        /\ work.events[1].revision \in Nat /\ work.events[1].revision >= check.baseline
        /\ work'.events[1].revision = work.events[1].revision + 1
    BY <1>1, <1>4, <1>10, CalendarFacts DEF CalendarTracked, CalendarWith
  <2>2. CalendarTentative(a)'
    <3>1. PICK i \in DOMAIN log :
            /\ CalendarWrite(i, 1) /\ i < a /\ log[i].entry = "tentative"
            /\ \A j \in DOMAIN log : CalendarWrite(j, 1) /\ j < a => j <= i
      BY <1>10 DEF CalendarTracked, CalendarTentative
    <3>2. \A j \in DOMAIN log' : CalendarWrite(j, 1)' /\ j < a => j <= i
      BY <1>3, <1>5, <3>1
    <3> QED BY <1>3, <1>5, <3>1, <3>2 DEF CalendarTentative
  <2>3. \A j \in DOMAIN log' : CalendarWrite(j, 1)' => j < a \/ j > b
    BY <1>3, <1>5, <1>10 DEF CalendarTracked
  <2>4. work'.events[1].revision > check.baseline
        /\ k \in DOMAIN log' /\ CalendarWrite(k, 1)' /\ k > b
    BY <1>3, <1>5, <2>1
  <2>5. work'.events[1].revision >= check.baseline /\ a <= b
    BY <1>10, <2>1 DEF CalendarTracked
  <2>6. work'.checks[c] = check
    BY <1>4
  <2> HIDE DEF check
  <2> QED BY <2>1, <2>2, <2>3, <2>4, <2>5, <2>6 DEF CalendarTracked
<1>11. CalendarChecked'
  <2>1. Len(work.checks) > 0 => task.update
    BY DEF CalendarInv
  <2>2. Len(work.checks) = 0 => CalendarRechecks({})'
    BY <1>9 DEF CalendarInv, CalendarChecked
  <2>3. ASSUME Len(work.checks) = 1 PROVE \E a \in DOMAIN log' : CalendarOnce(a)'
    <3>1. 1 \in DOMAIN work.checks /\ task.update
      BY <2>1, <2>3, CalendarFacts
    <3>2. PICK a \in DOMAIN log : CalendarOnce(a)
      BY <2>3 DEF CalendarInv, CalendarChecked
    <3>3. CalendarRechecks({a})' /\ CalendarTracked(a, a, work.checks[1])'
      BY <1>9, <1>10, <3>1, <3>2 DEF CalendarOnce
    <3> QED BY <1>3, <3>3 DEF CalendarOnce
  <2>4. ASSUME Len(work.checks) = 2 PROVE \E a, b \in DOMAIN log' : CalendarTwice(a, b)'
    <3>1. 2 \in DOMAIN work.checks /\ task.update
      BY <2>1, <2>4, CalendarFacts
    <3>2. PICK a, b \in DOMAIN log : CalendarTwice(a, b)
      BY <2>4 DEF CalendarInv, CalendarChecked
    <3>3. CalendarRechecks({a, b})' /\ CalendarTracked(a, b, work.checks[2])'
      BY <1>9, <1>10, <3>1, <3>2 DEF CalendarTwice
    <3> QED BY <1>3, <3>2, <3>3 DEF CalendarTwice
  <2> QED BY <1>4, <2>2, <2>3, <2>4 DEF CalendarInv, CalendarChecked
<1>12. Session!TypeOfEnvelope'
  BY <1>1, AcceptedEnvelope DEF CalendarInv
<1>13. Len(log') <= Requests["calendar-lite"]
  BY <1>3, RequestsAssumption
<1>14. (~task'.update => work'.checks = <<>>) /\ (task'.update => Len(work'.events) <= 1)
  BY <1>1, <1>3, <1>4 DEF CalendarInv, CalendarWith
<1> QED BY <1>3, <1>6, <1>7, <1>8, <1>11, <1>12, <1>13, <1>14 DEF CalendarInv

(* Creating an event is such a request. *)
LEMMA CalendarCreates ==
    ASSUME CalendarInv, NEW entry \in Calendar!Entries, Calendar!Create(entry)
    PROVE  CalendarInv' /\ result' = result
<1> DEFINE event == [entry |-> entry, revision |-> 0]
           e == Len(work.events) + 1
           events == Append(work.events, event)
<1>1. /\ Accepted([op |-> "create", entry |-> entry, event |-> e], [work EXCEPT !.events = events])
      /\ Len(log) < Requests["calendar-lite"] /\ result' = result
      /\ ~(task.update /\ work.events # <<>>)
  <2>1. (~task.update) \in BOOLEAN
    OBVIOUS
  <2> QED BY <2>1 DEF Calendar!Create, Calendar!Accept, Accepted, CalendarInv, Calendar!Questions
<1>2. work.events \in Seq(CalendarEvent) /\ event \in CalendarEvent /\ e \in Nat
  BY DEF CalendarInv, CalendarShape, CalendarEvent
<1>3. CalendarWith(e, entry, events)
  <2>1. /\ events \in Seq(CalendarEvent) /\ e \in DOMAIN events /\ events[e] = event
        /\ DOMAIN events = DOMAIN work.events \cup {e} /\ e \notin DOMAIN work.events
        /\ \A d \in DOMAIN work.events : events[d] = work.events[d]
        /\ Len(events) = e
    <3> HIDE DEF event
    <3> QED BY <1>2
  <2>2. task.update => e = 1
    BY <1>1, <1>2
  <2> HIDE DEF events, e
  <2> QED BY <2>1, <2>2 DEF CalendarWith
<1> HIDE DEF events, e, event
<1>4. CalendarInv'
  <2>1. "create" \in {"create", "update"}
    OBVIOUS
  <2> QED BY <1>1, <1>2, <1>3, <2>1, CalendarWrites, Zenon
<1> QED BY <1>1, <1>4

(* And so is updating one. *)
LEMMA CalendarUpdates ==
    ASSUME CalendarInv, NEW e \in Nat, NEW entry \in Calendar!Entries, Calendar!Update(e, entry)
    PROVE  CalendarInv' /\ result' = result
<1> DEFINE event == [entry |-> entry, revision |-> work.events[e].revision + 1]
           events == [work.events EXCEPT ![e] = event]
           w == [work EXCEPT !.events = events]
<1>1. work.events \in Seq(CalendarEvent) /\ e \in DOMAIN work.events
  BY DEF CalendarInv, CalendarShape, Calendar!Update
<1>2. event \in CalendarEvent
  BY <1>1, CalendarFacts DEF CalendarEvent
<1>3. /\ Accepted([op |-> "update", entry |-> entry, event |-> e], w)
      /\ Len(log) < Requests["calendar-lite"] /\ result' = result
  <2>1. w = [work EXCEPT !.events[e] = [entry |-> entry, revision |-> @.revision + 1]]
    BY <1>1 DEF CalendarInv, CalendarShape
  <2> HIDE DEF w
  <2>2. (Calendar!Evaluate(w) = "passed") \in BOOLEAN
    OBVIOUS
  <2> QED BY <2>1, <2>2 DEF Calendar!Update, Calendar!Accept, Accepted
<1>4. CalendarWith(e, entry, events)
  <2>1. /\ events \in Seq(CalendarEvent) /\ e \in DOMAIN events /\ events[e] = event
        /\ DOMAIN events = DOMAIN work.events
        /\ \A d \in DOMAIN work.events \ {e} : events[d] = work.events[d]
        /\ Len(events) = Len(work.events)
    <3> HIDE DEF event
    <3> QED BY <1>1, <1>2
  <2>2. task.update => e = 1 /\ Len(events) <= 1
    BY <1>1, <2>1 DEF CalendarInv
  <2> HIDE DEF events
  <2> QED BY <1>1, <2>1, <2>2 DEF CalendarWith
<1> HIDE DEF events, event
<1>5. CalendarInv'
  <2>1. "update" \in {"create", "update"}
    OBVIOUS
  <2> QED BY <1>3, <1>4, <2>1, CalendarWrites, Zenon
<1> QED BY <1>3, <1>5

(* A recheck adds a check of the event it tracks, and the last one that is *)
(* required reports the update; the invariant is kept.                     *)
LEMMA CalendarRechecked ==
    ASSUME CalendarInv, Calendar!Recheck
    PROVE  CalendarInv' /\ result' = result
<1> DEFINE first == work.checks = <<>>
           tentative == {e \in DOMAIN work.events : work.events[e].entry = "tentative"}
           tracked == IF first THEN Calendar!Min(tentative) ELSE work.checks[1].event
           baseline == IF first THEN work.events[tracked].revision ELSE work.checks[1].baseline
           r == [op |-> "recheck", entry |-> "tentative", event |-> tracked]
           check == Calendar!Check(tracked, baseline)
<1>1. /\ task.update /\ ~Calendar!Updated(work) /\ (first => tentative # {})
      /\ work.events[tracked].entry = "tentative" /\ work.events[tracked].revision = baseline
      /\ Accepted(r, [work EXCEPT !.checks = Append(@, check)])
      /\ Len(log) < Requests["calendar-lite"] /\ result' = result
  BY DEF Calendar!Recheck, Calendar!Accept, Accepted
<1>e. PICK n \in Nat, m \in Nat : n = Len(work.checks) /\ m = Len(work.events)
  BY CalendarFacts
<1>f. /\ DOMAIN work.events = 1..m /\ (m = 0 \/ m = 1)
      /\ DOMAIN work.checks = 1..n /\ (n = 0 \/ n = 1)
      /\ (first <=> n = 0)
  <2>0. DOMAIN work.events = 1..m /\ DOMAIN work.checks = 1..n
    BY <1>e, CalendarFacts
  <2>1. n # 2
    <3>1. \A c \in DOMAIN work.checks : ~work.checks[c].updated
      BY <1>1 DEF Calendar!Updated
    <3>2. ~(2 \in DOMAIN work.checks)
      BY <3>1 DEF CalendarInv, CalendarChecked
    <3> QED BY <2>0, <3>2
  <2>2. work.checks \in Seq(CalendarCheck)
    BY DEF CalendarInv, CalendarShape
  <2>3. n <= 2 /\ m <= 1
    BY <1>1, <1>e DEF CalendarInv, CalendarChecked
  <2>5. first <=> n = 0
    BY <1>e, <2>2
  <2> HIDE DEF first
  <2> QED BY <2>0, <2>1, <2>3, <2>5
<1>2. tracked = 1 /\ 1 \in DOMAIN work.events
  <2>1. CASE first
    <3>1. tentative = {1} /\ 1 \in DOMAIN work.events
      BY <1>1, <1>f, <2>1
    <3>2. Calendar!Min({1}) = 1
      BY EarliestIs
    <3> QED BY <2>1, <3>1, <3>2
  <2>2. CASE ~first
    <3>1. 1 \in DOMAIN work.checks /\ Len(work.checks) = 1
      BY <1>e, <1>f, <2>2
    <3>2. PICK a \in DOMAIN log : CalendarOnce(a)
      BY <3>1 DEF CalendarInv, CalendarChecked
    <3>3. work.checks[1].event = 1
      BY <3>2 DEF CalendarOnce, CalendarTracked
    <3>4. 1 \in DOMAIN work.events
      BY <3>1, <3>3, CalendarFacts
    <3> QED BY <2>2, <3>3, <3>4
  <2> QED BY <2>1, <2>2
<1>3. baseline \in Nat /\ baseline <= Len(log) /\ work.events[1].revision = baseline
      /\ work.events[1].entry = "tentative"
  <2>1. work.events[tracked].entry = "tentative" /\ work.events[tracked].revision = baseline
    BY <1>1
  <2> HIDE DEF tracked, baseline
  <2> QED BY <1>2, <2>1, CalendarFacts
<1>4. /\ check \in CalendarCheck /\ check.event = 1 /\ check.baseline = baseline
      /\ check.updated <=> n = 1
  <2>1. (n + 1 >= Calendar!RequiredRechecks) <=> n = 1
    BY <1>f DEF Calendar!RequiredRechecks
  <2> DEFINE late == n + 1 >= Calendar!RequiredRechecks
  <2>2. late \in BOOLEAN /\ check = [event |-> tracked, baseline |-> baseline, updated |-> late]
    BY <1>e DEF Calendar!Check
  <2> HIDE DEF late, tracked, baseline, check
  <2>3. check.updated = late /\ check \in CalendarCheck /\ check.event = 1 /\ check.baseline = baseline
    BY <1>2, <1>3, <2>2 DEF CalendarCheck
  <2>4. late <=> n = 1
    BY <2>1 DEF late
  <2> QED BY <2>3, <2>4
<1>5. r = [op |-> "recheck", entry |-> "tentative", event |-> 1]
  BY <1>2
<1> HIDE DEF r, check, baseline, tracked, tentative, first
<1>6. log \in Seq(CalendarRecord) /\ r \in CalendarRecord
  BY <1>5 DEF CalendarInv, CalendarRecord, Calendar!Entries
<1>0. PICK k \in Nat : k = Len(log) + 1
  BY <1>6
<1>7. /\ log' \in Seq(CalendarRecord) /\ Len(log) \in Nat /\ k = Len(log) + 1 /\ Len(log') = k
      /\ DOMAIN log' = DOMAIN log \cup {k} /\ log'[k].op = "recheck"
      /\ \A i \in DOMAIN log : log'[i] = log[i] /\ i < k /\ i \in Nat
      /\ task' = task /\ k \notin DOMAIN log
  BY <1>0, <1>1, <1>5, <1>6, LogGrows DEF Accepted
<1>8. /\ work' = [events |-> work.events, checks |-> Append(work.checks, check)]
      /\ work'.events = work.events /\ work'.checks = Append(work.checks, check)
  BY <1>1 DEF Accepted, CalendarInv, CalendarShape
<1>9. /\ work'.checks \in Seq(CalendarCheck) /\ Len(work'.checks) = n + 1
      /\ DOMAIN work'.checks = 1..n + 1
      /\ work'.checks[n + 1] = check
      /\ \A c \in DOMAIN work.checks : work'.checks[c] = work.checks[c]
  <2>1. work.checks \in Seq(CalendarCheck)
    BY DEF CalendarInv, CalendarShape
  <2> QED BY <1>4, <1>8, <1>e, <2>1
<1>10. /\ \A i \in DOMAIN log : \A d : CalendarWrite(i, d)' <=> CalendarWrite(i, d)
       /\ \A d : ~CalendarWrite(k, d)'
  BY <1>7 DEF CalendarWrite
<1>11. CalendarShape'
  <2>1. \A e \in DOMAIN work'.events : work'.events[e].revision <= Len(log')
    BY <1>7, <1>8, CalendarFacts
  <2>2. \A c \in DOMAIN work'.checks :
            work'.checks[c].event \in DOMAIN work'.events /\ work'.checks[c].baseline <= Len(log')
    <3> TAKE c \in DOMAIN work'.checks
    <3>1. CASE c = n + 1
      BY <1>2, <1>3, <1>4, <1>7, <1>8, <1>9, <3>1
    <3>2. CASE c \in DOMAIN work.checks
      <4>1. /\ work.checks[c].event \in DOMAIN work.events
            /\ work.checks[c].baseline \in Nat /\ work.checks[c].baseline <= Len(log)
        BY <3>2, CalendarFacts
      <4> QED BY <1>7, <1>8, <1>9, <3>2, <4>1
    <3> QED BY <1>f, <1>9, <3>1, <3>2
  <2>3. work.events \in Seq(CalendarEvent)
    BY DEF CalendarInv, CalendarShape
  <2> QED BY <1>8, <1>9, <2>1, <2>2, <2>3 DEF CalendarShape
<1>12. \A i \in DOMAIN log' : log'[i].op # "recheck" => log'[i].event \in DOMAIN work'.events
  BY <1>7, <1>8 DEF CalendarInv
<1>13. \A d \in DOMAIN work'.events : CalendarWritten(d)'
  <2> TAKE d \in DOMAIN work'.events
  <2>1. PICK i \in DOMAIN log : /\ CalendarWrite(i, d) /\ log[i].entry = work.events[d].entry
                                /\ \A j \in DOMAIN log : CalendarWrite(j, d) => j <= i
    BY <1>8 DEF CalendarInv, CalendarWritten
  <2>2. \A j \in DOMAIN log' : CalendarWrite(j, d)' => j <= i
    BY <1>7, <1>10, <2>1
  <2> QED BY <1>7, <1>8, <1>10, <2>1, <2>2 DEF CalendarWritten
<1>14. \A S : CalendarRechecks(S) => CalendarRechecks(S \cup {k})'
  BY <1>7 DEF CalendarRechecks
<1>15. ASSUME n = 0 PROVE CalendarOnce(k)'
  <2>1. CalendarRechecks({k})'
    <3>1. CalendarRechecks({}) /\ {} \cup {k} = {k}
      BY <1>e, <1>15 DEF CalendarInv, CalendarChecked
    <3> QED BY <1>14, <3>1
  <2>2. CalendarTentative(k)'
    <3>1. PICK i \in DOMAIN log : /\ CalendarWrite(i, 1) /\ log[i].entry = "tentative"
                                  /\ \A j \in DOMAIN log : CalendarWrite(j, 1) => j <= i
      BY <1>2, <1>3 DEF CalendarInv, CalendarWritten
    <3>2. \A j \in DOMAIN log' : CalendarWrite(j, 1)' => j <= i
      BY <1>7, <1>10, <3>1
    <3> QED BY <1>7, <1>10, <3>1, <3>2 DEF CalendarTentative
  <2>3. \A j \in DOMAIN log' : CalendarWrite(j, 1)' => j < k /\ ~(j > k)
    BY <1>7, <1>10
  <2>4. work'.checks[1] = check
    BY <1>9, <1>15
  <2>5. CalendarTracked(k, k, work.checks[1])'
    BY <1>0, <1>3, <1>4, <1>8, <2>2, <2>3, <2>4 DEF CalendarTracked
  <2> QED BY <2>1, <2>5 DEF CalendarOnce
<1>16. ASSUME n = 1, NEW a \in DOMAIN log, CalendarOnce(a)
       PROVE  CalendarTwice(a, k)'
  <2>1. CalendarRechecks({a, k})'
    <3>1. CalendarRechecks({a}) /\ {a} \cup {k} = {a, k}
      BY <1>16 DEF CalendarOnce
    <3> QED BY <1>14, <3>1
  <2>2. baseline = work.checks[1].baseline
    BY <1>f, <1>16 DEF baseline
  <2>3. \A j \in DOMAIN log : CalendarWrite(j, 1) => j < a
    BY <1>3, <1>7, <1>16, <2>2 DEF CalendarOnce, CalendarTracked
  <2>4. CalendarTentative(a)'
    <3>1. PICK i \in DOMAIN log :
            /\ CalendarWrite(i, 1) /\ i < a /\ log[i].entry = "tentative"
            /\ \A j \in DOMAIN log : CalendarWrite(j, 1) /\ j < a => j <= i
      BY <1>16 DEF CalendarOnce, CalendarTracked, CalendarTentative
    <3>2. \A j \in DOMAIN log' : CalendarWrite(j, 1)' /\ j < a => j <= i
      BY <1>7, <1>10, <3>1
    <3> QED BY <1>7, <1>10, <3>1, <3>2 DEF CalendarTentative
  <2>5. \A j \in DOMAIN log' : CalendarWrite(j, 1)' => j < a /\ ~(j > k)
    BY <1>7, <1>10, <2>3
  <2>6. work'.checks[2] = check
    BY <1>9, <1>16
  <2>7. CalendarTracked(a, k, work.checks[2])'
    <3>1. /\ work'.events[1].revision = baseline /\ work'.checks[2].baseline = baseline
          /\ work'.checks[2].event = 1
      BY <1>3, <1>4, <1>8, <2>6
    <3>2. ~(work'.events[1].revision > work'.checks[2].baseline)
          /\ work'.events[1].revision >= work'.checks[2].baseline
      BY <1>3, <3>1
    <3>3. ~\E j \in DOMAIN log' : CalendarWrite(j, 1)' /\ j > k
      BY <2>5
    <3>4. a <= k /\ \A j \in DOMAIN log' : CalendarWrite(j, 1)' => j < a \/ j > k
      BY <1>7, <2>5
    <3> QED BY <2>4, <3>1, <3>2, <3>3, <3>4 DEF CalendarTracked
  <2>8. a # k
    BY <1>7
  <2> QED BY <2>1, <2>7, <2>8 DEF CalendarTwice
<1>17. CalendarChecked'
  <2>1. \A c \in DOMAIN work'.checks : work'.checks[c].updated <=> c = 2
    <3> TAKE c \in DOMAIN work'.checks
    <3>1. CASE c = n + 1
      <4>1. work'.checks[c].updated <=> n = 1
        BY <1>4, <1>9, <3>1
      <4> QED BY <1>f, <3>1, <4>1
    <3>2. CASE c \in DOMAIN work.checks
      BY <1>9, <3>2 DEF CalendarInv, CalendarChecked
    <3> QED BY <1>f, <1>9, <3>1, <3>2
  <2>2. CASE n = 0
    <3>1. \E a \in DOMAIN log' : CalendarOnce(a)'
      BY <1>7, <1>15, <2>2
    <3>2. Len(work'.checks) = 1
      BY <1>9, <2>2
    <3> QED BY <2>1, <3>1, <3>2 DEF CalendarChecked
  <2>3. CASE n = 1
    <3>1. PICK a \in DOMAIN log : CalendarOnce(a)
      BY <1>e, <2>3 DEF CalendarInv, CalendarChecked
    <3>2. \E b, c \in DOMAIN log' : CalendarTwice(b, c)'
      BY <1>7, <1>16, <2>3, <3>1
    <3>3. Len(work'.checks) = 2
      BY <1>9, <2>3
    <3> QED BY <2>1, <3>2, <3>3 DEF CalendarChecked
  <2> QED BY <1>f, <2>2, <2>3
<1>18. Session!TypeOfEnvelope'
  BY <1>1, AcceptedEnvelope DEF CalendarInv
<1>19. Len(log') <= Requests["calendar-lite"]
  BY <1>1, <1>7, RequestsAssumption
<1>20. (~task'.update => work'.checks = <<>>) /\ (task'.update => Len(work'.events) <= 1)
  BY <1>1, <1>7, <1>8 DEF CalendarInv
<1> QED BY <1>1, <1>7, <1>11, <1>12, <1>13, <1>17, <1>18, <1>19, <1>20 DEF CalendarInv

(* Every request the application accepts keeps the invariant and stores no *)
(* result.                                                                 *)
LEMMA CalendarRequested ==
    ASSUME CalendarInv, CalendarRequest PROVE CalendarInv' /\ result' = result
  BY CalendarCreates, CalendarUpdates, CalendarRechecked, RequestsAssumption DEF CalendarRequest

(* Without an actor the evaluator looks for the entry in any event. *)
LEMMA CalendarJudgedAlone ==
    ASSUME CalendarInv, ~task.update
    PROVE  Calendar!Evaluate(work) = "passed" <=> Calendar!Deserved
<1> DEFINE matches == {e \in DOMAIN work.events : work.events[e].entry = "asked"}
<1>1. Calendar!Evaluate(work) = "passed" <=> matches # {}
  BY DEF Calendar!Evaluate
<1>2. Calendar!Deserved
      <=> \E i \in DOMAIN log : /\ log[i].entry = "asked"
                                /\ \A j \in DOMAIN log : CalendarWrite(j, log[i].event) => j <= i
  BY DEF Calendar!Deserved, Calendar!Writes, CalendarWrite
<1>3. \A i \in DOMAIN log : log[i].op # "recheck"
  BY CalendarFacts DEF CalendarInv, CalendarChecked, CalendarRechecks
<1>4. ASSUME NEW e \in matches
      PROVE  \E i \in DOMAIN log : /\ log[i].entry = "asked"
                                   /\ \A j \in DOMAIN log : CalendarWrite(j, log[i].event) => j <= i
  BY DEF CalendarInv, CalendarWritten, CalendarWrite
<1>5. ASSUME NEW i \in DOMAIN log, log[i].entry = "asked",
             \A j \in DOMAIN log : CalendarWrite(j, log[i].event) => j <= i
      PROVE  log[i].event \in matches
  <2> DEFINE e == log[i].event
  <2>1. e \in DOMAIN work.events
    BY <1>3 DEF CalendarInv
  <2>2. PICK k \in DOMAIN log : /\ CalendarWrite(k, e) /\ log[k].entry = work.events[e].entry
                                /\ \A j \in DOMAIN log : CalendarWrite(j, e) => j <= k
    BY <2>1 DEF CalendarInv, CalendarWritten
  <2>3. CalendarWrite(i, e)
    BY <1>3 DEF CalendarWrite
  <2>4. i <= k /\ k <= i /\ i \in Nat /\ k \in Nat
    BY <1>5, <2>2, <2>3, CalendarFacts
  <2>5. i = k
    BY <2>4
  <2> QED BY <1>5, <2>1, <2>2, <2>5
<1> QED BY <1>1, <1>2, <1>4, <1>5

(* With one, it wants the entry revised after the rechecks. *)
LEMMA CalendarJudgedTogether ==
    ASSUME CalendarInv, task.update
    PROVE  Calendar!Evaluate(work) = "passed" <=> Calendar!Deserved
<1> DEFINE matches == {e \in DOMAIN work.events : work.events[e].entry = "asked"}
           updated == {c \in DOMAIN work.checks : work.checks[c].updated}
           R == Calendar!At("recheck")
           W == Calendar!Writes(1)
<1>e. PICK n \in Nat, m \in Nat : n = Len(work.checks) /\ m = Len(work.events)
  BY CalendarFacts
<1>f. /\ DOMAIN work.events = 1..m /\ m <= 1 /\ DOMAIN work.checks = 1..n /\ n <= 2
      /\ updated = {c \in 1..n : c = 2}
  BY <1>e, CalendarFacts DEF CalendarInv, CalendarChecked
<1>1. Calendar!Evaluate(work) = "passed"
      <=> /\ matches # {} /\ n >= Calendar!RequiredRechecks /\ updated # {}
          /\ Calendar!Min(matches) = work.checks[Calendar!Min(updated)].event
          /\ work.events[Calendar!Min(matches)].revision > work.checks[Calendar!Min(updated)].baseline
          /\ m = 1
  BY <1>e DEF Calendar!Evaluate
<1>2. Calendar!Deserved
      <=> /\ R # {} /\ Calendar!Cardinality(R) >= Calendar!RequiredRechecks
          /\ log[Calendar!Max({i \in W : i < Calendar!Min(R)})].entry = "tentative"
          /\ \A i \in W : i < Calendar!Min(R) \/ i > Calendar!Max(R)
          /\ Calendar!Max(W) > Calendar!Max(R)
          /\ log[Calendar!Max(W)].entry = "asked"
  BY DEF Calendar!Deserved
<1>3. /\ R = {i \in DOMAIN log : log[i].op = "recheck"}
      /\ W = {i \in DOMAIN log : CalendarWrite(i, 1)}
      /\ DOMAIN log \subseteq Nat
  BY CalendarFacts DEF Calendar!At, Calendar!Writes, CalendarWrite
<1>4. \A S : Calendar!Cardinality(S) = Cardinality(S)
  BY SameCardinality
<1> HIDE DEF matches, updated, R, W
<1>5. CASE n = 0
  <2>1. R = {}
    BY <1>3, <1>5, <1>e DEF CalendarInv, CalendarChecked, CalendarRechecks
  <2>2. updated = {}
    BY <1>5, <1>f
  <2> QED BY <1>1, <1>2, <2>1, <2>2
<1>6. CASE n = 1
  <2>1. PICK r \in DOMAIN log : CalendarOnce(r)
    BY <1>6, <1>e DEF CalendarInv, CalendarChecked
  <2>2. R = {r}
    BY <1>3, <2>1 DEF CalendarOnce, CalendarRechecks
  <2>3. Cardinality(R) = 1
    BY <2>2, FS_Singleton
  <2>4. updated = {}
    BY <1>6, <1>f
  <2> QED BY <1>1, <1>2, <1>4, <2>3, <2>4 DEF Calendar!RequiredRechecks
<1>7. CASE n = 2
  <2>1. PICK r, s \in DOMAIN log : CalendarTwice(r, s)
    BY <1>7, <1>e DEF CalendarInv, CalendarChecked
  <2>2. R = {r, s} /\ r # s /\ r <= s /\ r \in Nat /\ s \in Nat /\ CalendarTentative(r)
        /\ \A j \in W : j < r \/ j > s
    BY <1>3, <2>1 DEF CalendarTwice, CalendarRechecks, CalendarTracked
  <2>3. Cardinality(R) = 2
    BY <2>2, PairCount
  <2>4. Calendar!Min(R) = r /\ Calendar!Max(R) = s
    BY <2>2, EarliestIs, LatestIs
  <2>5. updated = {2} /\ Calendar!Min(updated) = 2
    <3>1. updated = {2}
      BY <1>7, <1>f
    <3> QED BY <3>1, EarliestIs
  <2>6. log[Calendar!Max({i \in W : i < r})].entry = "tentative"
    <3> DEFINE S == {i \in W : i < r}
    <3>1. PICK i \in DOMAIN log :
            /\ CalendarWrite(i, 1) /\ i < r /\ log[i].entry = "tentative"
            /\ \A j \in DOMAIN log : CalendarWrite(j, 1) /\ j < r => j <= i
      BY <2>2 DEF CalendarTentative
    <3>2. S \in SUBSET Nat /\ i \in S /\ \A j \in S : j <= i
      BY <1>3, <3>1
    <3>3. Calendar!Max(S) = i
      <4> HIDE DEF S
      <4> QED BY <3>2, LatestIs
    <3> QED BY <3>1, <3>3
  <2>7. 1 \in DOMAIN work.events /\ m = 1 /\ work.checks[2].event = 1
    <3>1. 2 \in DOMAIN work.checks /\ work.checks[2].event = 1
      BY <1>7, <1>f, <2>1 DEF CalendarTwice, CalendarTracked
    <3>2. 1 \in DOMAIN work.events
      BY <3>1, CalendarFacts
    <3> QED BY <1>f, <3>1, <3>2
  <2>8. PICK k \in DOMAIN log : /\ CalendarWrite(k, 1) /\ log[k].entry = work.events[1].entry
                                /\ \A j \in DOMAIN log : CalendarWrite(j, 1) => j <= k
    BY <2>7 DEF CalendarInv, CalendarWritten
  <2>9. Calendar!Max(W) = k /\ k \in W /\ W \in SUBSET Nat
    <3>1. W \in SUBSET Nat /\ k \in W /\ \A j \in W : j <= k
      BY <1>3, <2>8
    <3> QED BY <3>1, LatestIs
  <2>10. work.events[1].revision > work.checks[2].baseline <=> k > s
    <3>1. work.events[1].revision > work.checks[2].baseline
          <=> \E j \in DOMAIN log : CalendarWrite(j, 1) /\ j > s
      BY <2>1 DEF CalendarTwice, CalendarTracked
    <3>2. ASSUME NEW j \in DOMAIN log, CalendarWrite(j, 1), j > s PROVE k > s
      <4>1. j <= k /\ j \in Nat /\ k \in Nat
        BY <1>3, <2>8, <3>2
      <4> QED BY <2>2, <3>2, <4>1
    <3> QED BY <2>8, <3>1, <3>2
  <2>11. CASE work.events[1].entry = "asked"
    <3>1. matches = {1} /\ Calendar!Min(matches) = 1
      <4>1. matches = {1}
        BY <1>f, <2>7, <2>11 DEF matches
      <4> QED BY <4>1, EarliestIs
    <3>2. n >= Calendar!RequiredRechecks /\ Cardinality(R) >= Calendar!RequiredRechecks
      BY <1>7, <2>3 DEF Calendar!RequiredRechecks
    <3>3. Calendar!Evaluate(work) = "passed" <=> k > s
      BY <1>1, <2>5, <2>7, <2>10, <3>1, <3>2
    <3>4. Calendar!Deserved <=> k > s
      BY <1>2, <1>4, <2>2, <2>4, <2>6, <2>8, <2>9, <2>11, <3>2
    <3> QED BY <3>3, <3>4
  <2>12. CASE work.events[1].entry # "asked"
    <3>1. matches = {}
      BY <1>f, <2>7, <2>12 DEF matches
    <3> QED BY <1>1, <1>2, <2>8, <2>9, <2>12, <3>1
  <2> QED BY <2>11, <2>12
<1> QED BY <1>5, <1>6, <1>7, <1>f

(* The evaluator passes exactly the work that the requests make deserved,  *)
(* with an actor and without.                                              *)
LEMMA CalendarJudged ==
    ASSUME CalendarInv PROVE Calendar!Evaluate(work) = "passed" <=> Calendar!Deserved
  BY CalendarJudgedAlone, CalendarJudgedTogether

-----------------------------------------------------------------------------
(* The shop *)

Goods == {"fit", "other", "scarce"}
Cart == [Goods -> Nat]

(* The products, and what they cost. *)
LEMMA ShoppingGoods ==
    /\ Shopping!Products = Goods
    /\ Shopping!Price["fit"] = 10 /\ Shopping!Price["other"] = 5 /\ Shopping!Price["scarce"] = 5
  BY DEF Shopping!Products, Shopping!Price, Goods

(* A sum over the products, in the order in which it is taken. *)
Taken(T) == CHOOSE x \in T : TRUE
Tally(g, f) ==
    g = [T \in SUBSET Goods |-> IF T = {} THEN 0 ELSE f[Taken(T)] + g[T \ {Taken(T)}]]

(* The element a sum takes next is one of those it has left. *)
LEMMA TakenIn == ASSUME NEW T, T # {} PROVE Taken(T) \in T
  BY DEF Taken

(* What a tally is of each subset of the products. *)
LEMMA TallyAt ==
    ASSUME NEW f, NEW g, Tally(g, f), NEW T \in SUBSET Goods
    PROVE  /\ T = {} => g[T] = 0
           /\ T # {} => g[T] = f[Taken(T)] + g[T \ {Taken(T)}]
  BY DEF Tally

(* A tally takes some product out of those left. *)
LEMMA TallyTakes ==
    ASSUME NEW f, NEW g, Tally(g, f), NEW T \in SUBSET Goods, T # {}
    PROVE  \E x \in T : g[T] = f[x] + g[T \ {x}]
<1>1. Taken(T) \in T /\ g[T] = f[Taken(T)] + g[T \ {Taken(T)}]
  BY TakenIn, TallyAt
<1> QED BY <1>1

(* In whatever order the products are taken, the tally of all of them is   *)
(* the sum over the three.                                                 *)
LEMMA TallyIs ==
    ASSUME NEW f \in [Goods -> Nat], NEW g, Tally(g, f)
    PROVE  g[Goods] = f["fit"] + f["other"] + f["scarce"]
<1>0. f["fit"] \in Nat /\ f["other"] \in Nat /\ f["scarce"] \in Nat
  BY DEF Goods
<1>1. ASSUME NEW a \in Goods PROVE g[{a}] = f[a]
  <2>1. PICK x \in {a} : g[{a}] = f[x] + g[{a} \ {x}]
    BY TallyTakes
  <2>2. {} \in SUBSET Goods /\ x = a /\ {a} \ {a} = {}
    OBVIOUS
  <2>3. g[{}] = 0
    BY <2>2, TallyAt, Zenon
  <2>4. f[a] \in Nat
    OBVIOUS
  <2> QED BY <2>1, <2>2, <2>3, <2>4
<1>2. ASSUME NEW a \in Goods, NEW b \in Goods, a # b PROVE g[{a, b}] = f[a] + f[b]
  <2>1. PICK x \in {a, b} : g[{a, b}] = f[x] + g[{a, b} \ {x}]
    BY TallyTakes
  <2>2. f[a] \in Nat /\ f[b] \in Nat /\ g[{a}] = f[a] /\ g[{b}] = f[b]
    BY <1>1
  <2>3. CASE x = a
    <3>1. {a, b} \ {x} = {b}
      BY <1>2, <2>3
    <3>2. g[{a, b}] = f[a] + g[{b}]
      BY <2>1, <2>3, <3>1
    <3> QED BY <2>2, <3>2
  <2>4. CASE x = b
    <3>1. {a, b} \ {x} = {a}
      BY <1>2, <2>4
    <3>2. g[{a, b}] = f[b] + g[{a}]
      BY <2>1, <2>4, <3>1
    <3> QED BY <2>2, <3>2
  <2> QED BY <2>3, <2>4
<1>3. /\ g[{"other", "scarce"}] = f["other"] + f["scarce"]
      /\ g[{"fit", "scarce"}] = f["fit"] + f["scarce"]
      /\ g[{"fit", "other"}] = f["fit"] + f["other"]
  BY <1>2 DEF Goods
<1>4. PICK x \in Goods : g[Goods] = f[x] + g[Goods \ {x}]
  <2>1. Goods # {} /\ Goods \in SUBSET Goods
    BY DEF Goods
  <2> QED BY <2>1, TallyTakes
<1>5. CASE x = "fit"
  <2>1. Goods \ {x} = {"other", "scarce"}
    BY <1>5 DEF Goods
  <2>2. g[Goods] = f["fit"] + g[{"other", "scarce"}]
    BY <1>4, <1>5, <2>1
  <2> QED BY <1>0, <1>3, <2>2
<1>6. CASE x = "other"
  <2>1. Goods \ {x} = {"fit", "scarce"}
    BY <1>6 DEF Goods
  <2>2. g[Goods] = f["other"] + g[{"fit", "scarce"}]
    BY <1>4, <1>6, <2>1
  <2> QED BY <1>0, <1>3, <2>2
<1>7. CASE x = "scarce"
  <2>1. Goods \ {x} = {"fit", "other"}
    BY <1>7 DEF Goods
  <2>2. g[Goods] = f["scarce"] + g[{"fit", "other"}]
    BY <1>4, <1>7, <2>1
  <2> QED BY <1>0, <1>3, <2>2
<1> QED BY <1>5, <1>6, <1>7 DEF Goods

(* There is such a tally. *)
LEMMA TallyExists ==
    ASSUME NEW f \in [Goods -> Nat] PROVE \E g : Tally(g, f)
<1> DEFINE part(T, p) == IF p \in T THEN f[p] ELSE 0
           sum(T) == part(T, "fit") + part(T, "other") + part(T, "scarce")
           g == [T \in SUBSET Goods |-> sum(T)]
<1>1. f["fit"] \in Nat /\ f["other"] \in Nat /\ f["scarce"] \in Nat
  BY DEF Goods
<1>2. ASSUME NEW T \in SUBSET Goods
      PROVE  g[T] = IF T = {} THEN 0 ELSE f[Taken(T)] + g[T \ {Taken(T)}]
  <2>1. CASE T = {}
    BY <2>1
  <2>2. CASE T # {}
    <3> DEFINE U == T \ {Taken(T)}
    <3>1. Taken(T) \in T
      BY <2>2, TakenIn
    <3>2. g[T] = sum(T) /\ g[U] = sum(U)
      OBVIOUS
    <3>3. /\ \A p : p # Taken(T) => part(U, p) = part(T, p)
          /\ part(U, Taken(T)) = 0 /\ part(T, Taken(T)) = f[Taken(T)]
      BY <3>1
    <3>4. Taken(T) = "fit" \/ Taken(T) = "other" \/ Taken(T) = "scarce"
      BY <3>1 DEF Goods
    <3>5. /\ part(T, "fit") \in Nat /\ part(T, "other") \in Nat /\ part(T, "scarce") \in Nat
          /\ part(U, "fit") \in Nat /\ part(U, "other") \in Nat /\ part(U, "scarce") \in Nat
      BY <1>1
    <3>6. sum(T) = f[Taken(T)] + sum(U)
      <4> HIDE DEF U, part
      <4> QED BY <1>1, <3>3, <3>4, <3>5
    <3> QED BY <2>2, <3>2, <3>6
  <2> QED BY <2>1, <2>2
<1>3. Tally(g, f)
  <2>1. g = [T \in SUBSET Goods |-> g[T]]
    OBVIOUS
  <2> HIDE DEF g
  <2> QED BY <1>2, <2>1 DEF Tally
<1> QED BY <1>3

(* The units of a cart are those of its three products. *)
LEMMA ShoppingUnits ==
    ASSUME NEW items \in Cart
    PROVE  Shopping!Units(items) = items["fit"] + items["other"] + items["scarce"]
<1> DEFINE A(g) == g = [T \in SUBSET Goods |->
                        IF T = {} THEN 0 ELSE items[Taken(T)] + g[T \ {Taken(T)}]]
<1>1. Shopping!Units(items) = (CHOOSE g : A(g))[Goods]
  BY ShoppingGoods DEF Shopping!Units, Shopping!MapThenSumSet, Shopping!MapThenFoldSet, Taken
<1>2. \E g : A(g)
  BY TallyExists DEF Tally, Cart
<1>3. Tally((CHOOSE g : A(g)), items)
  BY <1>2 DEF Tally
<1>4. items \in [Goods -> Nat]
  BY DEF Cart
<1> HIDE DEF A
<1> QED BY <1>1, <1>3, <1>4, TallyIs

(* And its subtotal is the sum of their prices. *)
LEMMA ShoppingSubtotal ==
    ASSUME NEW items \in Cart
    PROVE  Shopping!Subtotal(items) = 10 * items["fit"] + 5 * items["other"] + 5 * items["scarce"]
<1> DEFINE f == [p \in Goods |-> items[p] * Shopping!Price[p]]
           A(g) == g = [T \in SUBSET Goods |->
                        IF T = {} THEN 0
                        ELSE items[Taken(T)] * Shopping!Price[Taken(T)] + g[T \ {Taken(T)}]]
<1>1. Shopping!Subtotal(items) = (CHOOSE g : A(g))[Goods]
  BY ShoppingGoods DEF Shopping!Subtotal, Shopping!MapThenSumSet, Shopping!MapThenFoldSet, Taken
<1>2. /\ f \in [Goods -> Nat] /\ f["fit"] = 10 * items["fit"]
      /\ f["other"] = 5 * items["other"] /\ f["scarce"] = 5 * items["scarce"]
  BY ShoppingGoods DEF Cart, Goods
<1>3. \A T \in SUBSET Goods : T # {} => f[Taken(T)] = items[Taken(T)] * Shopping!Price[Taken(T)]
  BY TakenIn
<1>4. \A g : A(g) <=> Tally(g, f)
  <2> HIDE DEF f
  <2> QED BY <1>3 DEF Tally
<1>5. \E g : A(g)
  <2> HIDE DEF A, f
  <2> QED BY <1>2, <1>4, TallyExists
<1>6. Tally((CHOOSE g : A(g)), f)
  <2>1. A(CHOOSE g : A(g))
    BY <1>5
  <2> HIDE DEF f
  <2> QED BY <1>4, <2>1
<1> HIDE DEF A, f
<1> QED BY <1>1, <1>2, <1>6, TallyIs

(* What the shop charges. *)
LEMMA ShoppingAmounts ==
    ASSUME NEW items \in Cart
    PROVE  /\ Shopping!Subtotal(items) \in Nat /\ Shopping!Discount(items, FALSE) = 0
           /\ Shopping!Discount(items, TRUE) = (Shopping!Subtotal(items) * 20) \div 100
           /\ \A c \in BOOLEAN : /\ Shopping!Discount(items, c) \in Nat
                                 /\ Shopping!Discount(items, c) <= Shopping!Subtotal(items)
<1> DEFINE s == Shopping!Subtotal(items)
<1>1. s \in Nat
  BY ShoppingSubtotal DEF Cart, Goods
<1>2. /\ Shopping!Discount(items, FALSE) = 0 /\ 0 \in Nat
      /\ Shopping!Discount(items, TRUE) = (s * 20) \div 100
  BY DEF Shopping!Discount, Shopping!DiscountPercent
<1> HIDE DEF s
<1>3. (s * 20) \div 100 \in Nat /\ (s * 20) \div 100 <= s
  BY <1>1
<1>4. /\ Shopping!Discount(items, TRUE) \in Nat /\ Shopping!Discount(items, TRUE) <= s
      /\ Shopping!Discount(items, FALSE) \in Nat /\ Shopping!Discount(items, FALSE) <= s
  <2> DEFINE d == (s * 20) \div 100
  <2>1. d \in Nat /\ d <= s /\ Shopping!Discount(items, TRUE) = d
    BY <1>2, <1>3, Zenon
  <2>2. 0 <= s
    BY <1>1
  <2> HIDE DEF d
  <2> QED BY <1>2, <2>1, <2>2, Zenon
<1>5. \A c \in BOOLEAN : c = TRUE \/ c = FALSE
  OBVIOUS
<1>6. \A c \in BOOLEAN : Shopping!Discount(items, c) \in Nat /\ Shopping!Discount(items, c) <= s
  BY <1>4, <1>5, Zenon
<1> QED BY <1>1, <1>2, <1>6 DEF s

(* The cost of shipping is a number. *)
LEMMA ShoppingShipping ==
    ASSUME task \in Shopping!Questions, NEW items, NEW method
    PROVE  Shopping!ShippingCost(items, method) \in Nat
<1>1. task.fee \in Nat
  BY DEF Shopping!Questions
<1> QED BY <1>1 DEF Shopping!ShippingCost

ShoppingMethods == {"standard", "express"}
ShoppingOrder ==
    [items : Cart, method : ShoppingMethods, coupon : BOOLEAN,
     discount : Nat, shipping : Nat, total : Nat]
ShoppingRecord ==
    [op : {"add", "set", "checkout"}, on : Goods \cup ShoppingMethods, items : Cart,
     coupon : BOOLEAN, quantity : Nat]

InStock(items) == \A p \in Goods : items[p] <= Shopping!Stock[p]

(* An order is charged for as the shop does, and of what was in stock. *)
ShoppingCharged(n) ==
    LET order == work.orders[n]
    IN  /\ InStock(order.items)
        /\ order.discount = Shopping!Discount(order.items, order.coupon)
        /\ order.shipping = Shopping!ShippingCost(order.items, order.method)
        /\ order.total = Shopping!Subtotal(order.items) - order.discount + order.shipping

ShoppingBuys(i) == log[i].op = "checkout"

(* The latest order is the latest checkout. *)
ShoppingBought ==
    LET order == work.orders[Len(work.orders)]
    IN  \E i \in DOMAIN log :
            /\ ShoppingBuys(i) /\ \A j \in DOMAIN log : ShoppingBuys(j) => j <= i
            /\ log[i].items = order.items /\ log[i].on = order.method
            /\ log[i].coupon = order.coupon

ShoppingShape ==
    /\ work = [cart |-> work.cart, orders |-> work.orders]
    /\ work.cart \in Cart /\ InStock(work.cart)
    /\ work.orders \in Seq(ShoppingOrder)

ShoppingInv ==
    /\ Session!TypeOfEnvelope /\ Len(log) <= Requests["shopping-lite"]
    /\ task \in Shopping!Questions
    /\ ShoppingShape
    /\ log \in Seq(ShoppingRecord)
    /\ \A n \in DOMAIN work.orders : ShoppingCharged(n)
    /\ work.orders = <<>> => \A i \in DOMAIN log : ~ShoppingBuys(i)
    /\ work.orders # <<>> => ShoppingBought

(* The stock is a number of each product, and an empty cart is in stock. *)
LEMMA ShoppingStock ==
    /\ Shopping!Stock["fit"] \in Nat /\ Shopping!Stock["other"] \in Nat
    /\ Shopping!Stock["scarce"] = 1
    /\ Shopping!Empty \in Cart /\ InStock(Shopping!Empty)
<1>1. Requests["shopping-lite"] \in Nat
  BY RequestsAssumption
<1>2. /\ Shopping!Stock["fit"] \in Nat /\ Shopping!Stock["other"] \in Nat
      /\ Shopping!Stock["scarce"] = 1
  BY <1>1 DEF Shopping!Stock, Shopping!MaxQuantity
<1>3. Shopping!Empty = [p \in Goods |-> 0]
  BY ShoppingGoods DEF Shopping!Empty
<1> QED BY <1>2, <1>3 DEF InStock, Goods, Cart

(* A session of the shop starts in this invariant. *)
LEMMA ShoppingStarts ==
    ASSUME Shopping!Init PROVE ShoppingInv
<1> DEFINE w == [cart |-> Shopping!Empty, orders |-> <<>>]
<1>1. PICK t \in Shopping!Questions : Shopping!Fresh(t, w)
  BY DEF Shopping!Init
<1>2. log = <<>> /\ task = t /\ work = w /\ Session!TypeOfEnvelope
  BY <1>1 DEF Shopping!Fresh, Session!TypeOfEnvelope
<1>3. Len(log) = 0 /\ DOMAIN log = {} /\ log \in Seq(ShoppingRecord)
  BY <1>2
<1>4. ShoppingShape /\ work.orders = <<>> /\ DOMAIN work.orders = {}
  BY <1>2, ShoppingStock DEF ShoppingShape
<1>5. Requests["shopping-lite"] \in Nat
  BY RequestsAssumption
<1> QED BY <1>2, <1>3, <1>4, <1>5 DEF ShoppingInv

(* A step that keeps the task, the requests and the work of the shop keeps *)
(* it.                                                                     *)
LEMMA ShoppingSame ==
    ASSUME ShoppingInv, Session!TypeOfEnvelope', UNCHANGED <<task, log, work>> PROVE ShoppingInv'
<1>1. Session!TypeOfEnvelope' /\ UNCHANGED <<task, log>>
  OBVIOUS
<1>2. work' = work
  OBVIOUS
<1>3. /\ ShoppingShape' /\ (ShoppingBought' <=> ShoppingBought)
      /\ \A n : ShoppingCharged(n)' <=> ShoppingCharged(n)
      /\ \A i : ShoppingBuys(i)' <=> ShoppingBuys(i)
  BY <1>1, <1>2 DEF ShoppingInv, ShoppingShape, ShoppingBought, ShoppingCharged, ShoppingBuys,
                    Shopping!ShippingCost
<1> QED BY <1>1, <1>2, <1>3 DEF ShoppingInv

ShoppingRequest ==
    \/ \E p \in Shopping!Products :
        Shopping!Add(p) \/ \E q \in 0..Shopping!MaxQuantity : Shopping!SetQuantity(p, q)
    \/ \E method \in ShoppingMethods, coupon \in BOOLEAN : Shopping!Checkout(method, coupon)

(* A step of the shop is a request or one of the envelope, which judges as *)
(* the evaluator says of the work.                                         *)
LEMMA ShoppingSteps ==
    ASSUME Shopping!Next
    PROVE  \/ ShoppingRequest
           \/ \E v \in {"passed", "failed"} : v = Shopping!Evaluate(work) /\ Rests(v, work)
<1>1. Shopping!Evaluate(work) \in {"passed", "failed"}
  BY DEF Shopping!Evaluate
<1>2. ShoppingRequest \/ Rests(Shopping!Evaluate(work), work)
  BY DEF Shopping!Next, ShoppingRequest, ShoppingMethods, Rests, Shopping!Hydrate, Shopping!Complete,
         Session!Complete, Shopping!Recover, Session!Recover, Shopping!Judge, Session!Judge,
         Shopping!Answered, Session!Answered, Shopping!AnswerLost, Session!AnswerLost,
         Shopping!NotReached, Session!NotReached, Shopping!Stored, Session!Stored
<1> QED BY <1>1, <1>2

(* A request that only changes the cart, within the stock, keeps the       *)
(* invariant.                                                              *)
LEMMA ShoppingFills ==
    ASSUME ShoppingInv, Len(log) < Requests["shopping-lite"],
           \E op \in {"add", "set"}, p \in Goods, q \in Nat, cart \in Cart :
              /\ InStock(cart)
              /\ Accepted([op |-> op, on |-> p, items |-> work.cart, coupon |-> FALSE,
                           quantity |-> q], [work EXCEPT !.cart = cart])
    PROVE  ShoppingInv'
<1>1. PICK op \in {"add", "set"}, p \in Goods, q \in Nat, cart \in Cart :
              /\ InStock(cart)
              /\ Accepted([op |-> op, on |-> p, items |-> work.cart, coupon |-> FALSE,
                           quantity |-> q], [work EXCEPT !.cart = cart])
  OBVIOUS
<1> DEFINE r == [op |-> op, on |-> p, items |-> work.cart, coupon |-> FALSE, quantity |-> q]
<1>2. log \in Seq(ShoppingRecord) /\ r \in ShoppingRecord
  BY DEF ShoppingInv, ShoppingShape, ShoppingRecord
<1>0. PICK k \in Nat : k = Len(log) + 1
  BY <1>2
<1>3. /\ log' \in Seq(ShoppingRecord) /\ Len(log) \in Nat /\ k = Len(log) + 1 /\ Len(log') = k
      /\ DOMAIN log' = DOMAIN log \cup {k} /\ log'[k] = r
      /\ \A i \in DOMAIN log : log'[i] = log[i]
      /\ task' = task
  <2> HIDE DEF r
  <2> QED BY <1>0, <1>1, <1>2, LogGrows DEF Accepted, r
<1>4. work' = [cart |-> cart, orders |-> work.orders] /\ work'.orders = work.orders
  BY <1>1 DEF Accepted, ShoppingInv, ShoppingShape
<1>5. \A i \in DOMAIN log : ShoppingBuys(i)' <=> ShoppingBuys(i)
  BY <1>3 DEF ShoppingBuys
<1>6. ~ShoppingBuys(k)'
  BY <1>3 DEF ShoppingBuys
<1>7. ShoppingShape'
  BY <1>1, <1>4 DEF ShoppingInv, ShoppingShape
<1>8. \A n \in DOMAIN work'.orders : ShoppingCharged(n)'
  BY <1>3, <1>4 DEF ShoppingInv, ShoppingCharged, Shopping!ShippingCost
<1>9. work'.orders = <<>> => \A i \in DOMAIN log' : ~ShoppingBuys(i)'
  BY <1>3, <1>4, <1>5, <1>6 DEF ShoppingInv
<1>10. work'.orders # <<>> => ShoppingBought'
  <2> HAVE work'.orders # <<>>
  <2> DEFINE order == work.orders[Len(work.orders)]
  <2>1. PICK i \in DOMAIN log :
            /\ ShoppingBuys(i) /\ \A j \in DOMAIN log : ShoppingBuys(j) => j <= i
            /\ log[i].items = order.items /\ log[i].on = order.method
            /\ log[i].coupon = order.coupon
    BY <1>4 DEF ShoppingInv, ShoppingBought
  <2>2. \A j \in DOMAIN log' : ShoppingBuys(j)' => j <= i
    BY <1>3, <1>5, <1>6, <2>1
  <2>3. order = work'.orders[Len(work'.orders)] /\ log'[i] = log[i] /\ i \in DOMAIN log'
        /\ ShoppingBuys(i)'
    BY <1>3, <1>4, <1>5, <2>1
  <2> HIDE DEF order
  <2> QED BY <2>1, <2>2, <2>3 DEF ShoppingBought
<1>11. Session!TypeOfEnvelope'
  BY <1>1, AcceptedEnvelope DEF ShoppingInv
<1>12. Len(log') <= Requests["shopping-lite"]
  BY <1>3, RequestsAssumption
<1> QED BY <1>3, <1>7, <1>8, <1>9, <1>10, <1>11, <1>12 DEF ShoppingInv

(* Adding a unit is such a request. *)
LEMMA ShoppingAdds ==
    ASSUME ShoppingInv, NEW p \in Goods, Shopping!Add(p)
    PROVE  ShoppingInv' /\ result' = result
<1> DEFINE cart == [work.cart EXCEPT ![p] = @ + 1]
<1>1. work.cart \in Cart /\ InStock(work.cart) /\ "add" \in {"add", "set"} /\ 1 \in Nat
  BY DEF ShoppingInv, ShoppingShape
<1>2. cart \in Cart /\ InStock(cart)
  BY <1>1 DEF Cart, InStock, Shopping!Add
<1>3. /\ Len(log) < Requests["shopping-lite"] /\ result' = result
      /\ Accepted([op |-> "add", on |-> p, items |-> work.cart, coupon |-> FALSE,
                   quantity |-> 1], [work EXCEPT !.cart = cart])
  BY DEF Shopping!Add, Shopping!Accept, Shopping!Request, Accepted
<1> HIDE DEF cart
<1>4. ShoppingInv'
  BY <1>1, <1>2, <1>3, ShoppingFills, Zenon
<1> QED BY <1>3, <1>4

(* And so is setting a quantity. *)
LEMMA ShoppingSets ==
    ASSUME ShoppingInv, NEW p \in Goods, NEW q \in 0..Shopping!MaxQuantity,
           Shopping!SetQuantity(p, q)
    PROVE  ShoppingInv' /\ result' = result
<1> DEFINE cart == [work.cart EXCEPT ![p] = q]
<1>1. work.cart \in Cart /\ InStock(work.cart) /\ "set" \in {"add", "set"} /\ q \in Nat
  BY DEF ShoppingInv, ShoppingShape
<1>2. cart \in Cart /\ InStock(cart)
  BY <1>1 DEF Cart, InStock, Shopping!SetQuantity
<1>3. /\ Len(log) < Requests["shopping-lite"] /\ result' = result
      /\ Accepted([op |-> "set", on |-> p, items |-> work.cart, coupon |-> FALSE,
                   quantity |-> q], [work EXCEPT !.cart = cart])
  BY DEF Shopping!SetQuantity, Shopping!Accept, Shopping!Request, Accepted
<1> HIDE DEF cart
<1>4. ShoppingInv'
  BY <1>1, <1>2, <1>3, ShoppingFills, Zenon
<1> QED BY <1>3, <1>4

(* A checkout appends an order whose amounts are those of the cart, and    *)
(* logs the cart: the latest order is again what the latest checkout       *)
(* bought.                                                                 *)
LEMMA ShoppingSells ==
    ASSUME ShoppingInv, NEW method \in ShoppingMethods, NEW coupon \in BOOLEAN,
           Shopping!Checkout(method, coupon)
    PROVE  ShoppingInv' /\ result' = result
<1> DEFINE items == work.cart
           discount == Shopping!Discount(items, coupon)
           shipping == Shopping!ShippingCost(items, method)
           total == Shopping!Subtotal(items) - discount + shipping
           order == [items |-> items, method |-> method, coupon |-> coupon,
                     discount |-> discount, shipping |-> shipping, total |-> total]
           orders == Append(work.orders, order)
           r == [op |-> "checkout", on |-> method, items |-> items, coupon |-> coupon,
                 quantity |-> 0]
<1>1. Accepted(r, [cart |-> Shopping!Empty, orders |-> orders])
      /\ Len(log) < Requests["shopping-lite"] /\ result' = result
  BY DEF Shopping!Checkout, Shopping!Accept, Shopping!Request, Accepted
<1>2. items \in Cart /\ InStock(items) /\ task \in Shopping!Questions
  BY DEF ShoppingInv, ShoppingShape
<1>3. discount \in Nat /\ shipping \in Nat /\ total \in Nat
  <2>1. discount \in Nat /\ Shopping!Subtotal(items) \in Nat /\ discount <= Shopping!Subtotal(items)
    BY <1>2, ShoppingAmounts, Zenon
  <2>2. shipping \in Nat
    BY <1>2, ShoppingShipping
  <2> HIDE DEF discount, shipping
  <2> QED BY <2>1, <2>2
<1> HIDE DEF discount, shipping, total, items
<1>4. order \in ShoppingOrder
  BY <1>2, <1>3 DEF ShoppingOrder
<1>5. r \in ShoppingRecord /\ log \in Seq(ShoppingRecord) /\ work.orders \in Seq(ShoppingOrder)
  BY <1>2 DEF ShoppingRecord, ShoppingInv, ShoppingShape
<1>6. /\ order.items = items /\ order.method = method /\ order.coupon = coupon
      /\ order.discount = discount /\ order.shipping = shipping /\ order.total = total
      /\ r.op = "checkout" /\ r.items = items /\ r.on = method /\ r.coupon = coupon
  OBVIOUS
<1> HIDE DEF order, r
<1>7. PICK n \in Nat, k \in Nat : n = Len(work.orders) + 1 /\ k = Len(log) + 1
  BY <1>5
<1>8. /\ orders \in Seq(ShoppingOrder) /\ Len(orders) = n /\ orders # <<>>
      /\ DOMAIN orders = DOMAIN work.orders \cup {n} /\ orders[n] = order
      /\ \A m \in DOMAIN work.orders : orders[m] = work.orders[m]
  BY <1>4, <1>5, <1>7
<1>9. /\ log' \in Seq(ShoppingRecord) /\ Len(log') = k /\ DOMAIN log' = DOMAIN log \cup {k}
      /\ log'[k] = r /\ \A i \in DOMAIN log : log'[i] = log[i] /\ i < k
      /\ \A i \in DOMAIN log : i \in Nat
  BY <1>1, <1>5, <1>7, LogGrows DEF Accepted
<1> HIDE DEF orders
<1>10. work' = [cart |-> Shopping!Empty, orders |-> orders] /\ task' = task
  BY <1>1 DEF Accepted
<1>11. ShoppingShape'
  BY <1>8, <1>10, ShoppingStock DEF ShoppingShape
<1>12. \A m \in DOMAIN work'.orders : ShoppingCharged(m)'
  <2> TAKE m \in DOMAIN work'.orders
  <2>1. CASE m \in DOMAIN work.orders
    <3>1. work'.orders[m] = work.orders[m]
      BY <1>8, <1>10, <2>1
    <3> QED BY <1>10, <2>1, <3>1 DEF ShoppingInv, ShoppingCharged, Shopping!ShippingCost
  <2>2. CASE m = n
    <3>1. work'.orders[m] = order
      BY <1>8, <1>10, <2>2
    <3> QED BY <1>2, <1>6, <1>10, <3>1
            DEF ShoppingCharged, discount, shipping, total, Shopping!ShippingCost
  <2> QED BY <1>8, <1>10, <2>1, <2>2
<1>13. ShoppingBought'
  <2>1. k \in DOMAIN log' /\ ShoppingBuys(k)' /\ \A j \in DOMAIN log' : j <= k
    BY <1>6, <1>9 DEF ShoppingBuys
  <2>2. work'.orders[Len(work'.orders)] = order
    BY <1>8, <1>10
  <2> QED BY <1>6, <1>9, <2>1, <2>2 DEF ShoppingBought
<1>14. Session!TypeOfEnvelope'
  BY <1>1, AcceptedEnvelope DEF ShoppingInv
<1>15. Len(log') <= Requests["shopping-lite"] /\ work'.orders # <<>>
  BY <1>1, <1>5, <1>7, <1>8, <1>9, <1>10, RequestsAssumption
<1> QED BY <1>1, <1>2, <1>9, <1>10, <1>11, <1>12, <1>13, <1>14, <1>15 DEF ShoppingInv

(* Every request the application accepts keeps the invariant and stores no *)
(* result.                                                                 *)
LEMMA ShoppingRequested ==
    ASSUME ShoppingInv, ShoppingRequest PROVE ShoppingInv' /\ result' = result
  BY ShoppingAdds, ShoppingSets, ShoppingSells, ShoppingGoods DEF ShoppingRequest

(* The evaluator computes the amounts of the latest order again; what it   *)
(* accepts is what the latest checkout deserves.                           *)
LEMMA ShoppingJudged ==
    ASSUME ShoppingInv PROVE Shopping!Evaluate(work) = "passed" <=> Shopping!Deserved
<1> DEFINE C == {i \in DOMAIN log : log[i].op = "checkout"}
<1>1. log \in Seq(ShoppingRecord) /\ work.orders \in Seq(ShoppingOrder)
  BY DEF ShoppingInv, ShoppingShape
<1>2. CASE work.orders = <<>>
  <2>1. C = {}
    BY <1>2 DEF ShoppingInv, ShoppingBuys
  <2> QED BY <1>2, <2>1 DEF Shopping!Evaluate, Shopping!Deserved
<1>3. CASE work.orders # <<>>
  <2>1. PICK n \in Nat : n = Len(work.orders)
    BY <1>1
  <2>2. PICK order \in ShoppingOrder : order = work.orders[n] /\ n \in DOMAIN work.orders
    BY <1>1, <1>3, <2>1
  <2>3. PICK i \in DOMAIN log :
            /\ ShoppingBuys(i) /\ \A j \in DOMAIN log : ShoppingBuys(j) => j <= i
            /\ log[i].items = order.items /\ log[i].on = order.method
            /\ log[i].coupon = order.coupon
    BY <1>3, <2>1, <2>2 DEF ShoppingInv, ShoppingBought
  <2>4. C \in SUBSET Nat /\ i \in C /\ \A j \in C : j <= i
    BY <1>1, <2>3 DEF ShoppingBuys
  <2>5. Shopping!Max(C) = i
    <3> HIDE DEF C
    <3> QED BY <2>4, LatestIs
  <2>6. /\ InStock(order.items)
        /\ order.discount = Shopping!Discount(order.items, order.coupon)
        /\ order.shipping = Shopping!ShippingCost(order.items, order.method)
        /\ order.total = Shopping!Subtotal(order.items) - order.discount + order.shipping
    BY <2>2 DEF ShoppingInv, ShoppingCharged
  <2> DEFINE fit == order.items["fit"]
             other == order.items["other"]
             scarce == order.items["scarce"]
             goods == 10 * fit + 5 * scarce + 5 * other
             fee == IF task.method = "express" \/ goods >= task.threshold THEN 0 ELSE task.fee
             total == Shopping!Subtotal(order.items) - order.discount + order.shipping
  <2>7. Shopping!Deserved
        <=> /\ fit + scarce = task.quantity /\ scarce <= 1 /\ other = task.others
            /\ order.method = task.method /\ order.coupon = task.coupon
            /\ (IF task.coupon THEN goods - goods \div 5 ELSE goods) + fee <= task.maxTotal
    <3>1. Shopping!Deserved
          <=> LET bought == log[i]
                  f == bought.items["fit"]
                  o == bought.items["other"]
                  s == bought.items["scarce"]
                  g == 10 * f + 5 * s + 5 * o
                  e == IF task.method = "express" \/ g >= task.threshold THEN 0 ELSE task.fee
              IN  /\ C # {}
                  /\ f + s = task.quantity /\ s <= 1 /\ o = task.others
                  /\ bought.on = task.method /\ bought.coupon = task.coupon
                  /\ (IF task.coupon THEN g - g \div 5 ELSE g) + e <= task.maxTotal
      <4> HIDE DEF C
      <4> QED BY <2>5 DEF Shopping!Deserved, C
    <3> QED BY <2>3, <2>4, <3>1, Zenon
  <2>8. Shopping!Evaluate(work) = "passed"
        <=> /\ Shopping!Units(order.items) = task.quantity + task.others
            /\ fit + scarce = task.quantity
            /\ task.others > 0 => other = task.others
            /\ \A p \in Goods : order.items[p] <= Shopping!Stock[p]
            /\ task.coupon => order.coupon
            /\ order.discount = Shopping!Discount(order.items, task.coupon)
            /\ order.shipping = Shopping!ShippingCost(order.items, task.method)
            /\ order.total = total
            /\ order.total <= task.maxTotal
            /\ order.method = task.method
    BY <1>3, <2>1, <2>2, ShoppingGoods DEF Shopping!Evaluate
  <2> DEFINE c == order.coupon
             d == order.discount
  <2>9. c \in BOOLEAN /\ order.items \in Cart /\ d \in Nat /\ order.shipping \in Nat
    BY DEF ShoppingOrder
  <2>10. fit \in Nat /\ other \in Nat /\ scarce \in Nat /\ scarce <= 1
    BY <2>6, <2>9, ShoppingStock DEF InStock, Cart, Goods
  <2>11. /\ Shopping!Units(order.items) = fit + other + scarce
         /\ Shopping!Subtotal(order.items) = 10 * fit + 5 * other + 5 * scarce
    BY <2>9, ShoppingUnits, ShoppingSubtotal
  <2> DEFINE pair == [quantity |-> 2, others |-> 0, method |-> "express", coupon |-> FALSE,
                      threshold |-> 0, fee |-> 0, maxTotal |-> 20]
             saving == [quantity |-> 2, others |-> 0, method |-> "standard", coupon |-> TRUE,
                        threshold |-> 20, fee |-> 4, maxTotal |-> 16]
             kit == [quantity |-> 1, others |-> 1, method |-> "standard", coupon |-> FALSE,
                     threshold |-> 15, fee |-> 6, maxTotal |-> 15]
             two == task = pair \/ task = saving
  <2>12. /\ two \/ task = kit
         /\ two => /\ task.quantity = 2 /\ task.others = 0
                   /\ task.quantity + task.others = 2 /\ ~(task.others > 0)
    BY DEF ShoppingInv, Shopping!Questions
  <2> HIDE DEF pair, saving, kit, two
  <2>13. ASSUME NEW m
         PROVE  Shopping!ShippingCost(order.items, m)
                = IF m = "standard" /\ Shopping!Subtotal(order.items) < task.threshold
                  THEN task.fee ELSE 0
    BY DEF Shopping!ShippingCost
  <2>14. CASE two /\ ~(other = 0 /\ ((fit = 2 /\ scarce = 0) \/ (fit = 1 /\ scarce = 1)))
    <3> HIDE DEF fit, other, scarce
    <3>1. ~(fit + scarce = 2 /\ scarce <= 1 /\ other = 0)
      BY <2>10, <2>14
    <3>2. ~(fit + other + scarce = 2 /\ fit + scarce = 2)
      BY <2>10, <2>14
    <3>3. Shopping!Deserved => fit + scarce = task.quantity /\ scarce <= 1 /\ other = task.others
      BY <2>7, Zenon
    <3>4. Shopping!Evaluate(work) = "passed"
          => /\ fit + other + scarce = task.quantity + task.others
             /\ fit + scarce = task.quantity
      BY <2>8, <2>11, Zenon
    <3> QED BY <2>12, <2>14, <3>1, <3>2, <3>3, <3>4
  <2>15. ASSUME two, NEW sub \in {15, 20}, other = 0, fit + scarce = 2,
                goods = sub, Shopping!Subtotal(order.items) = sub
         PROVE  Shopping!Evaluate(work) = "passed" <=> Shopping!Deserved
    <3> DEFINE saved == Shopping!Discount(order.items, TRUE)
    <3>1. /\ saved = sub \div 5 /\ saved \in {3, 4}
          /\ Shopping!Discount(order.items, FALSE) = 0
      <4>1. saved = (sub * 20) \div 100 /\ Shopping!Discount(order.items, FALSE) = 0
        BY <2>9, <2>15, ShoppingAmounts, Zenon
      <4>2. (sub = 15 \/ sub = 20) /\ (15 * 20) \div 100 = 3 /\ (20 * 20) \div 100 = 4
            /\ 15 \div 5 = 3 /\ 20 \div 5 = 4
        OBVIOUS
      <4>3. CASE sub = 15
        <5>1. saved = (15 * 20) \div 100
          BY <4>1, <4>3, Zenon
        <5> HIDE DEF saved
        <5> QED BY <4>1, <4>2, <4>3, <5>1, Zenon
      <4>4. CASE sub = 20
        <5>1. saved = (20 * 20) \div 100
          BY <4>1, <4>4, Zenon
        <5> HIDE DEF saved
        <5> QED BY <4>1, <4>2, <4>4, <5>1, Zenon
      <4> QED BY <4>2, <4>3, <4>4
    <3>2. c = TRUE \/ c = FALSE
      BY <2>9, Zenon
    <3>3. /\ c = TRUE => d = saved
          /\ c = FALSE => d = 0
      BY <2>6, <3>1
    <3>4. /\ Shopping!Units(order.items) = 2
          /\ \A p \in Goods : order.items[p] <= Shopping!Stock[p]
      BY <2>6, <2>10, <2>11, <2>15 DEF InStock
    <3>5. CASE task = pair
      <4>1. task.method = "express" /\ task.coupon = FALSE /\ task.maxTotal = 20
        BY <3>5 DEF pair
      <4>2. Shopping!ShippingCost(order.items, "express") = 0
        BY <2>13
      <4>3. Shopping!Evaluate(work) = "passed"
            <=> d = 0 /\ order.shipping = 0 /\ order.total = total /\ order.total <= 20
                /\ order.method = "express"
        BY <2>8, <2>12, <2>15, <3>1, <3>4, <4>1, <4>2
      <4>4. Shopping!Deserved <=> order.method = "express" /\ c = FALSE
        <5>1. fee = 0 \/ task.method # "express"
          OBVIOUS
        <5>2. goods + 0 <= 20
          BY <2>15
        <5> HIDE DEF fit, other, scarce, goods, fee, c
        <5> QED BY <2>7, <2>10, <2>12, <2>15, <4>1, <5>1, <5>2 DEF c
      <4>5. order.method = "express" => order.shipping = 0
        BY <2>6, <4>2
      <4>6. d = 0 <=> c = FALSE
        <5> HIDE DEF saved, c, d
        <5> QED BY <3>1, <3>2, <3>3
      <4>7. order.shipping = 0 /\ d = 0 => order.total = total /\ order.total <= 20
        BY <2>6, <2>15
      <4> QED BY <4>3, <4>4, <4>5, <4>6, <4>7
    <3>6. CASE task = saving
      <4>1. task.method = "standard" /\ task.coupon = TRUE /\ task.maxTotal = 16
            /\ task.threshold = 20 /\ task.fee = 4
        BY <3>6 DEF saving
      <4>2. Shopping!ShippingCost(order.items, "standard") = IF sub < 20 THEN 4 ELSE 0
        BY <2>13, <2>15, <4>1
      <4>3. Shopping!Evaluate(work) = "passed"
            <=> c = TRUE /\ d = saved /\ order.shipping = (IF sub < 20 THEN 4 ELSE 0)
                /\ order.total = total /\ order.total <= 16
                /\ order.method = "standard"
        BY <2>8, <2>12, <2>15, <3>2, <3>4, <4>1, <4>2
      <4>4. Shopping!Deserved
            <=> order.method = "standard" /\ c = TRUE
                /\ sub - sub \div 5 + (IF sub >= 20 THEN 0 ELSE 4) <= 16
        BY <2>7, <2>10, <2>12, <2>15, <4>1
      <4>5. order.method = "standard" => order.shipping = (IF sub < 20 THEN 4 ELSE 0)
        BY <2>6, <4>2
      <4>6. order.total = total /\ total = sub - d + order.shipping
        BY <2>6, <2>15
      <4>7. /\ sub = 15 \/ sub = 20
            /\ 15 \div 5 = 3 /\ 20 \div 5 = 4
        BY <2>15
      <4> HIDE DEF saved, c, d, total
      <4>9. CASE sub = 15
        <5>1. (order.shipping = 4 /\ d = saved) => order.total <= 16
          BY <3>1, <4>6, <4>7, <4>9
        <5>2. sub - sub \div 5 + (IF sub >= 20 THEN 0 ELSE 4) <= 16
          BY <4>9
        <5>3. (IF sub < 20 THEN 4 ELSE 0) = 4
          BY <4>9
        <5> QED BY <3>3, <4>3, <4>4, <4>5, <4>6, <5>1, <5>2, <5>3
      <4>10. CASE sub = 20
        <5>1. (order.shipping = 0 /\ d = saved) => order.total <= 16
          BY <3>1, <4>6, <4>7, <4>10
        <5>2. sub - sub \div 5 + (IF sub >= 20 THEN 0 ELSE 4) <= 16
          BY <4>10
        <5>3. (IF sub < 20 THEN 4 ELSE 0) = 0
          BY <4>10
        <5> QED BY <3>3, <4>3, <4>4, <4>5, <4>6, <5>1, <5>2, <5>3
      <4> QED BY <4>7, <4>9, <4>10
    <3> QED BY <2>15, <3>5, <3>6 DEF two
  <2>16. CASE two /\ other = 0 /\ fit = 2 /\ scarce = 0
    <3>1. other = 0 /\ fit + scarce = 2 /\ goods = 20 /\ Shopping!Subtotal(order.items) = 20
          /\ 20 \in {15, 20}
      BY <2>10, <2>11, <2>16
    <3> QED BY <2>15, <2>16, <3>1
  <2>17. CASE two /\ other = 0 /\ fit = 1 /\ scarce = 1
    <3>1. other = 0 /\ fit + scarce = 2 /\ goods = 15 /\ Shopping!Subtotal(order.items) = 15
          /\ 15 \in {15, 20}
      BY <2>10, <2>11, <2>17
    <3> QED BY <2>15, <2>17, <3>1
  <2>18. CASE task = kit
    <3>1. /\ task.quantity = 1 /\ task.others = 1 /\ task.method = "standard"
          /\ task.coupon = FALSE /\ task.threshold = 15 /\ task.fee = 6 /\ task.maxTotal = 15
      BY <2>18 DEF kit
    <3>2. c = TRUE \/ c = FALSE
      BY <2>9, Zenon
    <3>3. CASE ~(other = 1 /\ ((fit = 1 /\ scarce = 0) \/ (fit = 0 /\ scarce = 1)))
      <4> HIDE DEF fit, other, scarce
      <4>1. ~(fit + scarce = 1 /\ scarce <= 1 /\ other = 1)
        BY <2>10, <3>3
      <4>2. ~(fit + scarce = 1 /\ (1 > 0 => other = 1))
        BY <2>10, <3>3
      <4> QED BY <2>7, <2>8, <3>1, <4>1, <4>2
    <3>4. ASSUME NEW sub \in {10, 15}, other = 1, fit + scarce = 1,
                 goods = sub, Shopping!Subtotal(order.items) = sub
          PROVE  Shopping!Evaluate(work) = "passed" <=> Shopping!Deserved
      <4> DEFINE saved == Shopping!Discount(order.items, TRUE)
      <4>1. saved # 0 /\ Shopping!Discount(order.items, FALSE) = 0
        <5>1. saved = (sub * 20) \div 100 /\ Shopping!Discount(order.items, FALSE) = 0
          BY <2>9, <3>4, ShoppingAmounts, Zenon
        <5>2. /\ sub = 10 \/ sub = 15
              /\ (10 * 20) \div 100 # 0 /\ (15 * 20) \div 100 # 0
          OBVIOUS
        <5> HIDE DEF saved
        <5> QED BY <5>1, <5>2, Zenon
      <4>2. d = 0 <=> c = FALSE
        <5>1. (c = TRUE => d = saved) /\ (c = FALSE => d = 0)
          BY <2>6, <4>1
        <5> HIDE DEF saved, c, d
        <5> QED BY <3>2, <4>1, <5>1
      <4>3. /\ Shopping!Units(order.items) = 2
            /\ \A p \in Goods : order.items[p] <= Shopping!Stock[p]
        <5>1. fit + other + scarce = 2
          <6> HIDE DEF fit, other, scarce
          <6> QED BY <2>10, <3>4
        <5> QED BY <2>6, <2>11, <5>1 DEF InStock
      <4>4. Shopping!ShippingCost(order.items, "standard") = IF sub < 15 THEN 6 ELSE 0
        BY <2>13, <3>1, <3>4
      <4>5. Shopping!Evaluate(work) = "passed"
            <=> d = 0 /\ order.shipping = (IF sub < 15 THEN 6 ELSE 0)
                /\ order.total = total /\ order.total <= 15 /\ order.method = "standard"
        <5>1. /\ task.quantity + task.others = 2 /\ fit + scarce = task.quantity
              /\ other = task.others /\ ~task.coupon
          BY <3>1, <3>4
        <5>2. /\ Shopping!Discount(order.items, task.coupon) = 0
              /\ Shopping!ShippingCost(order.items, task.method) = (IF sub < 15 THEN 6 ELSE 0)
          BY <3>1, <4>1, <4>4, Zenon
        <5> HIDE DEF d, total, fit, other, scarce
        <5> QED BY <2>8, <3>1, <4>3, <5>1, <5>2 DEF d
      <4>6. Shopping!Deserved
            <=> /\ order.method = "standard" /\ c = FALSE
                /\ sub + (IF sub >= 15 THEN 0 ELSE 6) <= 15
        BY <2>7, <2>10, <3>1, <3>4
      <4>7. order.method = "standard" => order.shipping = (IF sub < 15 THEN 6 ELSE 0)
        BY <2>6, <4>4
      <4>8. order.total = total /\ total = sub - d + order.shipping
        BY <2>6, <3>4
      <4>9. CASE sub = 10
        <5>1. d = 0 /\ order.shipping = 6 => ~(order.total <= 15)
          BY <4>8, <4>9
        <5>2. ~(sub + (IF sub >= 15 THEN 0 ELSE 6) <= 15) /\ (IF sub < 15 THEN 6 ELSE 0) = 6
          BY <4>9
        <5> HIDE DEF c, d, total
        <5> QED BY <4>5, <4>6, <5>1, <5>2
      <4>10. CASE sub = 15
        <5>1. d = 0 /\ order.shipping = 0 => order.total <= 15
          BY <4>8, <4>10
        <5>2. sub + (IF sub >= 15 THEN 0 ELSE 6) <= 15 /\ (IF sub < 15 THEN 6 ELSE 0) = 0
          BY <4>10
        <5> HIDE DEF c, d, total
        <5> QED BY <4>2, <4>5, <4>6, <4>7, <4>8, <5>1, <5>2
      <4> QED BY <4>9, <4>10
    <3>5. CASE other = 1 /\ fit = 1 /\ scarce = 0
      <4>1. fit + scarce = 1 /\ goods = 15 /\ Shopping!Subtotal(order.items) = 15
            /\ 15 \in {10, 15}
        BY <2>11, <3>5
      <4> QED BY <3>4, <3>5, <4>1
    <3>6. CASE other = 1 /\ fit = 0 /\ scarce = 1
      <4>1. fit + scarce = 1 /\ goods = 10 /\ Shopping!Subtotal(order.items) = 10
            /\ 10 \in {10, 15}
        BY <2>11, <3>6
      <4> QED BY <3>4, <3>6, <4>1
    <3> QED BY <3>3, <3>5, <3>6
  <2> QED BY <2>12, <2>14, <2>16, <2>17, <2>18
<1> QED BY <1>2, <1>3

-----------------------------------------------------------------------------
(* The inbox *)

InboxMost == Requests["inbox-lite"]
InboxRecord ==
    [op : {"save", "save_send", "violate", "revise", "send", "recheck"},
     draft : Nat, letter : Inbox!Letters]
InboxDraft == [id : 1..InboxMost, letter : Inbox!Letters, revision : 0..InboxMost]
InboxCheck == [draft : 1..InboxMost, baseline : 0..InboxMost, updated : BOOLEAN]

InboxSave(i) == log[i].op = "save" \/ log[i].op = "save_send"
InboxSend(i) == log[i].op = "send" \/ log[i].op = "save_send"
InboxWrite(i, id) == (InboxSave(i) \/ log[i].op = "revise") /\ log[i].draft = id

(* The drafts there are or were. *)
InboxPaper(d) ==
    \/ \E n \in DOMAIN work.drafts : d = work.drafts[n]
    \/ \E n \in DOMAIN work.sent : d = work.sent[n]

(* How many there are, by which they are numbered. *)
InboxNumbers(n) == Len(work.drafts) + Len(work.sent) = n /\ n <= Len(log)

InboxShape ==
    /\ work = [threads |-> work.threads, drafts |-> work.drafts, sent |-> work.sent,
               violated |-> work.violated, checks |-> work.checks]
    /\ work.threads \in BOOLEAN /\ work.violated \in BOOLEAN
    /\ work.drafts \in Seq(InboxDraft) /\ work.sent \in Seq(InboxDraft)
    /\ work.checks \in Seq(InboxCheck)
    /\ log \in Seq(InboxRecord)

(* No two drafts have one number. *)
InboxIds ==
    /\ \A m, n \in DOMAIN work.drafts : work.drafts[m].id = work.drafts[n].id => m = n
    /\ \A m \in DOMAIN work.drafts, n \in DOMAIN work.sent : work.drafts[m].id # work.sent[n].id

(* A letter is as the latest request for its draft left it. *)
InboxWritten(d) ==
    \E i \in DOMAIN log :
        /\ InboxWrite(i, d.id) /\ log[i].letter = d.letter
        /\ \A j \in DOMAIN log : InboxWrite(j, d.id) => j <= i

(* Every draft was saved once, before it was revised. *)
InboxSaved(id) ==
    \E i \in DOMAIN log :
        InboxSave(i) /\ log[i].draft = id /\ \A j \in DOMAIN log : InboxWrite(j, id) => i <= j

InboxWrites ==
    \E n \in Nat :
        /\ InboxNumbers(n)
        /\ \A d : InboxPaper(d) =>
            d.id <= n /\ d.revision <= Len(log) /\ InboxWritten(d)
        /\ \A c \in DOMAIN work.checks : work.checks[c].draft <= n
        /\ \A id \in 1..n : InboxSaved(id)
        /\ \A i \in DOMAIN log : \A id : InboxWrite(i, id) => id \in 1..n
        /\ \A i, j \in DOMAIN log :
            InboxSave(i) /\ InboxSave(j) /\ log[i].draft = log[j].draft => i = j

(* What was sent was asked to be sent. *)
InboxSends ==
    /\ IsFiniteSet({i \in DOMAIN log : InboxSend(i)})
    /\ Cardinality({i \in DOMAIN log : InboxSend(i)}) = Len(work.sent)
    /\ work.sent # <<>> =>
        \E i \in DOMAIN log :
            /\ InboxSend(i) /\ \A j \in DOMAIN log : InboxSend(j) => j <= i
            /\ log[i].draft = work.sent[Len(work.sent)].id
    /\ work.violated <=> \E i \in DOMAIN log : log[i].op = "violate"

(* With an amendment, the draft that is sent is the tracked one, revised. *)
InboxTogether ==
    /\ ~task.amended => work.checks = <<>>
    /\ task.amended =>
        /\ \A i \in DOMAIN log : log[i].op # "save_send"
        /\ Len(work.sent) <= 1
        /\ work.sent # <<>> =>
            /\ Len(work.checks) = 2 /\ work.sent[1].id = work.checks[2].draft
            /\ work.sent[1].letter = "asked"
            /\ work.sent[1].revision > work.checks[2].baseline

(* The rechecks from r to s saw the same revision of a draft, and it has   *)
(* been revised since if and only if it has been written since.            *)
InboxTracked(r, s, c) ==
    LET check == work.checks[c]
    IN  /\ r <= s
        /\ \A j \in DOMAIN log : InboxWrite(j, check.draft) => j < r \/ j > s
        /\ \A d : InboxPaper(d) /\ d.id = check.draft =>
            /\ d.revision >= check.baseline
            /\ d.revision > check.baseline
               <=> \E j \in DOMAIN log : InboxWrite(j, check.draft) /\ j > s

InboxRechecks(S) ==
    S \subseteq DOMAIN log /\ \A i \in DOMAIN log : log[i].op = "recheck" <=> i \in S

InboxOnce(r) == InboxRechecks({r}) /\ InboxTracked(r, r, 1)
InboxTwice(r, s) == r # s /\ InboxRechecks({r, s}) /\ InboxTracked(r, s, 2)

InboxChecked ==
    /\ Len(work.checks) <= 2
    /\ \A c \in DOMAIN work.checks : work.checks[c].updated <=> c = 2
    /\ Len(work.checks) = 0 => InboxRechecks({})
    /\ Len(work.checks) = 1 => \E r \in DOMAIN log : InboxOnce(r)
    /\ Len(work.checks) = 2 => \E r, s \in DOMAIN log : InboxTwice(r, s)

InboxInv ==
    /\ Session!TypeOfEnvelope /\ Len(log) <= InboxMost /\ task \in Inbox!Questions
    /\ InboxShape /\ InboxIds /\ InboxWrites /\ InboxSends /\ InboxTogether /\ InboxChecked

(* What the invariant says of a single draft, letter and check, and of the *)
(* log.                                                                    *)
LEMMA InboxFacts ==
    ASSUME InboxInv
    PROVE  /\ \A n \in DOMAIN work.drafts : work.drafts[n] \in InboxDraft
           /\ \A n \in DOMAIN work.sent : work.sent[n] \in InboxDraft
           /\ \A c \in DOMAIN work.checks : work.checks[c] \in InboxCheck
           /\ DOMAIN work.drafts = 1..Len(work.drafts) /\ Len(work.drafts) \in Nat
           /\ DOMAIN work.sent = 1..Len(work.sent) /\ Len(work.sent) \in Nat
           /\ DOMAIN work.checks = 1..Len(work.checks) /\ Len(work.checks) \in Nat
           /\ Len(log) \in Nat /\ DOMAIN log = 1..Len(log)
           /\ InboxMost \in Nat
           /\ \A d : InboxPaper(d) => d \in InboxDraft
<1>1. InboxShape /\ InboxMost \in Nat
  BY RequestsAssumption DEF InboxInv, InboxMost
<1>2. /\ \A n \in DOMAIN work.drafts : work.drafts[n] \in InboxDraft
      /\ \A n \in DOMAIN work.sent : work.sent[n] \in InboxDraft
      /\ \A c \in DOMAIN work.checks : work.checks[c] \in InboxCheck
  BY <1>1, ElementOfSeq DEF InboxShape
<1>3. /\ DOMAIN work.drafts = 1..Len(work.drafts) /\ Len(work.drafts) \in Nat
      /\ DOMAIN work.sent = 1..Len(work.sent) /\ Len(work.sent) \in Nat
      /\ DOMAIN work.checks = 1..Len(work.checks) /\ Len(work.checks) \in Nat
      /\ Len(log) \in Nat /\ DOMAIN log = 1..Len(log)
  BY <1>1, LenProperties DEF InboxShape
<1> QED BY <1>1, <1>2, <1>3 DEF InboxPaper

(* A letter that is the only one is there.                                 *)
LEMMA InboxOne ==
    ASSUME InboxInv, Len(work.sent) = 1
    PROVE  work.sent # <<>> /\ 1 \in DOMAIN work.sent
<1>1. 1 \in DOMAIN work.sent
  BY InboxFacts
<1>2. DOMAIN <<>> = {}
  OBVIOUS
<1>3. ASSUME work.sent = <<>> PROVE FALSE
  BY <1>1, <1>2, <1>3, Zenon
<1> QED BY <1>1, <1>3

(* The place of a draft. *)
LEMMA InboxIndex ==
    ASSUME InboxInv, NEW e
    PROVE  /\ Inbox!DraftIndex(work, e) = 0 => \A n \in DOMAIN work.drafts : work.drafts[n].id # e
           /\ Inbox!DraftIndex(work, e) # 0 =>
                /\ Inbox!DraftIndex(work, e) \in DOMAIN work.drafts
                /\ work.drafts[Inbox!DraftIndex(work, e)].id = e
<1> DEFINE I == {n \in 1..Len(work.drafts) : work.drafts[n].id = e}
<1>1. Inbox!DraftIndex(work, e) = IF I # {} THEN Inbox!Min(I) ELSE 0
  BY DEF Inbox!DraftIndex, Inbox!SelectInSeq
<1>2. DOMAIN work.drafts = 1..Len(work.drafts) /\ Len(work.drafts) \in Nat
  BY InboxFacts
<1>3. CASE I = {}
  BY <1>1, <1>2, <1>3
<1>4. CASE I # {}
  <2>1. I \in SUBSET Nat
    BY <1>2
  <2>2. PICK m \in I : \A n \in I : m <= n
    <3> HIDE DEF I
    <3> QED BY <1>4, <2>1, EarliestExists
  <2>3. Inbox!Min(I) = m
    <3> HIDE DEF I
    <3> QED BY <2>1, <2>2, EarliestIs
  <2>4. m \in 1..Len(work.drafts) /\ m # 0 /\ work.drafts[m].id = e
    BY <1>2, <2>2
  <2> HIDE DEF I
  <2> QED BY <1>1, <1>2, <1>4, <2>3, <2>4
<1> QED BY <1>3, <1>4

(* The place of the recheck that saw the amendment. *)
LEMMA InboxUpdated ==
    ASSUME InboxInv
    PROVE  /\ Len(work.checks) = 2 => Inbox!UpdatedCheck(work) = 2
           /\ Len(work.checks) # 2 => Inbox!UpdatedCheck(work) = 0
<1> DEFINE I == {c \in 1..Len(work.checks) : work.checks[c].updated}
<1>1. Inbox!UpdatedCheck(work) = IF I # {} THEN Inbox!Min(I) ELSE 0
  BY DEF Inbox!UpdatedCheck, Inbox!SelectInSeq
<1>2. PICK n \in Nat : n = Len(work.checks) /\ DOMAIN work.checks = 1..n
  BY InboxFacts
<1>3. n <= 2 /\ \A c \in 1..n : work.checks[c].updated <=> c = 2
  BY <1>2 DEF InboxInv, InboxChecked
<1>4. I = {c \in 1..n : c = 2}
  BY <1>2, <1>3
<1> HIDE DEF I
<1>5. CASE n = 2
  <2>1. I = {2}
    BY <1>4, <1>5
  <2>2. Inbox!Min(I) = 2
    BY <2>1, EarliestIs
  <2> QED BY <1>1, <1>2, <1>5, <2>1, <2>2
<1>6. CASE n # 2
  <2>1. \A c \in 1..n : c # 2
    BY <1>3, <1>6
  <2>2. I = {}
    BY <1>4, <2>1
  <2> QED BY <1>1, <1>2, <1>6, <2>2
<1> QED BY <1>5, <1>6

(* What is left of a sequence when one element is removed is in its order. *)
LEMMA RemovedAt ==
    ASSUME NEW R, NEW s \in Seq(R), NEW i \in DOMAIN s, NEW t, t = Inbox!RemoveAt(s, i)
    PROVE  /\ t \in Seq(R) /\ Len(t) + 1 = Len(s)
           /\ \A n \in DOMAIN t : \E m \in DOMAIN s : m # i /\ t[n] = s[m] /\ m = (IF n < i THEN n ELSE n + 1)
<1> DEFINE a == SubSeq(s, 1, i - 1)
           b == SubSeq(s, i + 1, Len(s))
<1>1. t = a \o b
  BY DEF Inbox!RemoveAt
<1>2. PICK l \in Nat : l = Len(s) /\ DOMAIN s = 1..l /\ i \in 1..l
  BY LenProperties
<1>3. a \in Seq(R) /\ Len(a) = i - 1 /\ \A n \in 1..(i - 1) : a[n] = s[n]
  BY <1>2, SubSeqProperties
<1>4. b \in Seq(R) /\ Len(b) = l - i /\ \A n \in 1..(l - i) : b[n] = s[n + i]
  BY <1>2, SubSeqProperties
<1> HIDE DEF a, b
<1>5. /\ t \in Seq(R) /\ Len(t) = Len(a) + Len(b)
      /\ \A n \in 1..(Len(a) + Len(b)) : t[n] = IF n <= Len(a) THEN a[n] ELSE b[n - Len(a)]
  <2>1. a \in Seq(R) /\ b \in Seq(R)
    BY <1>3, <1>4
  <2> QED BY <1>1, <2>1, ConcatProperties, Zenon
<1>6. Len(t) = l - 1 /\ DOMAIN t = 1..(l - 1)
  <2>1. Len(t) = l - 1
    BY <1>2, <1>3, <1>4, <1>5
  <2> QED BY <1>5, <2>1, LenProperties
<1>7. ASSUME NEW n \in 1..(l - 1)
      PROVE  \E m \in DOMAIN s : m # i /\ t[n] = s[m] /\ m = (IF n < i THEN n ELSE n + 1)
  <2>1. CASE n < i
    BY <1>2, <1>3, <1>4, <1>5, <2>1
  <2>2. CASE ~(n < i)
    <3>1. t[n] = b[n - (i - 1)] /\ n - (i - 1) \in 1..(l - i)
      BY <1>2, <1>3, <1>4, <1>5, <2>2
    <3>2. b[n - (i - 1)] = s[n - (i - 1) + i] /\ n - (i - 1) + i = n + 1
      BY <1>2, <1>4, <3>1
    <3> QED BY <1>2, <2>2, <3>1, <3>2
  <2> QED BY <2>1, <2>2
<1> QED BY <1>2, <1>5, <1>6, <1>7

(* A session of the inbox starts in this invariant. *)
LEMMA InboxStarts ==
    ASSUME Inbox!Init PROVE InboxInv
<1> DEFINE w == [threads |-> TRUE, drafts |-> <<>>, sent |-> <<>>, violated |-> FALSE, checks |-> <<>>]
<1>1. PICK t \in Inbox!Questions : Inbox!Fresh(t, w)
  BY DEF Inbox!Init
<1>2. log = <<>> /\ task = t /\ work = w /\ Session!TypeOfEnvelope
  BY <1>1 DEF Inbox!Fresh, Session!TypeOfEnvelope
<1>3. /\ Len(log) = 0 /\ DOMAIN log = {} /\ log \in Seq(InboxRecord)
      /\ Len(work.drafts) = 0 /\ Len(work.sent) = 0 /\ Len(work.checks) = 0
      /\ DOMAIN work.drafts = {} /\ DOMAIN work.sent = {} /\ DOMAIN work.checks = {}
      /\ work.sent = <<>> /\ work.checks = <<>> /\ ~work.violated
  BY <1>2
<1>4. InboxShape
  BY <1>2, <1>3 DEF InboxShape
<1>5. InboxMost \in Nat
  BY RequestsAssumption DEF InboxMost
<1>6. InboxIds /\ InboxTogether
  BY <1>3 DEF InboxIds, InboxTogether
<1>7. InboxWrites
  <2>1. InboxNumbers(0)
    BY <1>3 DEF InboxNumbers
  <2> QED BY <1>3, <2>1 DEF InboxWrites, InboxPaper, InboxWrite, InboxSave
<1>8. InboxSends
  <2>1. {i \in DOMAIN log : InboxSend(i)} = {}
    BY <1>3
  <2> QED BY <1>3, <2>1, FS_EmptySet DEF InboxSends
<1>9. InboxChecked
  BY <1>3 DEF InboxChecked, InboxRechecks
<1> QED BY <1>2, <1>3, <1>4, <1>5, <1>6, <1>7, <1>8, <1>9 DEF InboxInv

(* A recovery forgets the threads, which the evaluator does not read. *)
InboxSame(w) ==
    \/ w = work
    \/ w = [work EXCEPT !.threads = FALSE]

(* A step that keeps the requests and the work, the seen threads apart,    *)
(* keeps the invariant: a recovery forgets the threads.                    *)
LEMMA InboxSameButThreads ==
    ASSUME InboxInv, Session!TypeOfEnvelope', UNCHANGED <<task, log>>,
           work' = work \/ work' = [work EXCEPT !.threads = FALSE]
    PROVE  InboxInv'
<1>1. Session!TypeOfEnvelope' /\ UNCHANGED <<task, log>>
  OBVIOUS
<1>2. work' = work \/ work' = [work EXCEPT !.threads = FALSE]
  OBVIOUS
<1>3. /\ work'.drafts = work.drafts /\ work'.sent = work.sent
      /\ work'.violated = work.violated /\ work'.checks = work.checks
      /\ InboxShape'
  BY <1>1, <1>2 DEF InboxInv, InboxShape
<1>4. /\ \A i : (InboxSave(i)' <=> InboxSave(i)) /\ (InboxSend(i)' <=> InboxSend(i))
      /\ \A i, id : InboxWrite(i, id)' <=> InboxWrite(i, id)
      /\ \A d : (InboxPaper(d)' <=> InboxPaper(d)) /\ (InboxWritten(d)' <=> InboxWritten(d))
      /\ \A id : InboxSaved(id)' <=> InboxSaved(id)
      /\ \A n : InboxNumbers(n)' <=> InboxNumbers(n)
  BY <1>1, <1>3 DEF InboxSave, InboxSend, InboxWrite, InboxPaper, InboxWritten, InboxSaved,
                    InboxNumbers
<1>5. InboxIds'
  BY <1>3 DEF InboxInv, InboxIds
<1>6. InboxWrites'
  BY <1>1, <1>3, <1>4 DEF InboxInv, InboxWrites
<1>7. InboxSends'
  <2>1. {i \in DOMAIN log' : InboxSend(i)'} = {i \in DOMAIN log : InboxSend(i)}
    BY <1>1, <1>4
  <2> QED BY <1>1, <1>3, <1>4, <2>1 DEF InboxInv, InboxSends
<1>8. InboxTogether'
  BY <1>1, <1>3 DEF InboxInv, InboxTogether
<1>9. \A r, s, c : InboxTracked(r, s, c) => InboxTracked(r, s, c)'
  BY <1>1, <1>3, <1>4 DEF InboxTracked
<1>10. \A S : InboxRechecks(S) => InboxRechecks(S)'
  BY <1>1 DEF InboxRechecks
<1>11. InboxChecked'
  BY <1>1, <1>3, <1>9, <1>10 DEF InboxInv, InboxChecked, InboxOnce, InboxTwice
<1> QED BY <1>1, <1>3, <1>5, <1>6, <1>7, <1>8, <1>11 DEF InboxInv

InboxRequest ==
    \/ \E letter \in Inbox!Letters :
        \/ \E send \in BOOLEAN : Inbox!Save(letter, send)
        \/ \E id \in 1..InboxMost : Inbox!Revise(id, letter)
    \/ \E id \in 1..InboxMost : Inbox!Send(id)
    \/ Inbox!Violate
    \/ Inbox!Recheck

(* A step of the inbox is a request or one of the envelope, which judges   *)
(* as the evaluator says of the work.                                      *)
LEMMA InboxSteps ==
    ASSUME Inbox!Next
    PROVE  \/ InboxRequest
           \/ \E v \in {"passed", "failed"} :
                v = Inbox!Evaluate(work) /\ \E w : InboxSame(w) /\ Rests(v, w)
<1>1. Inbox!Evaluate(work) \in {"passed", "failed"}
  BY DEF Inbox!Evaluate
<1> DEFINE v == Inbox!Evaluate(work)
<1>2. \/ InboxRequest \/ Session!Complete \/ Session!Judge(v)
      \/ Session!Recover(Inbox!Hydrate(work)) \/ Session!Recover(work)
  BY DEF Inbox!Next, InboxRequest, InboxMost, Inbox!Complete,
         Session!Complete, Inbox!Recover, Session!Recover, Inbox!Judge, Session!Judge,
         Inbox!Answered, Session!Answered, Inbox!AnswerLost, Session!AnswerLost,
         Inbox!NotReached, Session!NotReached, Inbox!Stored, Session!Stored
<1>3. InboxSame(work) /\ InboxSame(Inbox!Hydrate(work))
  BY DEF InboxSame, Inbox!Hydrate
<1> HIDE DEF v
<1>4. InboxRequest \/ \E w : InboxSame(w) /\ Rests(v, w)
  BY <1>2, <1>3, Zenon DEF Rests
<1> QED BY <1>1, <1>4 DEF v

(* What a request leaves as it is: all the earlier ones. *)
InboxAfter(k) ==
    /\ k = Len(log) + 1 /\ Len(log') = k /\ k <= InboxMost /\ log' \in Seq(InboxRecord)
    /\ DOMAIN log' = DOMAIN log \cup {k} /\ k \notin DOMAIN log
    /\ \A i \in DOMAIN log : i \in Nat /\ i < k /\ log'[i] = log[i]
    /\ \A i \in DOMAIN log :
        /\ InboxSave(i)' <=> InboxSave(i)
        /\ InboxSend(i)' <=> InboxSend(i)
        /\ \A id : InboxWrite(i, id)' <=> InboxWrite(i, id)
    /\ Session!TypeOfEnvelope' /\ task' = task /\ task' \in Inbox!Questions
    /\ result' = result

(* An accepted request is the new end of the log. *)
LEMMA InboxGrows ==
    ASSUME InboxInv, Len(log) < InboxMost, \E r \in InboxRecord : \E w : Accepted(r, w)
    PROVE  \E k \in Nat : InboxAfter(k)
<1>0. PICK r \in InboxRecord : \E w : Accepted(r, w)
  OBVIOUS
<1>1. PICK w : Accepted(r, w)
  BY <1>0, Zenon
<1>2. log \in Seq(InboxRecord) /\ InboxMost \in Nat
  BY InboxFacts DEF InboxInv, InboxShape
<1>3. PICK k \in Nat : k = Len(log) + 1
  BY <1>2
<1>4. /\ log' \in Seq(InboxRecord) /\ Len(log') = k
      /\ DOMAIN log' = DOMAIN log \cup {k} /\ k \notin DOMAIN log
      /\ \A i \in DOMAIN log : i \in Nat /\ i < k /\ log'[i] = log[i]
  BY <1>1, <1>2, <1>3, LogGrows DEF Accepted
<1>5. \A i \in DOMAIN log :
        /\ InboxSave(i)' <=> InboxSave(i)
        /\ InboxSend(i)' <=> InboxSend(i)
        /\ \A id : InboxWrite(i, id)' <=> InboxWrite(i, id)
  BY <1>4 DEF InboxSave, InboxSend, InboxWrite
<1>6. Session!TypeOfEnvelope' /\ task' = task /\ result' = result
  BY <1>1, AcceptedEnvelope DEF InboxInv
<1>7. k <= InboxMost
  BY <1>2, <1>3
<1> QED BY <1>3, <1>4, <1>5, <1>6, <1>7 DEF InboxAfter, InboxInv

(* A request that writes no draft. *)
InboxKeeps(k, n) ==
    /\ InboxAfter(k) /\ InboxNumbers(n)
    /\ \A id : ~InboxWrite(k, id)'
    /\ \A d : InboxPaper(d)' => InboxPaper(d)
    /\ Len(work'.drafts) + Len(work'.sent) = n

(* A request that writes no draft keeps what the drafts say of the log. *)
LEMMA InboxKept ==
    ASSUME InboxInv,
           \E k, n \in Nat :
            InboxKeeps(k, n) /\ \A c \in DOMAIN work'.checks : work'.checks[c].draft <= n
    PROVE  InboxWrites'
<1>1. PICK k \in Nat, n \in Nat :
            InboxKeeps(k, n) /\ \A c \in DOMAIN work'.checks : work'.checks[c].draft <= n
  OBVIOUS
<1> USE DEF InboxKeeps
<1>2. PICK m \in Nat :
        /\ InboxNumbers(m)
        /\ \A d : InboxPaper(d) =>
            d.id <= m /\ d.revision <= Len(log) /\ InboxWritten(d)
        /\ \A id \in 1..m : InboxSaved(id)
        /\ \A i \in DOMAIN log : \A id : InboxWrite(i, id) => id \in 1..m
        /\ \A i, j \in DOMAIN log :
            InboxSave(i) /\ InboxSave(j) /\ log[i].draft = log[j].draft => i = j
  BY DEF InboxInv, InboxWrites
<1>3. m = n /\ Len(log) \in Nat
  BY <1>1, <1>2, InboxFacts DEF InboxNumbers
<1>4. \A i \in DOMAIN log : InboxSave(i)' <=> InboxSave(i)
  BY <1>1 DEF InboxAfter
<1>5. \A i \in DOMAIN log : \A id : InboxWrite(i, id)' <=> InboxWrite(i, id)
  BY <1>1 DEF InboxAfter
<1>6. /\ k = Len(log) + 1 /\ Len(log') = k
      /\ DOMAIN log' = DOMAIN log \cup {k} /\ k \notin DOMAIN log
      /\ \A i \in DOMAIN log : log'[i] = log[i]
  BY <1>1 DEF InboxAfter
<1>7. InboxNumbers(n)'
  <2>1. n <= Len(log) /\ Len(work'.drafts) + Len(work'.sent) = n
    BY <1>1 DEF InboxNumbers
  <2>2. n <= k
    BY <1>3, <1>6, <2>1
  <2> QED BY <1>6, <2>1, <2>2 DEF InboxNumbers
<1>8. ~InboxSave(k)'
  BY <1>1 DEF InboxWrite, InboxSave
<1>9. \A d : InboxWritten(d) => InboxWritten(d)'
  BY <1>1, <1>5, <1>6 DEF InboxWritten
<1>10. ASSUME NEW d, InboxPaper(d)'
       PROVE  d.id <= n /\ d.revision <= Len(log') /\ InboxWritten(d)'
  <2>1. InboxPaper(d)
    BY <1>1, <1>10
  <2>2. d.revision \in Nat
    BY <2>1, InboxFacts DEF InboxDraft
  <2>3. d.revision <= Len(log) /\ d.id <= n /\ InboxWritten(d)'
    BY <1>2, <1>3, <1>9, <2>1
  <2> QED BY <1>3, <1>6, <2>2, <2>3
<1>11. ASSUME NEW id \in 1..n PROVE InboxSaved(id)'
  <2>1. PICK i \in DOMAIN log : /\ InboxSave(i) /\ log[i].draft = id
                                /\ \A j \in DOMAIN log : InboxWrite(j, id) => i <= j
    BY <1>2, <1>3 DEF InboxSaved
  <2>2. \A j \in DOMAIN log' : InboxWrite(j, id)' => i <= j
    BY <1>1, <1>5, <1>6, <2>1
  <2> QED BY <1>4, <1>6, <2>1, <2>2 DEF InboxSaved
<1>12. \A i \in DOMAIN log' : \A id : InboxWrite(i, id)' => id \in 1..n
  BY <1>1, <1>2, <1>3, <1>5, <1>6
<1>13. \A i, j \in DOMAIN log' :
            InboxSave(i)' /\ InboxSave(j)' /\ log'[i].draft = log'[j].draft => i = j
  BY <1>2, <1>4, <1>6, <1>8
<1> QED BY <1>1, <1>7, <1>10, <1>11, <1>12, <1>13 DEF InboxWrites

(* And, unless it is a recheck, what the checks say. *)
LEMMA InboxCheckedKept ==
    ASSUME InboxInv, \E k, n \in Nat : InboxKeeps(k, n) /\ log'[k].op # "recheck",
           work'.checks = work.checks
    PROVE  InboxChecked'
<1>1. PICK k \in Nat, n \in Nat : InboxKeeps(k, n) /\ log'[k].op # "recheck"
  OBVIOUS
<1>2. /\ DOMAIN log' = DOMAIN log \cup {k} /\ k \notin DOMAIN log
      /\ \A i \in DOMAIN log : log'[i] = log[i]
      /\ \A i \in DOMAIN log : \A id : InboxWrite(i, id)' <=> InboxWrite(i, id)
      /\ \A id : ~InboxWrite(k, id)'
      /\ \A d : InboxPaper(d)' => InboxPaper(d)
  BY <1>1 DEF InboxKeeps, InboxAfter
<1>3. \A S : InboxRechecks(S) => InboxRechecks(S)'
  BY <1>1, <1>2 DEF InboxRechecks
<1>4. ASSUME NEW r \in DOMAIN log, NEW s \in DOMAIN log, NEW c \in DOMAIN work.checks,
             InboxTracked(r, s, c)
      PROVE  InboxTracked(r, s, c)'
  <2>1. PICK t \in Nat, b \in Nat :
            /\ t = work.checks[c].draft /\ b = work.checks[c].baseline
            /\ t = work'.checks[c].draft /\ b = work'.checks[c].baseline
    BY InboxFacts DEF InboxCheck
  <2>2. /\ r <= s /\ \A j \in DOMAIN log : InboxWrite(j, t) => j < r \/ j > s
        /\ \A d : InboxPaper(d) /\ d.id = t =>
            /\ d.revision >= b
            /\ d.revision > b <=> \E j \in DOMAIN log : InboxWrite(j, t) /\ j > s
    BY <1>4, <2>1 DEF InboxTracked
  <2>3. /\ \A j \in DOMAIN log' : InboxWrite(j, t)' => j < r \/ j > s
        /\ (\E j \in DOMAIN log' : InboxWrite(j, t)' /\ j > s)
           <=> \E j \in DOMAIN log : InboxWrite(j, t) /\ j > s
    BY <1>2, <2>2
  <2> QED BY <1>2, <2>1, <2>2, <2>3 DEF InboxTracked
<1>5. /\ Len(work.checks) = 1 => 1 \in DOMAIN work.checks
      /\ Len(work.checks) = 2 => 2 \in DOMAIN work.checks
  BY InboxFacts
<1> QED BY <1>2, <1>3, <1>4, <1>5 DEF InboxInv, InboxChecked, InboxOnce, InboxTwice

(* A request that saves a new draft or revises an old one. *)
InboxPens(k, n, d) ==
    /\ InboxAfter(k) /\ InboxNumbers(n)
    /\ InboxWrite(k, d.id)' /\ log'[k].letter = d.letter /\ log'[k].op # "recheck"
    /\ \A id : InboxWrite(k, id)' => id = d.id
    /\ \A p : InboxPaper(p)' => p = d \/ (InboxPaper(p) /\ p.id # d.id)
    /\ d.revision <= k
    /\ \/ /\ d.id = n + 1 /\ InboxSave(k)'
          /\ Len(work'.drafts) + Len(work'.sent) = n + 1
       \/ /\ d.id \in 1..n /\ ~InboxSave(k)'
          /\ Len(work'.drafts) + Len(work'.sent) = n
          /\ \E c : InboxPaper(c) /\ c.id = d.id /\ d.revision = c.revision + 1
    /\ work'.checks = work.checks

(* A request that writes a draft leaves it as its latest write says. *)
LEMMA InboxPenned ==
    ASSUME InboxInv, \E k, n \in Nat : \E d \in InboxDraft : InboxPens(k, n, d)
    PROVE  InboxWrites'
<1>1. PICK k \in Nat, n \in Nat, d \in InboxDraft : InboxPens(k, n, d)
  OBVIOUS
<1> USE DEF InboxPens
<1>2. PICK m \in Nat :
        /\ InboxNumbers(m)
        /\ \A p : InboxPaper(p) =>
            p.id <= m /\ p.revision <= Len(log) /\ InboxWritten(p)
        /\ \A c \in DOMAIN work.checks : work.checks[c].draft <= m
        /\ \A id \in 1..m : InboxSaved(id)
        /\ \A i \in DOMAIN log : \A id : InboxWrite(i, id) => id \in 1..m
        /\ \A i, j \in DOMAIN log :
            InboxSave(i) /\ InboxSave(j) /\ log[i].draft = log[j].draft => i = j
  BY DEF InboxInv, InboxWrites
<1>3. m = n /\ Len(log) \in Nat
  BY <1>1, <1>2, InboxFacts DEF InboxNumbers
<1>4. \A i \in DOMAIN log : InboxSave(i)' <=> InboxSave(i)
  BY <1>1 DEF InboxAfter
<1>5. \A i \in DOMAIN log : \A id : InboxWrite(i, id)' <=> InboxWrite(i, id)
  BY <1>1 DEF InboxAfter
<1>6. /\ k = Len(log) + 1 /\ Len(log') = k
      /\ DOMAIN log' = DOMAIN log \cup {k} /\ k \notin DOMAIN log
      /\ \A i \in DOMAIN log : log'[i] = log[i] /\ i \in Nat /\ i < k
  BY <1>1 DEF InboxAfter
<1>7. PICK o \in Nat : /\ Len(work'.drafts) + Len(work'.sent) = o
                       /\ \/ o = n + 1 /\ d.id = n + 1 /\ InboxSave(k)'
                          \/ o = n /\ d.id \in 1..n /\ ~InboxSave(k)'
  <2>1. n \in Nat /\ n + 1 \in Nat
    OBVIOUS
  <2> QED BY <1>1, <2>1, Zenon
<1>8. o \in Nat /\ n <= o /\ d.id \in 1..o /\ InboxNumbers(o)'
  <2>1. n <= Len(log)
    BY <1>1 DEF InboxNumbers
  <2>2. o \in Nat /\ n <= o /\ d.id \in 1..o /\ o <= n + 1
    BY <1>7
  <2>3. o <= k
    BY <1>3, <1>6, <2>1, <2>2
  <2> QED BY <1>6, <1>7, <2>2, <2>3 DEF InboxNumbers
<1>9. /\ \A id : InboxWrite(k, id)' <=> id = d.id
      /\ log'[k].draft = d.id
  BY <1>1 DEF InboxWrite
<1>10. ASSUME NEW p, InboxPaper(p)'
       PROVE  p.id <= o /\ p.revision <= Len(log') /\ InboxWritten(p)'
  <2>1. CASE p = d
    <3>1. InboxWritten(d)'
      <4>1. k \in DOMAIN log' /\ InboxWrite(k, d.id)' /\ log'[k].letter = d.letter
            /\ \A j \in DOMAIN log' : j <= k
        BY <1>1, <1>6
      <4> QED BY <4>1 DEF InboxWritten
    <3> QED BY <1>1, <1>6, <1>8, <2>1, <3>1
  <2>2. CASE InboxPaper(p) /\ p.id # d.id
    <3>1. p.revision \in Nat /\ p.id \in Nat
      BY <2>2, InboxFacts DEF InboxDraft
    <3>2. InboxWritten(p)'
      BY <1>2, <1>5, <1>6, <1>9, <2>2 DEF InboxWritten
    <3> QED BY <1>2, <1>3, <1>6, <1>8, <2>2, <3>1, <3>2
  <2> QED BY <1>1, <1>10, <2>1, <2>2
<1>11. ASSUME NEW id \in 1..o PROVE InboxSaved(id)'
  <2>1. CASE id = n + 1
    <3>1. o = n + 1 /\ InboxSave(k)' /\ log'[k].draft = id /\ k \in DOMAIN log'
      BY <1>6, <1>7, <1>9, <2>1
    <3>2. \A j \in DOMAIN log' : InboxWrite(j, id)' => j = k
      BY <1>2, <1>3, <1>5, <1>6, <2>1
    <3> QED BY <3>1, <3>2 DEF InboxSaved
  <2>2. CASE id \in 1..n
    <3>1. PICK i \in DOMAIN log : /\ InboxSave(i) /\ log[i].draft = id
                                  /\ \A j \in DOMAIN log : InboxWrite(j, id) => i <= j
      BY <1>2, <1>3, <2>2 DEF InboxSaved
    <3>2. \A j \in DOMAIN log' : InboxWrite(j, id)' => i <= j
      BY <1>5, <1>6, <3>1
    <3> QED BY <1>4, <1>6, <3>1, <3>2 DEF InboxSaved
  <2> QED BY <1>7, <2>1, <2>2
<1>12. \A i \in DOMAIN log' : \A id : InboxWrite(i, id)' => id \in 1..o
  BY <1>2, <1>3, <1>5, <1>6, <1>8, <1>9
<1>13. ASSUME NEW i \in DOMAIN log', NEW j \in DOMAIN log',
              InboxSave(i)', InboxSave(j)', log'[i].draft = log'[j].draft
       PROVE  i = j
  <2>1. ASSUME NEW a \in DOMAIN log, InboxSave(a), InboxSave(k)' PROVE log[a].draft # log'[k].draft
    <3>1. InboxWrite(a, log[a].draft)
      BY <2>1 DEF InboxWrite
    <3>2. log[a].draft \in 1..n
      BY <1>2, <1>3, <3>1
    <3>3. log'[k].draft = n + 1
      BY <1>7, <1>9, <2>1
    <3> QED BY <3>2, <3>3
  <2> QED BY <1>2, <1>4, <1>6, <1>13, <2>1
<1>14. \A c \in DOMAIN work'.checks : work'.checks[c].draft <= o
  <2> TAKE c \in DOMAIN work'.checks
  <2>1. work'.checks[c] = work.checks[c] /\ c \in DOMAIN work.checks
    BY <1>1
  <2>2. work.checks[c].draft <= n /\ work.checks[c].draft \in Nat
    BY <1>2, <1>3, <2>1, InboxFacts DEF InboxCheck
  <2> QED BY <1>8, <2>1, <2>2
<1> QED BY <1>8, <1>10, <1>11, <1>12, <1>13, <1>14 DEF InboxWrites

(* A written draft leaves the checks as they were; what they say of the    *)
(* log stays true.                                                         *)
LEMMA InboxCheckedPenned ==
    ASSUME InboxInv, \E k, n \in Nat : \E d \in InboxDraft : InboxPens(k, n, d)
    PROVE  InboxChecked'
<1>1. PICK k \in Nat, n \in Nat, d \in InboxDraft : InboxPens(k, n, d)
  OBVIOUS
<1>2. /\ DOMAIN log' = DOMAIN log \cup {k} /\ k \notin DOMAIN log
      /\ \A i \in DOMAIN log : log'[i] = log[i] /\ i \in Nat /\ i < k
      /\ \A i \in DOMAIN log : \A id : InboxWrite(i, id)' <=> InboxWrite(i, id)
      /\ \A id : InboxWrite(k, id)' <=> id = d.id
      /\ \A p : InboxPaper(p)' => p = d \/ (InboxPaper(p) /\ p.id # d.id)
      /\ work'.checks = work.checks /\ log'[k].op # "recheck"
  BY <1>1 DEF InboxPens, InboxAfter
<1>3. \A S : InboxRechecks(S) => InboxRechecks(S)'
  BY <1>2 DEF InboxRechecks
<1>4. ASSUME NEW r \in DOMAIN log, NEW s \in DOMAIN log, NEW c \in DOMAIN work.checks,
             InboxTracked(r, s, c)
      PROVE  InboxTracked(r, s, c)'
  <2>1. PICK t \in Nat, b \in Nat :
            /\ t = work.checks[c].draft /\ b = work.checks[c].baseline
            /\ t = work'.checks[c].draft /\ b = work'.checks[c].baseline
    BY <1>2, InboxFacts DEF InboxCheck
  <2>2. /\ r <= s /\ \A j \in DOMAIN log : InboxWrite(j, t) => j < r \/ j > s
        /\ \A p : InboxPaper(p) /\ p.id = t =>
            /\ p.revision >= b
            /\ p.revision > b <=> \E j \in DOMAIN log : InboxWrite(j, t) /\ j > s
    BY <1>4, <2>1 DEF InboxTracked
  <2>3. t <= n
    <3>1. PICK m \in Nat : InboxNumbers(m) /\ t <= m
      BY <2>1 DEF InboxInv, InboxWrites
    <3> QED BY <1>1, <3>1 DEF InboxPens, InboxNumbers
  <2>4. \A j \in DOMAIN log' : InboxWrite(j, t)' => j < r \/ j > s
    BY <1>2, <2>2
  <2>5. CASE t = d.id
    <3>0. d.id # n + 1
      BY <2>1, <2>3, <2>5
    <3>1. PICK p : InboxPaper(p) /\ p.id = t /\ d.revision = p.revision + 1
      BY <1>1, <2>5, <3>0, Zenon DEF InboxPens
    <3>2. p.revision \in Nat
      BY <3>1, InboxFacts DEF InboxDraft
    <3>3. d.revision > b /\ d.revision >= b
      BY <2>1, <2>2, <3>1, <3>2
    <3>4. k \in DOMAIN log' /\ InboxWrite(k, t)' /\ k > s
      BY <1>2, <2>5
    <3>5. \A q : InboxPaper(q)' /\ q.id = t => q = d
      BY <1>2, <2>5
    <3> QED BY <2>1, <2>2, <2>4, <3>3, <3>4, <3>5 DEF InboxTracked
  <2>6. CASE t # d.id
    <3>1. (\E j \in DOMAIN log' : InboxWrite(j, t)' /\ j > s)
          <=> \E j \in DOMAIN log : InboxWrite(j, t) /\ j > s
      BY <1>2, <2>6
    <3>2. \A q : InboxPaper(q)' /\ q.id = t => InboxPaper(q)
      BY <1>2, <2>6
    <3> QED BY <2>1, <2>2, <2>4, <3>1, <3>2 DEF InboxTracked
  <2> QED BY <2>5, <2>6
<1>5. /\ Len(work.checks) = 1 => 1 \in DOMAIN work.checks
      /\ Len(work.checks) = 2 => 2 \in DOMAIN work.checks
  BY InboxFacts
<1> QED BY <1>2, <1>3, <1>4, <1>5 DEF InboxInv, InboxChecked, InboxOnce, InboxTwice

(* A request that sends nothing keeps what the sent letters say of the     *)
(* log.                                                                    *)
LEMMA InboxNotSent ==
    ASSUME InboxInv, work'.sent = work.sent,
           \E k \in Nat :
            /\ InboxAfter(k) /\ ~InboxSend(k)'
            /\ work'.violated <=> work.violated \/ log'[k].op = "violate"
    PROVE  InboxSends'
<1>1. PICK k \in Nat :
            /\ InboxAfter(k) /\ ~InboxSend(k)'
            /\ work'.violated <=> work.violated \/ log'[k].op = "violate"
  OBVIOUS
<1>2. /\ DOMAIN log' = DOMAIN log \cup {k} /\ k \notin DOMAIN log
      /\ \A i \in DOMAIN log : log'[i] = log[i] /\ (InboxSend(i)' <=> InboxSend(i))
  BY <1>1 DEF InboxAfter
<1>3. {i \in DOMAIN log' : InboxSend(i)'} = {i \in DOMAIN log : InboxSend(i)}
  BY <1>1, <1>2
<1>4. work'.violated <=> \E i \in DOMAIN log' : log'[i].op = "violate"
  BY <1>1, <1>2 DEF InboxInv, InboxSends
<1>5. ASSUME work'.sent # <<>>
      PROVE  \E i \in DOMAIN log' :
                /\ InboxSend(i)' /\ \A j \in DOMAIN log' : InboxSend(j)' => j <= i
                /\ log'[i].draft = work'.sent[Len(work'.sent)].id
  BY <1>1, <1>2, <1>5 DEF InboxInv, InboxSends
<1> QED BY <1>3, <1>4, <1>5 DEF InboxInv, InboxSends

(* One that sends a letter adds it on both sides. *)
LEMMA InboxIsSent ==
    ASSUME InboxInv, work'.violated = work.violated,
           \E k \in Nat, d \in InboxDraft :
            /\ InboxAfter(k) /\ InboxSend(k)' /\ log'[k].op # "violate"
            /\ log'[k].draft = d.id /\ work'.sent = Append(work.sent, d)
    PROVE  InboxSends'
<1>1. PICK k \in Nat, d \in InboxDraft :
            /\ InboxAfter(k) /\ InboxSend(k)' /\ log'[k].op # "violate"
            /\ log'[k].draft = d.id /\ work'.sent = Append(work.sent, d)
  OBVIOUS
<1>2. /\ DOMAIN log' = DOMAIN log \cup {k} /\ k \notin DOMAIN log
      /\ \A i \in DOMAIN log : log'[i] = log[i] /\ (InboxSend(i)' <=> InboxSend(i))
      /\ \A i \in DOMAIN log : i \in Nat /\ i < k
  BY <1>1 DEF InboxAfter
<1> DEFINE S == {i \in DOMAIN log : InboxSend(i)}
<1>3. {i \in DOMAIN log' : InboxSend(i)'} = S \cup {k}
  BY <1>1, <1>2
<1>4. IsFiniteSet(S) /\ Cardinality(S) = Len(work.sent) /\ k \notin S
  BY <1>2 DEF InboxInv, InboxSends
<1>5. IsFiniteSet(S \cup {k}) /\ Cardinality(S \cup {k}) = Cardinality(S) + 1
  <2> HIDE DEF S
  <2> QED BY <1>4, FS_AddElement
<1>6. /\ Len(work'.sent) = Len(work.sent) + 1 /\ work'.sent[Len(work'.sent)] = d
  BY <1>1 DEF InboxInv, InboxShape
<1>7. work'.violated <=> \E i \in DOMAIN log' : log'[i].op = "violate"
  BY <1>1, <1>2 DEF InboxInv, InboxSends
<1>8. \E i \in DOMAIN log' :
        /\ InboxSend(i)' /\ \A j \in DOMAIN log' : InboxSend(j)' => j <= i
        /\ log'[i].draft = work'.sent[Len(work'.sent)].id
  BY <1>1, <1>2, <1>6
<1> HIDE DEF S
<1> QED BY <1>3, <1>4, <1>5, <1>6, <1>7, <1>8 DEF InboxSends

(* What stays together when neither the checks nor the letters sent change. *)
LEMMA InboxTogetherKept ==
    ASSUME InboxInv, work'.sent = work.sent, work'.checks = work.checks,
           \E k \in Nat : InboxAfter(k) /\ log'[k].op # "save_send"
    PROVE  InboxTogether'
  BY DEF InboxInv, InboxTogether, InboxAfter

(* The number of a new draft. *)
LEMMA InboxNew ==
    ASSUME InboxInv, Len(log) < InboxMost, NEW letter \in Inbox!Letters
    PROVE  \E n \in Nat, d \in InboxDraft :
            /\ InboxNumbers(n) /\ d = Inbox!NewDraft(letter) /\ d.id = n + 1
            /\ d.letter = letter /\ d.revision = 0
            /\ \A p : InboxPaper(p) => p.id # d.id
            /\ \A m \in DOMAIN work.drafts : work.drafts[m].id # d.id
<1>1. PICK n \in Nat : InboxNumbers(n) /\ \A p : InboxPaper(p) => p.id <= n
  BY DEF InboxInv, InboxWrites
<1>2. n + 1 \in 1..InboxMost
  BY <1>1, InboxFacts DEF InboxNumbers
<1> DEFINE d == [id |-> n + 1, letter |-> letter, revision |-> 0]
<1>3. d = Inbox!NewDraft(letter)
  BY <1>1 DEF Inbox!NewDraft, InboxNumbers
<1>4. d \in InboxDraft
  BY <1>2, InboxFacts DEF InboxDraft
<1>5. \A p : InboxPaper(p) => p.id # n + 1
  <2> SUFFICES ASSUME NEW p, InboxPaper(p) PROVE p.id # n + 1
    OBVIOUS
  <2>1. p.id \in Nat
    BY InboxFacts DEF InboxDraft
  <2> QED BY <1>1, <2>1
<1>6. \A m \in DOMAIN work.drafts : InboxPaper(work.drafts[m])
  BY DEF InboxPaper
<1> QED BY <1>1, <1>3, <1>4, <1>5, <1>6

(* Saving a new draft keeps the invariant. *)
LEMMA InboxSavesOnly ==
    ASSUME InboxInv, Len(log) < InboxMost,
           \E n \in Nat, d \in InboxDraft :
            /\ InboxNumbers(n) /\ d.id = n + 1 /\ d.revision = 0
            /\ \A p : InboxPaper(p) => p.id # d.id
            /\ Accepted([op |-> "save", draft |-> d.id, letter |-> d.letter],
                        [work EXCEPT !.drafts = Append(@, d)])
    PROVE  InboxInv'
<1>1. PICK n \in Nat, d \in InboxDraft :
            /\ InboxNumbers(n) /\ d.id = n + 1 /\ d.revision = 0
            /\ \A p : InboxPaper(p) => p.id # d.id
            /\ Accepted([op |-> "save", draft |-> d.id, letter |-> d.letter],
                        [work EXCEPT !.drafts = Append(@, d)])
  OBVIOUS
<1> DEFINE r == [op |-> "save", draft |-> d.id, letter |-> d.letter]
<1>2. r \in InboxRecord
  BY <1>1 DEF InboxRecord, InboxDraft
<1>3. PICK k \in Nat : InboxAfter(k) /\ log'[k] = r
  <2>1. PICK k \in Nat : InboxAfter(k)
    <3> HIDE DEF r
    <3> QED BY <1>1, <1>2, InboxGrows DEF r
  <2>2. log'[k] = r
    BY <1>1, <2>1 DEF Accepted, InboxAfter, InboxInv, InboxShape
  <2> QED BY <2>1, <2>2
<1>4. /\ work'.drafts = Append(work.drafts, d) /\ work'.sent = work.sent
      /\ work'.checks = work.checks /\ work'.violated = work.violated
      /\ work'.threads = work.threads
      /\ work' = [threads |-> work.threads, drafts |-> Append(work.drafts, d), sent |-> work.sent,
                  violated |-> work.violated, checks |-> work.checks]
  BY <1>1 DEF Accepted, InboxInv, InboxShape
<1>5. /\ work'.drafts \in Seq(InboxDraft) /\ Len(work'.drafts) = Len(work.drafts) + 1
      /\ DOMAIN work'.drafts = DOMAIN work.drafts \cup {Len(work.drafts) + 1}
      /\ work'.drafts[Len(work.drafts) + 1] = d
      /\ \A m \in DOMAIN work.drafts : work'.drafts[m] = work.drafts[m]
  BY <1>4 DEF InboxInv, InboxShape
<1>6. InboxShape'
  BY <1>3, <1>4, <1>5 DEF InboxInv, InboxShape, InboxAfter
<1>7. \A p : InboxPaper(p)' => p = d \/ InboxPaper(p)
  BY <1>4, <1>5 DEF InboxPaper
<1>8. InboxIds'
  <2>1. /\ \A m \in DOMAIN work.drafts : InboxPaper(work.drafts[m])
        /\ \A m \in DOMAIN work.sent : InboxPaper(work.sent[m])
    BY DEF InboxPaper
  <2>2. /\ \A m \in DOMAIN work.drafts : work.drafts[m].id # d.id
        /\ \A m \in DOMAIN work.sent : work.sent[m].id # d.id
    BY <1>1, <2>1
  <2>3. PICK l : DOMAIN work'.drafts = DOMAIN work.drafts \cup {l} /\ work'.drafts[l] = d
    BY <1>5
  <2>4. /\ \A m, i \in DOMAIN work.drafts : work.drafts[m].id = work.drafts[i].id => m = i
        /\ \A m \in DOMAIN work.drafts, i \in DOMAIN work.sent : work.drafts[m].id # work.sent[i].id
    BY DEF InboxInv, InboxIds
  <2>5. \A m \in DOMAIN work.drafts : work'.drafts[m] = work.drafts[m]
    BY <1>5
  <2>6. work'.sent = work.sent
    BY <1>4
  <2> QED BY <2>2, <2>3, <2>4, <2>5, <2>6 DEF InboxIds
<1>9. InboxSave(k)' /\ ~InboxSend(k)' /\ \A id : InboxWrite(k, id)' <=> id = d.id
  BY <1>3 DEF InboxSave, InboxSend, InboxWrite
<1>10. InboxPens(k, n, d)
  <2>1. Len(work'.drafts) + Len(work'.sent) = n + 1
    <3>1. PICK x \in Nat, y \in Nat : x = Len(work.drafts) /\ y = Len(work.sent)
      BY InboxFacts
    <3>2. x + y = n
      BY <1>1, <3>1 DEF InboxNumbers
    <3>3. Len(work'.drafts) = x + 1 /\ Len(work'.sent) = y
      BY <1>4, <1>5, <3>1
    <3>4. (x + 1) + y = n + 1 /\ x + (y + 1) = n + 1
      BY <3>2
    <3> QED BY <3>3, <3>4, Zenon
  <2>2. log'[k].letter = d.letter /\ log'[k].op # "recheck" /\ d.revision <= k
    BY <1>1, <1>3
  <2>3. \A p : InboxPaper(p)' => p = d \/ (InboxPaper(p) /\ p.id # d.id)
    BY <1>1, <1>7
  <2> QED BY <1>1, <1>3, <1>4, <1>9, <2>1, <2>2, <2>3, Zenon DEF InboxPens
<1>11. InboxWrites' /\ InboxChecked'
  BY <1>10, InboxPenned, InboxCheckedPenned, Zenon
<1>12. InboxSends'
  <2>1. work'.violated <=> work.violated \/ log'[k].op = "violate"
    BY <1>3, <1>4
  <2> QED BY <1>3, <1>4, <1>9, <2>1, InboxNotSent, Zenon
<1>13. InboxTogether'
  BY <1>3, <1>4, InboxTogetherKept
<1> QED BY <1>3, <1>6, <1>8, <1>11, <1>12, <1>13 DEF InboxInv, InboxAfter

(* So does saving and sending it at once. *)
LEMMA InboxSavesAndSends ==
    ASSUME InboxInv, Len(log) < InboxMost, ~task.amended,
           \E n \in Nat, d \in InboxDraft :
            /\ InboxNumbers(n) /\ d.id = n + 1 /\ d.revision = 0
            /\ \A p : InboxPaper(p) => p.id # d.id
            /\ Accepted([op |-> "save_send", draft |-> d.id, letter |-> d.letter],
                        [work EXCEPT !.sent = Append(@, d)])
    PROVE  InboxInv'
<1>1. PICK n \in Nat, d \in InboxDraft :
            /\ InboxNumbers(n) /\ d.id = n + 1 /\ d.revision = 0
            /\ \A p : InboxPaper(p) => p.id # d.id
            /\ Accepted([op |-> "save_send", draft |-> d.id, letter |-> d.letter],
                        [work EXCEPT !.sent = Append(@, d)])
  OBVIOUS
<1> DEFINE r == [op |-> "save_send", draft |-> d.id, letter |-> d.letter]
<1>2. r \in InboxRecord
  BY <1>1 DEF InboxRecord, InboxDraft
<1>3. PICK k \in Nat : InboxAfter(k) /\ log'[k] = r
  <2>1. PICK k \in Nat : InboxAfter(k)
    <3> HIDE DEF r
    <3> QED BY <1>1, <1>2, InboxGrows DEF r
  <2>2. log'[k] = r
    BY <1>1, <2>1 DEF Accepted, InboxAfter, InboxInv, InboxShape
  <2> QED BY <2>1, <2>2
<1>4. /\ work'.drafts = work.drafts /\ work'.sent = Append(work.sent, d)
      /\ work'.checks = work.checks /\ work'.violated = work.violated
      /\ work'.threads = work.threads
      /\ work' = [threads |-> work.threads, drafts |-> work.drafts, sent |-> Append(work.sent, d),
                  violated |-> work.violated, checks |-> work.checks]
  BY <1>1 DEF Accepted, InboxInv, InboxShape
<1>5. /\ work'.sent \in Seq(InboxDraft) /\ Len(work'.sent) = Len(work.sent) + 1
      /\ DOMAIN work'.sent = DOMAIN work.sent \cup {Len(work.sent) + 1}
      /\ work'.sent[Len(work.sent) + 1] = d
      /\ \A m \in DOMAIN work.sent : work'.sent[m] = work.sent[m]
  BY <1>4 DEF InboxInv, InboxShape
<1>6. InboxShape'
  BY <1>3, <1>4, <1>5 DEF InboxInv, InboxShape, InboxAfter
<1>7. \A p : InboxPaper(p)' => p = d \/ InboxPaper(p)
  BY <1>4, <1>5 DEF InboxPaper
<1>8. InboxIds'
  <2>1. \A m \in DOMAIN work.drafts : InboxPaper(work.drafts[m])
    BY DEF InboxPaper
  <2>2. \A m \in DOMAIN work.drafts : work.drafts[m].id # d.id
    BY <1>1, <2>1
  <2> QED BY <1>4, <1>5, <2>2 DEF InboxInv, InboxIds
<1>9. InboxSave(k)' /\ InboxSend(k)' /\ \A id : InboxWrite(k, id)' <=> id = d.id
  BY <1>3 DEF InboxSave, InboxSend, InboxWrite
<1>10. InboxPens(k, n, d)
  <2>1. Len(work'.drafts) + Len(work'.sent) = n + 1
    <3>1. PICK x \in Nat, y \in Nat : x = Len(work.drafts) /\ y = Len(work.sent)
      BY InboxFacts
    <3>2. x + y = n
      BY <1>1, <3>1 DEF InboxNumbers
    <3>3. Len(work'.drafts) = x /\ Len(work'.sent) = y + 1
      BY <1>4, <1>5, <3>1
    <3>4. (x + 1) + y = n + 1 /\ x + (y + 1) = n + 1
      BY <3>2
    <3> QED BY <3>3, <3>4, Zenon
  <2>2. log'[k].letter = d.letter /\ log'[k].op # "recheck" /\ d.revision <= k
    BY <1>1, <1>3
  <2>3. \A p : InboxPaper(p)' => p = d \/ (InboxPaper(p) /\ p.id # d.id)
    BY <1>1, <1>7
  <2> QED BY <1>1, <1>3, <1>4, <1>9, <2>1, <2>2, <2>3, Zenon DEF InboxPens
<1>11. InboxWrites' /\ InboxChecked'
  BY <1>10, InboxPenned, InboxCheckedPenned, Zenon
<1>12. InboxSends'
  <2>1. log'[k].op # "violate" /\ log'[k].draft = d.id
    BY <1>3
  <2> QED BY <1>3, <1>4, <1>9, <2>1, InboxIsSent, Zenon
<1>13. InboxTogether'
  BY <1>3, <1>4 DEF InboxInv, InboxTogether, InboxAfter
<1> QED BY <1>3, <1>6, <1>8, <1>11, <1>12, <1>13 DEF InboxInv, InboxAfter

(* So does every save the application accepts, whatever the task. *)
LEMMA InboxSavesAny ==
    ASSUME InboxInv, NEW letter \in Inbox!Letters, NEW send \in BOOLEAN, Inbox!Save(letter, send)
    PROVE  InboxInv' /\ result' = result
<1>1. Len(log) < InboxMost /\ result' = result
  BY DEF Inbox!Save, Inbox!Accept, InboxMost
<1>2. PICK n \in Nat, d \in InboxDraft :
            /\ InboxNumbers(n) /\ d = Inbox!NewDraft(letter) /\ d.id = n + 1
            /\ d.letter = letter /\ d.revision = 0
            /\ \A p : InboxPaper(p) => p.id # d.id
            /\ \A m \in DOMAIN work.drafts : work.drafts[m].id # d.id
  BY <1>1, InboxNew
<1> DEFINE w == [work EXCEPT !.drafts = Append(@, d)]
           sends == send /\ Inbox!MaySend(w, d)
           r == [op |-> IF sends THEN "save_send" ELSE "save", draft |-> d.id, letter |-> letter]
<1>3. Inbox!Accept(r, IF sends THEN Inbox!SentDraft(w, d) ELSE w, sends)
  BY <1>2 DEF Inbox!Save
<1>4. sends \in BOOLEAN
  OBVIOUS
<1>5. Accepted(r, IF sends THEN Inbox!SentDraft(w, d) ELSE w)
  <2> HIDE DEF sends, w
  <2> QED BY <1>3, <1>4 DEF Inbox!Accept, Accepted
<1>6. CASE ~sends
  <2>1. Accepted([op |-> "save", draft |-> d.id, letter |-> d.letter], w)
    <3> HIDE DEF sends, w
    <3> QED BY <1>2, <1>5, <1>6
  <2>2. InboxInv'
    BY <1>1, <1>2, <2>1, InboxSavesOnly, Zenon
  <2> QED BY <1>1, <2>2
<1>7. CASE sends
  <2>1. /\ w.drafts = Append(work.drafts, d) /\ w.checks = work.checks /\ w.sent = work.sent
        /\ work.drafts \in Seq(InboxDraft)
    BY DEF InboxInv, InboxShape
  <2>2. PICK l \in Nat : l = Len(work.drafts) /\ DOMAIN work.drafts = 1..l
    BY InboxFacts
  <2>3. /\ w.drafts \in Seq(InboxDraft) /\ Len(w.drafts) = l + 1 /\ DOMAIN w.drafts = 1..(l + 1)
        /\ w.drafts[l + 1] = d /\ \A m \in 1..l : w.drafts[m] = work.drafts[m]
    BY <2>1, <2>2
  <2>4. Inbox!DraftIndex(w, d.id) = l + 1
    <3> DEFINE I == {m \in 1..Len(w.drafts) : w.drafts[m].id = d.id}
    <3>1. Inbox!DraftIndex(w, d.id) = IF I # {} THEN Inbox!Min(I) ELSE 0
      BY DEF Inbox!DraftIndex, Inbox!SelectInSeq
    <3>2. I = {l + 1}
      <4>1. ASSUME NEW m \in 1..(l + 1) PROVE w.drafts[m].id = d.id <=> m = l + 1
        <5>1. CASE m = l + 1
          <6> HIDE DEF w
          <6> QED BY <2>3, <5>1
        <5>2. CASE m # l + 1
          <6>1. m \in 1..l
            BY <5>2
          <6>2. w.drafts[m] = work.drafts[m] /\ work.drafts[m].id # d.id
            <7> HIDE DEF w
            <7> QED BY <1>2, <2>2, <2>3, <6>1
          <6> HIDE DEF w
          <6> QED BY <5>2, <6>2
        <5> QED BY <5>1, <5>2
      <4>2. l + 1 \in 1..(l + 1)
        OBVIOUS
      <4> HIDE DEF w
      <4> QED BY <2>3, <4>1, <4>2
    <3>3. Inbox!Min(I) = l + 1
      <4>1. {l + 1} \in SUBSET Nat /\ \A x \in {l + 1} : l + 1 <= x
        OBVIOUS
      <4> HIDE DEF I
      <4> QED BY <3>2, <4>1, EarliestIs, Zenon
    <3> HIDE DEF I
    <3> QED BY <3>1, <3>2, <3>3
  <2>5. Inbox!RemoveAt(w.drafts, l + 1) = work.drafts
    <3>1. PICK t : t = Inbox!RemoveAt(w.drafts, l + 1)
      OBVIOUS
    <3>2. /\ t \in Seq(InboxDraft) /\ Len(t) + 1 = l + 1
          /\ \A m \in DOMAIN t : t[m] = w.drafts[IF m < l + 1 THEN m ELSE m + 1]
      <4>1. l + 1 \in DOMAIN w.drafts
        BY <2>3
      <4> HIDE DEF w
      <4> QED BY <2>3, <3>1, <4>1, RemovedAt
    <3>3. Len(t) = l /\ DOMAIN t = 1..l
      BY <3>2, LenProperties
    <3>4. \A m \in 1..l : t[m] = work.drafts[m]
      <4> HIDE DEF w
      <4> QED BY <2>3, <3>2, <3>3
    <3>5. t = work.drafts
      BY <2>1, <2>2, <3>2, <3>3, <3>4, SeqEqual
    <3> QED BY <3>1, <3>5
  <2>6. Inbox!SentDraft(w, d) = [work EXCEPT !.sent = Append(@, d)]
    BY <2>1, <2>4, <2>5 DEF Inbox!SentDraft, InboxInv, InboxShape
  <2>7. ~task.amended
    <3> SUFFICES ASSUME task.amended PROVE FALSE
      OBVIOUS
    <3>1. Inbox!UpdatedCheck(w) = Inbox!UpdatedCheck(work)
      BY <2>1 DEF Inbox!UpdatedCheck, Inbox!SelectInSeq
    <3>2. PICK u : u = Inbox!UpdatedCheck(work)
      OBVIOUS
    <3>3. u # 0 /\ d.revision > work.checks[u].baseline
      <4> HIDE DEF w
      <4> QED BY <1>7, <2>1, <3>1, <3>2 DEF Inbox!MaySend
    <3>4. u = 2 /\ 2 \in DOMAIN work.checks
      BY <3>2, <3>3, InboxUpdated, InboxFacts
    <3>5. work.checks[u].baseline \in Nat
      BY <3>4, InboxFacts DEF InboxCheck
    <3> QED BY <1>2, <3>3, <3>5
  <2>8. Accepted([op |-> "save_send", draft |-> d.id, letter |-> d.letter],
                 [work EXCEPT !.sent = Append(@, d)])
    <3> HIDE DEF sends, w
    <3> QED BY <1>2, <1>5, <1>7, <2>6
  <2>9. InboxInv'
    BY <1>1, <1>2, <2>7, <2>8, InboxSavesAndSends, Zenon
  <2> QED BY <1>1, <2>9
<1> QED BY <1>6, <1>7

(* A violation is recorded for good. *)
LEMMA InboxViolates ==
    ASSUME InboxInv, Inbox!Violate
    PROVE  InboxInv' /\ result' = result
<1> DEFINE r == [op |-> "violate", draft |-> 0, letter |-> "stray"]
<1>1. /\ Accepted(r, [work EXCEPT !.violated = TRUE])
      /\ Len(log) < InboxMost /\ result' = result
  BY DEF Inbox!Violate, Inbox!Accept, Accepted, InboxMost
<1>2. r \in InboxRecord
  BY DEF InboxRecord, Inbox!Letters
<1>3. PICK k \in Nat : InboxAfter(k) /\ log'[k] = r
  <2>1. PICK k \in Nat : InboxAfter(k)
    <3> HIDE DEF r
    <3> QED BY <1>1, <1>2, InboxGrows
  <2>2. log'[k] = r
    BY <1>1, <2>1 DEF Accepted, InboxAfter, InboxInv, InboxShape
  <2> QED BY <2>1, <2>2
<1>4. /\ work'.drafts = work.drafts /\ work'.sent = work.sent
      /\ work'.checks = work.checks /\ work'.violated = TRUE
      /\ work' = [threads |-> work.threads, drafts |-> work.drafts, sent |-> work.sent,
                  violated |-> TRUE, checks |-> work.checks]
  BY <1>1 DEF Accepted, InboxInv, InboxShape
<1>5. InboxShape'
  BY <1>3, <1>4 DEF InboxInv, InboxShape, InboxAfter
<1>6. InboxIds'
  BY <1>4 DEF InboxInv, InboxIds
<1>7. ~InboxSave(k)' /\ ~InboxSend(k)' /\ \A id : ~InboxWrite(k, id)'
  BY <1>3 DEF InboxSave, InboxSend, InboxWrite
<1>8. PICK n \in Nat : InboxNumbers(n) /\ \A c \in DOMAIN work.checks : work.checks[c].draft <= n
  BY DEF InboxInv, InboxWrites
<1>9. InboxKeeps(k, n)
  BY <1>3, <1>4, <1>7, <1>8 DEF InboxKeeps, InboxPaper, InboxNumbers
<1>10. InboxWrites'
  BY <1>4, <1>8, <1>9, InboxKept
<1>11. InboxChecked'
  <2>1. log'[k].op # "recheck"
    BY <1>3
  <2> QED BY <1>4, <1>9, <2>1, InboxCheckedKept, Zenon
<1>12. InboxSends'
  <2>1. work'.violated <=> work.violated \/ log'[k].op = "violate"
    BY <1>3, <1>4
  <2> QED BY <1>3, <1>4, <1>7, <2>1, InboxNotSent, Zenon
<1>13. InboxTogether'
  BY <1>3, <1>4, InboxTogetherKept
<1> QED BY <1>1, <1>3, <1>5, <1>6, <1>10, <1>11, <1>12, <1>13 DEF InboxInv, InboxAfter

(* Revising a draft makes the request the latest write of it. *)
LEMMA InboxRevises ==
    ASSUME InboxInv, NEW e \in 1..InboxMost, NEW letter \in Inbox!Letters, Inbox!Revise(e, letter)
    PROVE  InboxInv' /\ result' = result
<1> DEFINE r == [op |-> "revise", draft |-> e, letter |-> letter]
<1>0. PICK i \in DOMAIN work.drafts : i = Inbox!DraftIndex(work, e) /\ work.drafts[i].id = e
  BY InboxIndex DEF Inbox!Revise
<1>1. /\ Accepted(r, [work EXCEPT !.drafts[i].letter = letter, !.drafts[i].revision = @ + 1])
      /\ Len(log) < InboxMost /\ result' = result
  BY <1>0 DEF Inbox!Revise, Inbox!Accept, Accepted, InboxMost
<1>2. r \in InboxRecord /\ e \in Nat
  BY InboxFacts DEF InboxRecord
<1>3. PICK k \in Nat : InboxAfter(k) /\ log'[k] = r
  <2>1. PICK k \in Nat : InboxAfter(k)
    <3> HIDE DEF r
    <3> QED BY <1>1, <1>2, InboxGrows
  <2>2. log'[k] = r
    BY <1>1, <2>1 DEF Accepted, InboxAfter, InboxInv, InboxShape
  <2> QED BY <2>1, <2>2
<1>4. PICK c \in InboxDraft : c = work.drafts[i] /\ c.id = e /\ InboxPaper(c)
  BY <1>0, InboxFacts DEF InboxPaper
<1>5. c.revision < InboxMost /\ c.revision \in Nat /\ c.revision + 1 <= k /\ InboxMost \in Nat
  <2>1. c.revision <= Len(log)
    BY <1>4 DEF InboxInv, InboxWrites
  <2>2. c.revision \in Nat /\ Len(log) \in Nat /\ InboxMost \in Nat
    BY <1>4, InboxFacts DEF InboxDraft
  <2>3. k = Len(log) + 1
    BY <1>3 DEF InboxAfter
  <2> QED BY <1>1, <2>1, <2>2, <2>3
<1>v. PICK v \in Nat : v = c.revision /\ v + 1 \in 0..InboxMost
  BY <1>5
<1>6. PICK d \in InboxDraft : d = [id |-> e, letter |-> letter, revision |-> v + 1]
  <2>1. [id |-> e, letter |-> letter, revision |-> v + 1] \in InboxDraft
    BY <1>v DEF InboxDraft
  <2> QED BY <2>1
<1>7. /\ work'.drafts = [work.drafts EXCEPT ![i] = d] /\ work'.sent = work.sent
      /\ work'.checks = work.checks /\ work'.violated = work.violated
      /\ work' = [threads |-> work.threads, drafts |-> [work.drafts EXCEPT ![i] = d],
                  sent |-> work.sent, violated |-> work.violated, checks |-> work.checks]
  <2>1. c = [id |-> e, letter |-> c.letter, revision |-> v]
    BY <1>4, <1>v DEF InboxDraft
  <2>2. d = [[c EXCEPT !.letter = letter] EXCEPT !.revision = @ + 1]
    <3>1. PICK x : c = [id |-> e, letter |-> x, revision |-> v]
      BY <2>1
    <3>2. [[id |-> e, letter |-> x, revision |-> v] EXCEPT !.letter = letter]
          = [id |-> e, letter |-> letter, revision |-> v]
      OBVIOUS
    <3>3. [c EXCEPT !.letter = letter] = [id |-> e, letter |-> letter, revision |-> v]
      BY <3>1, <3>2, Zenon
    <3>4. [[id |-> e, letter |-> letter, revision |-> v] EXCEPT !.revision = @ + 1]
          = [id |-> e, letter |-> letter, revision |-> v + 1]
      OBVIOUS
    <3> QED BY <1>6, <3>3, <3>4, Zenon
  <2> DEFINE a == [work.drafts EXCEPT ![i].letter = letter]
             b == [a EXCEPT ![i].revision = @ + 1]
  <2>3. work' = [[work EXCEPT !.drafts = a] EXCEPT !.drafts = b]
    BY <1>1 DEF Accepted, InboxInv, InboxShape
  <2>4. work' = [threads |-> work.threads, drafts |-> b, sent |-> work.sent,
                 violated |-> work.violated, checks |-> work.checks]
    <3> HIDE DEF a, b
    <3> QED BY <2>3 DEF InboxInv, InboxShape
  <2>5. b = [work.drafts EXCEPT ![i] = d]
    BY <1>0, <1>4, <2>2 DEF InboxInv, InboxShape
  <2> HIDE DEF a, b
  <2> QED BY <2>4, <2>5
<1>8. /\ work'.drafts \in Seq(InboxDraft) /\ Len(work'.drafts) = Len(work.drafts)
      /\ DOMAIN work'.drafts = DOMAIN work.drafts /\ work'.drafts[i] = d
      /\ \A m \in DOMAIN work.drafts : m # i => work'.drafts[m] = work.drafts[m]
  BY <1>0, <1>7 DEF InboxInv, InboxShape
<1>9. InboxShape'
  BY <1>3, <1>7, <1>8 DEF InboxInv, InboxShape, InboxAfter
<1>10. /\ InboxIds'
       /\ \A m \in DOMAIN work.drafts : m # i => work.drafts[m].id # e
       /\ \A n \in DOMAIN work.sent : work.sent[n].id # e
  BY <1>0, <1>6, <1>7, <1>8 DEF InboxInv, InboxIds
<1>11. \A p : InboxPaper(p)' => p = d \/ (InboxPaper(p) /\ p.id # d.id)
  <2>1. d.id = e
    BY <1>6
  <2>2. \A m \in DOMAIN work'.drafts :
            work'.drafts[m] = d
            \/ (m \in DOMAIN work.drafts /\ m # i /\ work'.drafts[m] = work.drafts[m])
    <3> TAKE m \in DOMAIN work'.drafts
    <3>1. CASE m = i
      BY <1>8, <3>1, Zenon
    <3>2. CASE m # i
      BY <1>8, <3>2, Zenon
    <3> QED BY <3>1, <3>2
  <2>3. \A n \in DOMAIN work.sent : InboxPaper(work.sent[n]) /\ work.sent[n].id # e
    <3> TAKE n \in DOMAIN work.sent
    <3>1. work.sent[n].id # e
      BY <1>10
    <3>2. PICK p : p = work.sent[n]
      OBVIOUS
    <3>3. InboxPaper(p)
      BY <3>2, Zenon DEF InboxPaper
    <3> QED BY <3>1, <3>2, <3>3
  <2>4. \A m \in DOMAIN work.drafts : m # i =>
            InboxPaper(work.drafts[m]) /\ work.drafts[m].id # e
    BY <1>10, Zenon DEF InboxPaper
  <2>5. ASSUME NEW p, InboxPaper(p)' PROVE p = d \/ (InboxPaper(p) /\ p.id # e)
    <3>1. \/ \E m \in DOMAIN work'.drafts : p = work'.drafts[m]
          \/ \E m \in DOMAIN work.sent : p = work.sent[m]
      <4>1. \/ \E m \in DOMAIN work'.drafts : p = work'.drafts[m]
            \/ \E m \in DOMAIN work'.sent : p = work'.sent[m]
        BY <2>5, Zenon DEF InboxPaper
      <4>2. work'.sent = work.sent
        BY <1>7
      <4> QED BY <4>1, <4>2, Zenon
    <3>2. CASE \E m \in DOMAIN work'.drafts : p = work'.drafts[m]
      <4>1. PICK m \in DOMAIN work'.drafts : p = work'.drafts[m]
        BY <3>2
      <4>2. CASE work'.drafts[m] = d
        BY <4>1, <4>2
      <4>3. CASE m \in DOMAIN work.drafts /\ m # i /\ work'.drafts[m] = work.drafts[m]
        BY <2>4, <4>1, <4>3, Zenon
      <4> QED BY <2>2, <4>2, <4>3, Zenon
    <3>3. CASE \E m \in DOMAIN work.sent : p = work.sent[m]
      BY <2>3, <3>3, Zenon
    <3> QED BY <3>1, <3>2, <3>3, Zenon
  <2> QED BY <2>1, <2>5
<1>12. /\ ~InboxSave(k)' /\ ~InboxSend(k)' /\ (\A id : InboxWrite(k, id)' <=> id = d.id)
       /\ log'[k].op # "recheck" /\ log'[k].letter = d.letter /\ log'[k].op # "save_send"
  BY <1>3, <1>6 DEF InboxSave, InboxSend, InboxWrite
<1>13. PICK n \in Nat : InboxNumbers(n) /\ \A p : InboxPaper(p) => p.id <= n
  BY DEF InboxInv, InboxWrites
<1>14. InboxPens(k, n, d)
  <2>1. d.id \in 1..n /\ d.id = c.id /\ d.revision = c.revision + 1
    BY <1>4, <1>6, <1>v, <1>13
  <2>2. Len(work'.drafts) + Len(work'.sent) = n
    BY <1>7, <1>8, <1>13 DEF InboxNumbers
  <2>3. d.revision <= k
    BY <1>5, <1>6, <1>v
  <2> QED BY <1>3, <1>4, <1>7, <1>11, <1>12, <1>13, <2>1, <2>2, <2>3, Zenon DEF InboxPens
<1>15. InboxWrites' /\ InboxChecked'
  BY <1>14, InboxPenned, InboxCheckedPenned, Zenon
<1>16. InboxSends'
  <2>1. work'.violated <=> work.violated \/ log'[k].op = "violate"
    BY <1>3, <1>7
  <2> QED BY <1>3, <1>7, <1>12, <2>1, InboxNotSent, Zenon
<1>17. InboxTogether'
  BY <1>3, <1>7, <1>12, InboxTogetherKept, Zenon
<1> QED BY <1>1, <1>3, <1>9, <1>10, <1>15, <1>16, <1>17 DEF InboxInv, InboxAfter

(* Sending a draft moves it, as its latest write left it, to the sent      *)
(* letters.                                                                *)
LEMMA InboxDelivers ==
    ASSUME InboxInv, NEW e \in 1..InboxMost, Inbox!Send(e)
    PROVE  InboxInv' /\ result' = result
<1> DEFINE r == [op |-> "send", draft |-> e, letter |-> "stray"]
<1>0. PICK i \in DOMAIN work.drafts : i = Inbox!DraftIndex(work, e) /\ work.drafts[i].id = e
  BY InboxIndex DEF Inbox!Send
<1>4. PICK d \in InboxDraft : d = work.drafts[i] /\ d.id = e /\ InboxPaper(d)
  BY <1>0, InboxFacts DEF InboxPaper
<1>t. PICK t : t = Inbox!RemoveAt(work.drafts, i)
  OBVIOUS
<1>1. /\ Accepted(r, [work EXCEPT !.drafts = t, !.sent = Append(@, d)])
      /\ Len(log) < InboxMost /\ result' = result /\ Inbox!MaySend(work, d)
  BY <1>0, <1>4, <1>t DEF Inbox!Send, Inbox!SentDraft, Inbox!Accept, Accepted, InboxMost
<1>2. r \in InboxRecord
  BY InboxFacts DEF InboxRecord, Inbox!Letters
<1>3. PICK k \in Nat : InboxAfter(k) /\ log'[k] = r
  <2>1. PICK k \in Nat : InboxAfter(k)
    <3> HIDE DEF r
    <3> QED BY <1>1, <1>2, InboxGrows
  <2>2. log'[k] = r
    BY <1>1, <2>1 DEF Accepted, InboxAfter, InboxInv, InboxShape
  <2> QED BY <2>1, <2>2
<1>5. /\ t \in Seq(InboxDraft) /\ Len(t) + 1 = Len(work.drafts)
      /\ \A n \in DOMAIN t : \E m \in DOMAIN work.drafts :
            m # i /\ t[n] = work.drafts[m] /\ m = (IF n < i THEN n ELSE n + 1)
  <2>1. work.drafts \in Seq(InboxDraft)
    BY DEF InboxInv, InboxShape
  <2> QED BY <1>t, <2>1, RemovedAt
<1>6. /\ work'.drafts = t /\ work'.sent = Append(work.sent, d)
      /\ work'.checks = work.checks /\ work'.violated = work.violated
      /\ work' = [threads |-> work.threads, drafts |-> t, sent |-> Append(work.sent, d),
                  violated |-> work.violated, checks |-> work.checks]
  BY <1>1 DEF Accepted, InboxInv, InboxShape
<1>7. PICK l : /\ Append(work.sent, d) \in Seq(InboxDraft)
               /\ l = Len(work.sent) + 1 /\ Len(Append(work.sent, d)) = l
               /\ DOMAIN Append(work.sent, d) = DOMAIN work.sent \cup {l}
               /\ Append(work.sent, d)[l] = d
               /\ \A m \in DOMAIN work.sent : Append(work.sent, d)[m] = work.sent[m]
  BY DEF InboxInv, InboxShape
<1>8. InboxShape'
  BY <1>3, <1>5, <1>6, <1>7 DEF InboxInv, InboxShape, InboxAfter
<1>9. /\ \A m, n \in DOMAIN work.drafts : work.drafts[m].id = work.drafts[n].id => m = n
      /\ \A m \in DOMAIN work.drafts, n \in DOMAIN work.sent : work.drafts[m].id # work.sent[n].id
  BY DEF InboxInv, InboxIds
<1>10. InboxIds'
  <2>1. \A m, n \in DOMAIN t : t[m].id = t[n].id => m = n
    <3> SUFFICES ASSUME NEW m \in DOMAIN t, NEW n \in DOMAIN t, t[m].id = t[n].id PROVE m = n
      OBVIOUS
    <3>1. PICK a \in DOMAIN work.drafts : t[m] = work.drafts[a] /\ a = (IF m < i THEN m ELSE m + 1)
      BY <1>5
    <3>2. PICK b \in DOMAIN work.drafts : t[n] = work.drafts[b] /\ b = (IF n < i THEN n ELSE n + 1)
      BY <1>5
    <3>3. a = b
      BY <1>9, <3>1, <3>2
    <3>4. m \in Nat /\ n \in Nat /\ i \in Nat
      BY <1>5, InboxFacts
    <3> QED BY <3>1, <3>2, <3>3, <3>4
  <2>2. \A m \in DOMAIN t : t[m].id # d.id
    BY <1>0, <1>4, <1>5, <1>9
  <2>3. \A m \in DOMAIN t, n \in DOMAIN work.sent : t[m].id # work.sent[n].id
    BY <1>5, <1>9
  <2>4. \A n \in DOMAIN Append(work.sent, d) :
            Append(work.sent, d)[n] = d
            \/ (n \in DOMAIN work.sent /\ Append(work.sent, d)[n] = work.sent[n])
    BY <1>7
  <2> QED BY <1>6, <2>1, <2>2, <2>3, <2>4 DEF InboxIds
<1>11. \A p : InboxPaper(p)' => InboxPaper(p)
  <2>1. \A n \in DOMAIN t : \E m \in DOMAIN work.drafts : t[n] = work.drafts[m]
    BY <1>5
  <2>2. \A n \in DOMAIN Append(work.sent, d) :
            Append(work.sent, d)[n] = d
            \/ (n \in DOMAIN work.sent /\ Append(work.sent, d)[n] = work.sent[n])
    BY <1>7
  <2> QED BY <1>4, <1>6, <2>1, <2>2 DEF InboxPaper
<1>12. /\ ~InboxSave(k)' /\ InboxSend(k)' /\ (\A id : ~InboxWrite(k, id)')
       /\ log'[k].op # "recheck" /\ log'[k].op # "violate" /\ log'[k].draft = d.id
       /\ log'[k].op # "save_send"
  BY <1>3, <1>4 DEF InboxSave, InboxSend, InboxWrite
<1>13. PICK n \in Nat : InboxNumbers(n) /\ \A c \in DOMAIN work.checks : work.checks[c].draft <= n
  BY DEF InboxInv, InboxWrites
<1>14. InboxKeeps(k, n)
  <2>1. Len(work'.drafts) + Len(work'.sent) = n
    <3>1. PICK x \in Nat, y \in Nat : Len(t) = x /\ Len(work.sent) = y
      BY <1>5, InboxFacts
    <3>2. (x + 1) + y = n
      BY <1>5, <1>13, <3>1 DEF InboxNumbers
    <3>3. x + (y + 1) = n
      BY <3>2
    <3>4. Len(work'.drafts) = x /\ Len(work'.sent) = y + 1
      BY <1>6, <1>7, <3>1
    <3> QED BY <3>3, <3>4, Zenon
  <2> QED BY <1>3, <1>11, <1>12, <1>13, <2>1, Zenon DEF InboxKeeps
<1>15. InboxWrites'
  <2>1. \A c \in DOMAIN work'.checks : work'.checks[c].draft <= n
    BY <1>6, <1>13
  <2> QED BY <1>14, <2>1, InboxKept, Zenon
<1>16. InboxChecked'
  BY <1>6, <1>12, <1>14, InboxCheckedKept, Zenon
<1>17. InboxSends'
  BY <1>3, <1>6, <1>12, InboxIsSent, Zenon
<1>18. InboxTogether'
  <2>1. CASE ~task.amended
    BY <1>3, <1>6, <2>1 DEF InboxInv, InboxTogether, InboxAfter
  <2>2. CASE task.amended
    <3>1. PICK u : u = Inbox!UpdatedCheck(work)
      OBVIOUS
    <3>2. u # 0 /\ work.checks[u].draft = d.id /\ d.revision > work.checks[u].baseline
          /\ d.letter = "asked"
      BY <1>1, <2>2, <3>1 DEF Inbox!MaySend
    <3>3. u = 2 /\ Len(work.checks) = 2
      BY <3>1, <3>2, InboxUpdated
    <3>4. work.sent = <<>>
      <4> SUFFICES ASSUME work.sent # <<>> PROVE FALSE
        OBVIOUS
      <4>1. work.sent[1].id = d.id
        BY <2>2, <3>2, <3>3 DEF InboxInv, InboxTogether
      <4>2. 1 \in DOMAIN work.sent
        BY DEF InboxInv, InboxShape
      <4> QED BY <1>0, <1>4, <1>9, <4>1, <4>2
    <3>5. work'.sent[1] = d /\ Len(work'.sent) = 1
      BY <1>6, <3>4
    <3>6. \A j \in DOMAIN log' : log'[j].op # "save_send"
      BY <1>3, <1>12, <2>2 DEF InboxInv, InboxTogether, InboxAfter
    <3> QED BY <1>3, <1>6, <2>2, <3>2, <3>3, <3>5, <3>6 DEF InboxTogether, InboxAfter
  <2> QED BY <2>1, <2>2
<1> QED BY <1>1, <1>3, <1>8, <1>10, <1>15, <1>16, <1>17, <1>18 DEF InboxInv, InboxAfter

(* The draft whose letter is the provisional one. *)
LEMMA InboxProvisional ==
    ASSUME InboxInv, NEW i, i = Inbox!SelectInSeq(work.drafts, LAMBDA d : d.letter = "provisional"),
           i # 0
    PROVE  i \in DOMAIN work.drafts
<1> DEFINE I == {n \in 1..Len(work.drafts) : work.drafts[n].letter = "provisional"}
<1>1. i = IF I # {} THEN Inbox!Min(I) ELSE 0
  BY DEF Inbox!SelectInSeq
<1>2. DOMAIN work.drafts = 1..Len(work.drafts) /\ Len(work.drafts) \in Nat
  BY InboxFacts
<1>3. I # {} /\ I \in SUBSET Nat
  BY <1>1, <1>2
<1>4. PICK m \in I : \A n \in I : m <= n
  <2> HIDE DEF I
  <2> QED BY <1>3, EarliestExists
<1>5. Inbox!Min(I) = m
  <2> HIDE DEF I
  <2> QED BY <1>3, <1>4, EarliestIs
<1>6. m \in DOMAIN work.drafts
  BY <1>2, <1>4
<1> HIDE DEF I
<1> QED BY <1>1, <1>3, <1>5, <1>6

(* A recheck adds a check of the draft it tracks, and the last one that is *)
(* required reports the amendment; the invariant is kept.                  *)
LEMMA InboxRechecked ==
    ASSUME InboxInv, Inbox!Recheck
    PROVE  InboxInv' /\ result' = result
<1> DEFINE first == work.checks = <<>>
           place == IF first THEN Inbox!SelectInSeq(work.drafts, LAMBDA d : d.letter = "provisional")
                    ELSE Inbox!DraftIndex(work, work.checks[1].draft)
           baseline == IF first THEN work.drafts[place].revision ELSE work.checks[1].baseline
           check == [draft |-> work.drafts[place].id, baseline |-> baseline,
                     updated |-> Len(work.checks) + 1 >= Inbox!RequiredRechecks]
<1>1. /\ task.amended /\ Inbox!UpdatedCheck(work) = 0 /\ place # 0
      /\ work.drafts[place].revision = baseline
      /\ Accepted([op |-> "recheck", draft |-> work.drafts[place].id, letter |-> "stray"],
                  [work EXCEPT !.checks = Append(@, check)])
      /\ Len(log) < InboxMost /\ result' = result
  BY DEF Inbox!Recheck, Inbox!Accept, Accepted, InboxMost
<1>2. PICK n \in Nat : n = Len(work.checks) /\ DOMAIN work.checks = 1..n
  BY InboxFacts
<1>3. n = 0 \/ n = 1
  <2>1. n # 2
    BY <1>1, <1>2, InboxUpdated
  <2>2. n <= 2
    BY <1>2 DEF InboxInv, InboxChecked
  <2> QED BY <2>1, <2>2
<1>4. first <=> n = 0
  BY <1>2 DEF InboxInv, InboxShape
<1>5. place \in DOMAIN work.drafts /\ (n = 1 => work.drafts[place].id = work.checks[1].draft)
  <2>1. CASE first
    <3>1. PICK i : i = Inbox!SelectInSeq(work.drafts, LAMBDA d : d.letter = "provisional")
      OBVIOUS
    <3>2. i = place /\ i # 0
      BY <1>1, <2>1, <3>1
    <3>3. i \in DOMAIN work.drafts
      BY <3>1, <3>2, InboxProvisional
    <3> HIDE DEF place
    <3> QED BY <1>4, <2>1, <3>2, <3>3
  <2>2. CASE ~first
    <3>1. PICK t : t = work.checks[1].draft
      OBVIOUS
    <3>2. place = Inbox!DraftIndex(work, t)
      BY <2>2, <3>1
    <3> HIDE DEF place
    <3> QED BY <1>1, <3>1, <3>2, InboxIndex
  <2> QED BY <2>1, <2>2
<1>6. PICK i \in DOMAIN work.drafts, d \in InboxDraft, t \in Nat, b \in Nat :
        /\ i = place /\ d = work.drafts[i] /\ t = d.id /\ b = d.revision /\ b = baseline
  <2>1. work.drafts[place] \in InboxDraft
    <3> HIDE DEF place
    <3> QED BY <1>5, InboxFacts
  <2>2. work.drafts[place].id \in Nat /\ work.drafts[place].revision \in Nat
    <3> HIDE DEF place
    <3> QED BY <2>1, InboxFacts DEF InboxDraft
  <2> HIDE DEF place, baseline
  <2> QED BY <1>1, <1>5, <2>1, <2>2
<1>7. n = 1 => t = work.checks[1].draft /\ b = work.checks[1].baseline
  <2>1. ~first => baseline = work.checks[1].baseline
    OBVIOUS
  <2> HIDE DEF place, baseline, first
  <2> QED BY <1>4, <1>5, <1>6, <2>1
<1> DEFINE late == Len(work.checks) + 1 >= Inbox!RequiredRechecks
<1>8. PICK c \in InboxCheck : /\ c = check /\ c.draft = t /\ c.baseline = b
                              /\ c.updated <=> n = 1
  <2>0. (n + 1 >= Inbox!RequiredRechecks) <=> n = 1
    BY <1>3 DEF Inbox!RequiredRechecks
  <2>1. late <=> n = 1
    BY <1>2, <2>0
  <2>2. late \in BOOLEAN /\ check = [draft |-> t, baseline |-> b, updated |-> late]
    <3>1. (Len(work.checks) + 1 >= Inbox!RequiredRechecks) \in BOOLEAN
      BY <1>2 DEF Inbox!RequiredRechecks
    <3>2. check = [draft |-> work.drafts[place].id, baseline |-> baseline, updated |-> late]
      OBVIOUS
    <3> HIDE DEF place, baseline, late, check
    <3> QED BY <1>6, <3>1, <3>2 DEF late
  <2>3. t \in 1..InboxMost /\ b \in 0..InboxMost
    BY <1>6 DEF InboxDraft
  <2> HIDE DEF late, check
  <2>4. check \in InboxCheck /\ check.draft = t /\ check.baseline = b /\ check.updated = late
    BY <2>2, <2>3 DEF InboxCheck
  <2> QED BY <2>1, <2>4
<1> DEFINE r == [op |-> "recheck", draft |-> t, letter |-> "stray"]
<1>9. Accepted(r, [work EXCEPT !.checks = Append(@, c)])
  <2> HIDE DEF place, baseline, check
  <2> QED BY <1>1, <1>6, <1>8
<1> HIDE DEF place, baseline, check, first, late
<1>10. r \in InboxRecord
  BY DEF InboxRecord, Inbox!Letters
<1>11. PICK k \in Nat : InboxAfter(k) /\ log'[k] = r
  <2>1. PICK k \in Nat : InboxAfter(k)
    <3> HIDE DEF r
    <3> QED BY <1>1, <1>9, <1>10, InboxGrows
  <2>2. log'[k] = r
    BY <1>9, <2>1 DEF Accepted, InboxAfter, InboxInv, InboxShape
  <2> QED BY <2>1, <2>2
<1>12. /\ work'.drafts = work.drafts /\ work'.sent = work.sent /\ work'.violated = work.violated
       /\ work'.checks = Append(work.checks, c)
       /\ work' = [threads |-> work.threads, drafts |-> work.drafts, sent |-> work.sent,
                   violated |-> work.violated, checks |-> Append(work.checks, c)]
  BY <1>9 DEF Accepted, InboxInv, InboxShape
<1>13. /\ work'.checks \in Seq(InboxCheck) /\ Len(work'.checks) = n + 1
       /\ DOMAIN work'.checks = 1..(n + 1) /\ work'.checks[n + 1] = c
       /\ \A m \in 1..n : work'.checks[m] = work.checks[m]
  BY <1>2, <1>12 DEF InboxInv, InboxShape
<1>14. InboxShape'
  BY <1>11, <1>12, <1>13 DEF InboxInv, InboxShape, InboxAfter
<1>15. InboxIds'
  BY <1>12 DEF InboxInv, InboxIds
<1>16. /\ ~InboxSave(k)' /\ ~InboxSend(k)' /\ (\A id : ~InboxWrite(k, id)')
       /\ log'[k].op = "recheck"
  BY <1>11 DEF InboxSave, InboxSend, InboxWrite
<1>17. PICK m \in Nat : /\ InboxNumbers(m)
                        /\ \A a \in DOMAIN work.checks : work.checks[a].draft <= m
                        /\ \A p : InboxPaper(p) => p.id <= m
  BY DEF InboxInv, InboxWrites
<1>18. /\ InboxPaper(d) /\ t <= m
       /\ \A p : InboxPaper(p)' => InboxPaper(p)
       /\ \A p : InboxPaper(p) /\ p.id = t => p = d
  <2>1. InboxPaper(d)
    BY <1>6 DEF InboxPaper
  <2>2. \A p : InboxPaper(p) /\ p.id = t => p = d
    BY <1>6 DEF InboxInv, InboxIds, InboxPaper
  <2> QED BY <1>6, <1>12, <1>17, <2>1, <2>2 DEF InboxPaper
<1>19. InboxWrites'
  <2>1. InboxKeeps(k, m)
    BY <1>11, <1>12, <1>16, <1>17, <1>18 DEF InboxKeeps, InboxNumbers
  <2>2. \A a \in DOMAIN work'.checks : work'.checks[a].draft <= m
    <3> TAKE a \in DOMAIN work'.checks
    <3>1. CASE a = n + 1
      BY <1>8, <1>13, <1>18, <3>1
    <3>2. CASE a \in 1..n
      BY <1>2, <1>13, <1>17, <3>2
    <3> QED BY <1>13, <3>1, <3>2
  <2> QED BY <2>1, <2>2, InboxKept, Zenon
<1>20. InboxSends'
  <2>1. work'.violated <=> work.violated \/ log'[k].op = "violate"
    BY <1>12, <1>16
  <2> QED BY <1>11, <1>12, <1>16, <2>1, InboxNotSent, Zenon
<1>21. InboxTogether'
  <2>1. work.sent = <<>>
    BY <1>1, <1>2, <1>3 DEF InboxInv, InboxTogether
  <2>2. \A j \in DOMAIN log' : log'[j].op # "save_send"
    BY <1>1, <1>11, <1>16 DEF InboxInv, InboxTogether, InboxAfter
  <2>3. work'.sent = <<>> /\ Len(work'.sent) <= 1
    BY <1>12, <2>1
  <2> QED BY <1>1, <1>11, <2>2, <2>3 DEF InboxTogether, InboxAfter
<1>22. /\ DOMAIN log' = DOMAIN log \cup {k} /\ k \notin DOMAIN log
       /\ \A j \in DOMAIN log : log'[j] = log[j] /\ j \in Nat /\ j < k
       /\ \A j \in DOMAIN log : \A id : InboxWrite(j, id)' <=> InboxWrite(j, id)
  BY <1>11 DEF InboxAfter
<1>23. \A S : InboxRechecks(S) => InboxRechecks(S \cup {k})'
  BY <1>16, <1>22 DEF InboxRechecks
<1>24. \A p : InboxPaper(p)' /\ p.id = t => p.revision = b
  BY <1>6, <1>18
<1>25. ASSUME NEW a \in DOMAIN log', a <= k, NEW x \in {1, 2}, work'.checks[x] = c,
              \A j \in DOMAIN log : InboxWrite(j, t) => j < a
       PROVE  InboxTracked(a, k, x)'
  <2>1. \A j \in DOMAIN log' : InboxWrite(j, t)' => j < a /\ ~(j > k)
    BY <1>16, <1>22, <1>25
  <2>2. work'.checks[x].draft = t /\ work'.checks[x].baseline = b
    BY <1>8, <1>25
  <2>3. b >= b /\ ~(b > b)
    OBVIOUS
  <2> QED BY <1>24, <1>25, <2>1, <2>2, <2>3 DEF InboxTracked
<1>26. ASSUME n = 0 PROVE InboxOnce(k)'
  <2>1. InboxRechecks({}) /\ {} \cup {k} = {k}
    BY <1>2, <1>26 DEF InboxInv, InboxChecked
  <2>2. InboxRechecks({k})'
    BY <1>23, <2>1
  <2>3. InboxTracked(k, k, 1)'
    BY <1>13, <1>22, <1>25, <1>26
  <2> QED BY <2>2, <2>3 DEF InboxOnce
<1>27. ASSUME n = 1, NEW a \in DOMAIN log, InboxOnce(a)
       PROVE  InboxTwice(a, k)'
  <2>1. InboxRechecks({a}) /\ {a} \cup {k} = {a, k}
    BY <1>27 DEF InboxOnce
  <2>2. InboxRechecks({a, k})'
    BY <1>23, <2>1
  <2>3. /\ \A j \in DOMAIN log : InboxWrite(j, t) => j < a \/ j > a
        /\ d.revision > b <=> \E j \in DOMAIN log : InboxWrite(j, t) /\ j > a
    BY <1>6, <1>7, <1>18, <1>27 DEF InboxOnce, InboxTracked
  <2>4. \A j \in DOMAIN log : InboxWrite(j, t) => j < a
    BY <1>6, <2>3
  <2>5. InboxTracked(a, k, 2)'
    BY <1>13, <1>22, <1>25, <1>27, <2>4
  <2> QED BY <1>22, <2>2, <2>5 DEF InboxTwice
<1>28. InboxChecked'
  <2>1. \A a \in DOMAIN work'.checks : work'.checks[a].updated <=> a = 2
    <3> TAKE a \in DOMAIN work'.checks
    <3>1. CASE a = n + 1
      BY <1>3, <1>8, <1>13, <3>1
    <3>2. CASE a \in 1..n
      BY <1>2, <1>13, <3>2 DEF InboxInv, InboxChecked
    <3> QED BY <1>13, <3>1, <3>2
  <2>2. CASE n = 0
    <3>1. \E a \in DOMAIN log' : InboxOnce(a)'
      BY <1>22, <1>26, <2>2
    <3> QED BY <1>13, <2>1, <2>2, <3>1 DEF InboxChecked
  <2>3. CASE n = 1
    <3>1. PICK a \in DOMAIN log : InboxOnce(a)
      BY <1>2, <2>3 DEF InboxInv, InboxChecked
    <3>2. \E x, y \in DOMAIN log' : InboxTwice(x, y)'
      BY <1>22, <1>27, <2>3, <3>1
    <3> QED BY <1>13, <2>1, <2>3, <3>2 DEF InboxChecked
  <2> QED BY <1>3, <2>2, <2>3
<1> QED BY <1>1, <1>11, <1>14, <1>15, <1>19, <1>20, <1>21, <1>28 DEF InboxInv, InboxAfter

(* Every request the application accepts keeps the invariant and stores no *)
(* result.                                                                 *)
LEMMA InboxRequested ==
    ASSUME InboxInv, InboxRequest PROVE InboxInv' /\ result' = result
  BY InboxSavesAny, InboxRevises, InboxDelivers, InboxViolates, InboxRechecked DEF InboxRequest

(* Without an amendment: one letter, the right one, and no violation.      *)
LEMMA InboxSentOnce ==
    ASSUME InboxInv
    PROVE  Inbox!Deserved
           <=> /\ ~work.violated /\ Len(work.sent) = 1 /\ work.sent[1].letter = "asked"
               /\ task.amended =>
                    LET sent == work.sent[1].id
                    IN  /\ Inbox!At({"save"}) = {Inbox!Min(Inbox!Writes(sent))}
                        /\ Cardinality(Inbox!At({"recheck"})) = Inbox!RequiredRechecks
                        /\ \A i \in Inbox!Writes(sent) :
                            i < Inbox!Min(Inbox!At({"recheck"})) \/ i > Inbox!Max(Inbox!At({"recheck"}))
                        /\ Inbox!Max(Inbox!Writes(sent)) > Inbox!Max(Inbox!At({"recheck"}))
<1> DEFINE S == Inbox!At({"send", "save_send"})
           V == Inbox!At({"violate"})
<1>1. V # {} <=> work.violated
  BY DEF Inbox!At, InboxInv, InboxSends
<1>2. /\ S = {i \in DOMAIN log : InboxSend(i)} /\ S \in SUBSET Nat
      /\ Inbox!Cardinality(S) = Len(work.sent)
  <2>1. S = {i \in DOMAIN log : InboxSend(i)}
    BY DEF Inbox!At, InboxSend
  <2>2. S \in SUBSET Nat
    BY <2>1, InboxFacts
  <2> HIDE DEF S
  <2> QED BY <2>1, <2>2, SameCardinality DEF InboxInv, InboxSends
<1>3. CASE Len(work.sent) # 1
  <2> HIDE DEF S
  <2> QED BY <1>2, <1>3 DEF Inbox!Deserved, S
<1>4. CASE Len(work.sent) = 1
  <2>1. PICK i \in DOMAIN log :
            /\ InboxSend(i) /\ \A j \in DOMAIN log : InboxSend(j) => j <= i
            /\ log[i].draft = work.sent[1].id
    BY <1>4 DEF InboxInv, InboxSends, InboxShape
  <2>2. i \in S /\ \A j \in S : j <= i
    <3> HIDE DEF S
    <3> QED BY <1>2, <2>1
  <2>3. Inbox!Max(S) = i
    <3> HIDE DEF S
    <3> QED BY <1>2, <2>2, LatestIs
  <2>4. PICK id : id = work.sent[1].id /\ log[Inbox!Max(S)].draft = id
    <3> HIDE DEF S
    <3> QED BY <2>1, <2>3
  <2>5. PICK j \in DOMAIN log :
            /\ InboxWrite(j, id) /\ log[j].letter = work.sent[1].letter
            /\ \A m \in DOMAIN log : InboxWrite(m, id) => m <= j
    <3>1. 1 \in DOMAIN work.sent
      BY <1>4, InboxFacts
    <3>2. InboxPaper(work.sent[1])
      BY <3>1 DEF InboxPaper
    <3>3. InboxWritten(work.sent[1])
      BY <3>2 DEF InboxInv, InboxWrites
    <3> QED BY <2>4, <3>3 DEF InboxWritten
  <2>6. log[Inbox!Max(Inbox!Writes(id))].letter = work.sent[1].letter
    <3> DEFINE W == Inbox!Writes(id)
    <3>1. W = {m \in DOMAIN log : InboxWrite(m, id)}
      BY DEF Inbox!Writes, Inbox!At, InboxWrite, InboxSave
    <3>2. W \in SUBSET Nat /\ j \in W /\ \A m \in W : m <= j
      <4> HIDE DEF W
      <4> QED BY <2>5, <3>1, InboxFacts
    <3>3. Inbox!Max(W) = j
      <4> HIDE DEF W
      <4> QED BY <3>2, LatestIs
    <3> HIDE DEF W
    <3> QED BY <2>5, <3>3 DEF W
  <2>7. Inbox!Deserved
        <=> /\ V = {} /\ log[Inbox!Max(Inbox!Writes(id))].letter = "asked"
            /\ task.amended =>
                    /\ Inbox!At({"save"}) = {Inbox!Min(Inbox!Writes(id))}
                    /\ Inbox!Cardinality(Inbox!At({"recheck"})) = Inbox!RequiredRechecks
                    /\ \A m \in Inbox!Writes(id) :
                        m < Inbox!Min(Inbox!At({"recheck"})) \/ m > Inbox!Max(Inbox!At({"recheck"}))
                    /\ Inbox!Max(Inbox!Writes(id)) > Inbox!Max(Inbox!At({"recheck"}))
    <3> HIDE DEF S, V
    <3>1. Inbox!Cardinality(S) = 1
      BY <1>2, <1>4
    <3> QED BY <2>4, <3>1, Zenon DEF Inbox!Deserved, S, V
  <2>8. Inbox!Cardinality(Inbox!At({"recheck"})) = Cardinality(Inbox!At({"recheck"}))
    BY SameCardinality
  <2> HIDE DEF S, V
  <2> QED BY <1>1, <1>4, <2>4, <2>6, <2>7, <2>8, Zenon
<1> QED BY <1>3, <1>4

(* With one: the letter is the only draft there ever was, revised after    *)
(* the policy was seen to have changed and not while it was rechecked.     *)
LEMMA InboxSentAmended ==
    ASSUME InboxInv, task.amended, Len(work.sent) = 1
    PROVE  LET sent == work.sent[1].id
           IN  work.drafts = <<>>
               <=> /\ Inbox!At({"save"}) = {Inbox!Min(Inbox!Writes(sent))}
                   /\ Cardinality(Inbox!At({"recheck"})) = Inbox!RequiredRechecks
                   /\ \A i \in Inbox!Writes(sent) :
                        i < Inbox!Min(Inbox!At({"recheck"})) \/ i > Inbox!Max(Inbox!At({"recheck"}))
                   /\ Inbox!Max(Inbox!Writes(sent)) > Inbox!Max(Inbox!At({"recheck"}))
<1>1. PICK d \in InboxDraft, id \in Nat : d = work.sent[1] /\ id = d.id /\ InboxPaper(d)
  <2>1. 1 \in DOMAIN work.sent
    BY InboxFacts
  <2>2. work.sent[1] \in InboxDraft /\ InboxPaper(work.sent[1])
    BY <2>1, InboxFacts DEF InboxPaper
  <2>3. work.sent[1].id \in Nat
    BY <2>2, InboxFacts DEF InboxDraft
  <2> QED BY <2>2, <2>3
<1>2. /\ \A i \in DOMAIN log : log[i].op # "save_send"
      /\ Len(work.checks) = 2 /\ id = work.checks[2].draft
      /\ d.revision > work.checks[2].baseline
  <2>1. work.sent # <<>>
    BY InboxOne
  <2> QED BY <1>1, <2>1 DEF InboxInv, InboxTogether
<1>3. PICK r, s \in DOMAIN log : InboxTwice(r, s)
  BY <1>2 DEF InboxInv, InboxChecked
<1>4. DOMAIN log \subseteq Nat
  BY InboxFacts
<1> DEFINE R == Inbox!At({"recheck"})
           W == Inbox!Writes(id)
           A == Inbox!At({"save"})
<1>5. R = {r, s} /\ r # s /\ r <= s /\ r \in Nat /\ s \in Nat
  BY <1>3, <1>4 DEF InboxTwice, InboxRechecks, InboxTracked, Inbox!At
<1>6. Cardinality(R) = Inbox!RequiredRechecks /\ Inbox!Min(R) = r /\ Inbox!Max(R) = s
  <2>1. Cardinality({r, s}) = 2
    BY <1>5, PairCount
  <2>2. Inbox!Min({r, s}) = r /\ Inbox!Max({r, s}) = s
    BY <1>5, EarliestIs, LatestIs
  <2> HIDE DEF R
  <2> QED BY <1>5, <2>1, <2>2 DEF Inbox!RequiredRechecks
<1>7. W = {i \in DOMAIN log : InboxWrite(i, id)} /\ W \in SUBSET Nat
  <2>1. W = {i \in DOMAIN log : InboxWrite(i, id)}
    BY DEF Inbox!Writes, Inbox!At, InboxWrite, InboxSave
  <2> HIDE DEF W
  <2> QED BY <1>4, <2>1
<1>8. A = {i \in DOMAIN log : InboxSave(i)}
  BY <1>2 DEF Inbox!At, InboxSave
<1> HIDE DEF R, W, A
<1>9. /\ \A i \in W : i < r \/ i > s
      /\ \E i \in W : i > s
  BY <1>1, <1>2, <1>3, <1>7 DEF InboxTwice, InboxTracked
<1>10. PICK m \in Nat :
        /\ InboxNumbers(m)
        /\ \A p : InboxPaper(p) => p.id <= m /\ InboxWritten(p)
        /\ \A e \in 1..m : InboxSaved(e)
        /\ \A i \in DOMAIN log : \A e : InboxWrite(i, e) => e \in 1..m
        /\ \A i, j \in DOMAIN log :
            InboxSave(i) /\ InboxSave(j) /\ log[i].draft = log[j].draft => i = j
  BY DEF InboxInv, InboxWrites
<1>11. Inbox!Max(W) > s
  <2>1. PICK i \in W : \A j \in W : j <= i
    BY <1>1, <1>7, <1>10 DEF InboxWritten
  <2>2. Inbox!Max(W) = i
    BY <1>7, <2>1, LatestIs
  <2>3. PICK j \in W : j > s
    BY <1>9
  <2>4. j <= i /\ i \in Nat /\ j \in Nat
    BY <1>7, <2>1
  <2> QED BY <1>5, <2>2, <2>3, <2>4
<1>12. PICK a \in DOMAIN log : /\ InboxSave(a) /\ log[a].draft = id
                               /\ \A j \in DOMAIN log : InboxWrite(j, id) => a <= j
  <2>1. id \in 1..m
    BY <1>1, <1>10 DEF InboxDraft
  <2> QED BY <1>10, <2>1 DEF InboxSaved
<1>13. Inbox!Min(W) = a /\ a \in A
  <2>1. a \in W /\ \A j \in W : a <= j
    BY <1>7, <1>12 DEF InboxWrite
  <2> QED BY <1>7, <1>8, <1>12, <2>1, EarliestIs
<1>14. work.drafts = <<>> <=> m = 1
  <2>1. PICK x \in Nat : x = Len(work.drafts)
    BY InboxFacts
  <2>2. x + 1 = m
    BY <1>10, <2>1 DEF InboxNumbers
  <2>3. work.drafts = <<>> <=> x = 0
    BY <2>1 DEF InboxInv, InboxShape
  <2> QED BY <2>2, <2>3
<1>15. ASSUME m = 1 PROVE A = {a}
  <2>1. ASSUME NEW i \in A PROVE i = a
    <3>1. InboxWrite(i, log[i].draft) /\ i \in DOMAIN log /\ InboxSave(i)
      BY <1>8, <2>1 DEF InboxWrite
    <3>2. log[i].draft \in 1..m /\ InboxWrite(a, id)
      BY <1>10, <1>12, <3>1 DEF InboxWrite
    <3>3. id \in 1..m
      BY <1>10, <3>2
    <3>4. log[i].draft = log[a].draft
      BY <1>12, <1>15, <3>2, <3>3
    <3> QED BY <1>10, <1>12, <3>1, <3>4
  <2> QED BY <1>13, <2>1
<1>16. ASSUME A = {a} PROVE m = 1
  <2>1. ASSUME NEW e \in 1..m PROVE e = id
    <3>1. PICK i \in DOMAIN log : InboxSave(i) /\ log[i].draft = e
      BY <1>10 DEF InboxSaved
    <3>2. i = a
      BY <1>8, <1>16, <3>1
    <3> QED BY <1>12, <3>1, <3>2
  <2>2. id \in 1..m
    BY <1>10, <1>12 DEF InboxWrite
  <2>3. 1 \in 1..m /\ m \in 1..m
    BY <2>2
  <2> QED BY <2>1, <2>3
<1>17. work.drafts = <<>> <=> A = {Inbox!Min(W)}
  BY <1>13, <1>14, <1>15, <1>16
<1>18. work.drafts = <<>>
       <=> /\ A = {Inbox!Min(W)} /\ Cardinality(R) = Inbox!RequiredRechecks
           /\ \A i \in W : i < Inbox!Min(R) \/ i > Inbox!Max(R)
           /\ Inbox!Max(W) > Inbox!Max(R)
  BY <1>6, <1>9, <1>11, <1>17
<1> QED BY <1>1, <1>18, Zenon DEF A, R, W

(* The evaluator passes exactly the work that the requests make deserved. *)
LEMMA InboxJudged ==
    ASSUME InboxInv PROVE Inbox!Evaluate(work) = "passed" <=> Inbox!Deserved
<1>1. PICK u : u = Inbox!UpdatedCheck(work)
  OBVIOUS
<1>2. Inbox!Evaluate(work) = "passed"
      <=> /\ Len(work.sent) = 1 /\ work.sent[1].letter = "asked" /\ ~work.violated
          /\ task.amended =>
                /\ Len(work.checks) >= Inbox!RequiredRechecks /\ u # 0
                /\ work.sent[1].id = work.checks[u].draft
                /\ work.sent[1].revision > work.checks[u].baseline
                /\ work.drafts = <<>>
  BY <1>1 DEF Inbox!Evaluate
<1>3. CASE ~task.amended
  BY <1>2, <1>3, InboxSentOnce, Zenon
<1>4. CASE Len(work.sent) # 1
  BY <1>2, <1>4, InboxSentOnce, Zenon
<1>5. CASE task.amended /\ Len(work.sent) = 1
  <2>1. /\ Len(work.checks) = 2 /\ work.sent[1].id = work.checks[2].draft
        /\ work.sent[1].revision > work.checks[2].baseline
    <3>1. work.sent # <<>>
      BY <1>5, InboxOne
    <3> QED BY <1>5, <3>1 DEF InboxInv, InboxTogether
  <2>2. u = 2
    BY <1>1, <2>1, InboxUpdated
  <2>3. Len(work.checks) >= Inbox!RequiredRechecks /\ u # 0
    BY <2>1, <2>2 DEF Inbox!RequiredRechecks
  <2>4. Inbox!Evaluate(work) = "passed"
        <=> work.sent[1].letter = "asked" /\ ~work.violated /\ work.drafts = <<>>
    BY <1>2, <1>5, <2>1, <2>2, <2>3, Zenon
  <2> QED BY <1>5, <2>4, InboxSentOnce, InboxSentAmended, Zenon
<1> QED BY <1>3, <1>4, <1>5, Zenon

-----------------------------------------------------------------------------
(* The forum *)

ForumMost == Requests["forum-lite"]
ForumTriaged == {"lock", "pin", "report", "move", "edit_title", "mark_duplicate"}
ForumRecord ==
    [thread : Forum!Threads, kind : ForumTriaged \cup {"reply"}, right : BOOLEAN]

ForumShape ==
    /\ work = [locked |-> work.locked, replied |-> work.replied, answered |-> work.answered,
               value |-> work.value, actions |-> work.actions]
    /\ work.locked \subseteq Forum!Threads
    /\ work.replied \in BOOLEAN /\ work.answered \in BOOLEAN
    /\ work.value \in [{"move", "edit_title"} -> BOOLEAN]
    /\ work.actions \in Seq(ForumRecord)
    /\ log \in Seq(ForumRecord)

Does(record, kind) == record.kind = kind /\ record.thread = "target"

ForumReplies ==
    /\ work.answered <=> \E i \in DOMAIN log : Does(log[i], "reply") /\ log[i].right
    /\ work.answered => work.replied

(* The thread is locked after it is reported and before it is pinned. *)
ForumLocks ==
    /\ "target" \in work.locked <=> \E i \in DOMAIN log : Does(log[i], "lock")
    /\ \A i, j \in DOMAIN log : Does(log[i], "lock") /\ Does(log[j], "report") => j < i
    /\ \A i \in DOMAIN log :
        Does(log[i], "pin") => \E j \in DOMAIN log : Does(log[j], "lock") /\ j < i

(* The first action of a kind is the first request of that kind. *)
ForumNever(kind) ==
    /\ \A i \in DOMAIN log : ~Does(log[i], kind)
    /\ \A n \in DOMAIN work.actions : ~Does(work.actions[n], kind)
ForumOnce(kind) ==
    \E i \in DOMAIN log, n \in DOMAIN work.actions :
        /\ log[i] = work.actions[n] /\ Does(log[i], kind)
        /\ \A j \in DOMAIN log : Does(log[j], kind) => i <= j
        /\ \A m \in DOMAIN work.actions : Does(work.actions[m], kind) => n <= m
ForumFirst(kind) == ForumNever(kind) \/ ForumOnce(kind)

(* The value is as the latest request left it. *)
ForumValue(kind) ==
    \/ \A i \in DOMAIN log : ~Does(log[i], kind)
    \/ \E i \in DOMAIN log :
        /\ Does(log[i], kind) /\ log[i].right = work.value[kind]
        /\ \A j \in DOMAIN log : Does(log[j], kind) => j <= i

ForumMark == [thread |-> "duplicate", kind |-> "mark_duplicate", right |-> TRUE]
ForumMarks ==
    (\E n \in DOMAIN work.actions : work.actions[n] = ForumMark)
    <=> \E i \in DOMAIN log : log[i].kind = "mark_duplicate" /\ log[i].thread = "duplicate"

(* How far a question's order is followed after one more action. *)
ForumOrders(question, record, n) ==
    /\ record.thread = "target" \/ "mark_duplicate" \in question.required
    /\ n < Len(question.order) /\ record.kind = question.order[n + 1]
ForumNext(question, n, record) == IF ForumOrders(question, record, n) THEN n + 1 ELSE n

(* The fold by which the evaluator counts. *)
ForumLast(S) == CHOOSE x \in S : \A y \in S : x >= y
ForumFold(g, question, s) ==
    g = [S \in SUBSET (DOMAIN s) |->
            IF S = {} THEN 0
            ELSE ForumNext(question, g[S \ {ForumLast(S)}], s[ForumLast(S)])]
ForumFolded(question, s, f) ==
    /\ \E g : ForumFold(g, question, s)
    /\ \A g : ForumFold(g, question, s) => g[DOMAIN s] = f

(* What it counts: how much of the order the requests contain. *)
ForumFar(f) ==
    /\ f \in Nat
    /\ f >= 1 <=> \E i \in DOMAIN log : ForumOrders(task, log[i], 0)
    /\ f >= 2 <=> \E i, j \in DOMAIN log :
                    i < j /\ ForumOrders(task, log[i], 0) /\ ForumOrders(task, log[j], 1)
    /\ f >= 3 <=> \E i, j, k \in DOMAIN log :
                    /\ i < j /\ ForumOrders(task, log[i], 0) /\ ForumOrders(task, log[j], 1)
                    /\ j < k /\ ForumOrders(task, log[k], 2)
    /\ f <= Len(task.order)

ForumInv ==
    /\ Session!TypeOfEnvelope /\ Len(log) <= ForumMost /\ task \in Forum!Questions
    /\ ForumShape /\ ForumReplies /\ ForumLocks /\ ForumMarks
    /\ \A kind \in ForumTriaged : ForumFirst(kind)
    /\ \A kind \in {"move", "edit_title"} : ForumValue(kind)
    /\ \E f : ForumFar(f) /\ ForumFolded(task, work.actions, f)

(* The largest of a set of places. *)
LEMMA ForumLastIs ==
    ASSUME NEW k \in Nat, NEW S \in SUBSET (1..k)
    PROVE  /\ S # {} => ForumLast(S) \in S
           /\ k \in S => ForumLast(S) = k
<1>1. ASSUME S # {} PROVE ForumLast(S) \in S
  <2>1. PICK m \in S : \A n \in S : n <= m
    <3>1. S \in SUBSET (0..k)
      OBVIOUS
    <3> QED BY <1>1, <3>1, LatestExists
  <2>2. S \in SUBSET Nat
    OBVIOUS
  <2>3. ForumLast(S) = m
    BY <2>1, <2>2, LargestIs DEF ForumLast
  <2> QED BY <2>1, <2>3
<1>2. ASSUME k \in S PROVE ForumLast(S) = k
  <2>1. S \in SUBSET Nat /\ \A n \in S : n <= k
    OBVIOUS
  <2> QED BY <1>2, <2>1, LargestIs DEF ForumLast
<1> QED BY <1>1, <1>2

(* What the fold is of each subset of the positions. *)
LEMMA ForumFoldAt ==
    ASSUME NEW t, NEW s, NEW g
    PROVE  ForumFold(g, t, s)
           <=> /\ g = [S \in SUBSET (DOMAIN s) |-> g[S]]
               /\ \A S \in SUBSET (DOMAIN s) :
                    /\ S = {} => g[S] = 0
                    /\ S # {} => g[S] = ForumNext(t, g[S \ {ForumLast(S)}], s[ForumLast(S)])
<1> DEFINE F(S) == IF S = {} THEN 0
                   ELSE ForumNext(t, g[S \ {ForumLast(S)}], s[ForumLast(S)])
<1>1. ForumFold(g, t, s) <=> g = [S \in SUBSET (DOMAIN s) |-> F(S)]
  BY DEF ForumFold
<1>2. /\ \A S : S = {} => F(S) = 0
      /\ \A S : S # {} => F(S) = ForumNext(t, g[S \ {ForumLast(S)}], s[ForumLast(S)])
  OBVIOUS
<1>3. g = [S \in SUBSET (DOMAIN s) |-> F(S)]
      <=> /\ g = [S \in SUBSET (DOMAIN s) |-> g[S]]
          /\ \A S \in SUBSET (DOMAIN s) : g[S] = F(S)
  <2> HIDE DEF F
  <2> QED OBVIOUS
<1> HIDE DEF F
<1> QED BY <1>1, <1>2, <1>3

(* An action more is one step more of the fold. *)
LEMMA ForumFoldGrows ==
    ASSUME NEW t, NEW R, NEW s \in Seq(R), NEW a \in R, NEW f, ForumFolded(t, s, f)
    PROVE  ForumFolded(t, Append(s, a), ForumNext(t, f, a))
<1>1. PICK k \in Nat : /\ k = Len(s) + 1 /\ DOMAIN s = 1..(k - 1) /\ DOMAIN Append(s, a) = 1..k
                       /\ k - 1 \in Nat /\ k >= 1
                       /\ Append(s, a)[k] = a /\ \A i \in 1..(k - 1) : Append(s, a)[i] = s[i]
  <2>1. PICK n \in Nat : n = Len(s)
    OBVIOUS
  <2>2. /\ DOMAIN s = 1..n /\ DOMAIN Append(s, a) = 1..(n + 1) /\ Append(s, a)[n + 1] = a
        /\ \A i \in 1..n : Append(s, a)[i] = s[i]
    BY <2>1
  <2> QED BY <2>1, <2>2
<1> DEFINE D == 1..(k - 1)
           E == 1..k
           u == Append(s, a)
<1>2. /\ D \subseteq E /\ k \in E /\ k \notin D /\ E \ {k} = D
      /\ \A S \in SUBSET E : k \notin S => S \in SUBSET D
      /\ \A S \in SUBSET E : S \ {k} \in SUBSET D
      /\ E # {} /\ SUBSET D \subseteq SUBSET E
  <2>1. D \subseteq E /\ k \in E /\ k \notin D
    BY <1>1
  <2>2. E \subseteq D \cup {k}
    BY <1>1
  <2> HIDE DEF D, E
  <2> QED BY <2>1, <2>2
<1>3. /\ \A S \in SUBSET E : S # {} => ForumLast(S) \in S
      /\ \A S \in SUBSET E : k \in S => ForumLast(S) = k
  BY <1>1, ForumLastIs
<1>4. /\ DOMAIN s = D /\ DOMAIN u = E /\ u[k] = a /\ \A i \in D : u[i] = s[i]
  BY <1>1
<1> HIDE DEF D, E, u
<1>5. ASSUME NEW g, ForumFold(g, t, s) PROVE \E h : ForumFold(h, t, u)
  <2> DEFINE H(S) == IF k \in S THEN ForumNext(t, g[S \ {k}], a) ELSE g[S]
             h == [S \in SUBSET E |-> H(S)]
  <2>1. /\ \A S \in SUBSET D : S = {} => g[S] = 0
        /\ \A S \in SUBSET D :
            S # {} => g[S] = ForumNext(t, g[S \ {ForumLast(S)}], s[ForumLast(S)])
    BY <1>4, <1>5, ForumFoldAt, Zenon
  <2>2. ASSUME NEW S \in SUBSET E, k \notin S PROVE h[S] = g[S]
    BY <2>2
  <2>3. ASSUME NEW S \in SUBSET E, S = {} PROVE h[S] = 0
    <3>1. k \notin S /\ S \in SUBSET D
      BY <1>2, <2>3
    <3> QED BY <2>1, <2>2, <2>3, <3>1, Zenon
  <2>4. ASSUME NEW S \in SUBSET E, S # {}
        PROVE  h[S] = ForumNext(t, h[S \ {ForumLast(S)}], u[ForumLast(S)])
    <3>1. CASE k \in S
      <4>1. ForumLast(S) = k /\ h[S] = ForumNext(t, g[S \ {k}], a)
        BY <1>3, <3>1
      <4>2. S \ {k} \in SUBSET E /\ k \notin S \ {k}
        OBVIOUS
      <4>3. h[S \ {k}] = g[S \ {k}]
        BY <2>2, <4>2, Zenon
      <4> HIDE DEF h
      <4> QED BY <1>4, <4>1, <4>3
    <3>2. CASE k \notin S
      <4>1. S \in SUBSET D /\ ForumLast(S) \in S
        BY <1>2, <1>3, <2>4, <3>2
      <4>2. h[S] = g[S]
        BY <2>2, <3>2
      <4>3. S \ {ForumLast(S)} \in SUBSET E /\ k \notin S \ {ForumLast(S)}
        BY <3>2
      <4>4. h[S \ {ForumLast(S)}] = g[S \ {ForumLast(S)}]
        BY <2>2, <4>3, Zenon
      <4>5. u[ForumLast(S)] = s[ForumLast(S)]
        BY <1>4, <4>1
      <4>6. g[S] = ForumNext(t, g[S \ {ForumLast(S)}], s[ForumLast(S)])
        BY <2>1, <2>4, <4>1
      <4> HIDE DEF h
      <4> QED BY <4>2, <4>4, <4>5, <4>6
    <3> QED BY <3>1, <3>2
  <2>5. h = [S \in SUBSET E |-> h[S]]
    OBVIOUS
  <2> HIDE DEF h
  <2>6. ForumFold(h, t, u)
    BY <1>4, <2>3, <2>4, <2>5, ForumFoldAt, Zenon
  <2> QED BY <2>6
<1>6. ASSUME NEW h, ForumFold(h, t, u) PROVE h[E] = ForumNext(t, f, a)
  <2> DEFINE g == [S \in SUBSET D |-> h[S]]
  <2>1. /\ \A S \in SUBSET E : S = {} => h[S] = 0
        /\ \A S \in SUBSET E :
            S # {} => h[S] = ForumNext(t, h[S \ {ForumLast(S)}], u[ForumLast(S)])
    BY <1>4, <1>6, ForumFoldAt, Zenon
  <2>2. ASSUME NEW S \in SUBSET D PROVE g[S] = h[S] /\ S \in SUBSET E
    BY <1>2
  <2>3. ASSUME NEW S \in SUBSET D, S = {} PROVE g[S] = 0
    BY <2>1, <2>2, <2>3, Zenon
  <2>4. ASSUME NEW S \in SUBSET D, S # {}
        PROVE  g[S] = ForumNext(t, g[S \ {ForumLast(S)}], s[ForumLast(S)])
    <3>1. S \in SUBSET E /\ ForumLast(S) \in S /\ S \ {ForumLast(S)} \in SUBSET D
      BY <1>3, <2>2, <2>4
    <3>2. u[ForumLast(S)] = s[ForumLast(S)]
      BY <1>4, <3>1
    <3>3. h[S] = ForumNext(t, h[S \ {ForumLast(S)}], u[ForumLast(S)])
      BY <2>1, <2>4, <3>1
    <3>4. g[S] = h[S] /\ g[S \ {ForumLast(S)}] = h[S \ {ForumLast(S)}]
      BY <2>2, <3>1, Zenon
    <3> HIDE DEF g
    <3> QED BY <3>2, <3>3, <3>4
  <2>5. g = [S \in SUBSET D |-> g[S]]
    OBVIOUS
  <2>6. g[D] = h[D] /\ D \in SUBSET E
    BY <2>2, Zenon
  <2> HIDE DEF g
  <2>7. ForumFold(g, t, s)
    BY <1>4, <2>3, <2>4, <2>5, ForumFoldAt, Zenon
  <2>8. g[D] = f
    BY <1>4, <2>7, Zenon DEF ForumFolded
  <2>9. h[E] = ForumNext(t, h[D], a)
    <3>1. ForumLast(E) = k /\ E \in SUBSET E
      BY <1>2, <1>3
    <3>2. h[E] = ForumNext(t, h[E \ {ForumLast(E)}], u[ForumLast(E)])
      BY <1>2, <2>1, <3>1, Zenon
    <3> QED BY <1>2, <1>4, <3>1, <3>2
  <2> QED BY <2>6, <2>8, <2>9
<1>7. \E g : ForumFold(g, t, s)
  BY DEF ForumFolded
<1>8. \E h : ForumFold(h, t, u)
  BY <1>5, <1>7
<1>9. \A h : ForumFold(h, t, u) => h[DOMAIN u] = ForumNext(t, f, a)
  BY <1>4, <1>6
<1>10. ForumFolded(t, u, ForumNext(t, f, a))
  BY <1>8, <1>9, Zenon DEF ForumFolded
<1> QED BY <1>10 DEF u

(* Of no action, it is nothing. *)
LEMMA ForumFoldStarts ==
    ASSUME NEW t PROVE ForumFolded(t, <<>>, 0)
<1>1. DOMAIN <<>> = {}
  OBVIOUS
<1> DEFINE g == [S \in SUBSET {} |-> 0]
<1>2. ForumFold(g, t, <<>>)
  <2>1. g = [S \in SUBSET {} |-> g[S]] /\ \A S \in SUBSET {} : S = {} /\ g[S] = 0
    OBVIOUS
  <2> HIDE DEF g
  <2> QED BY <1>1, <2>1, ForumFoldAt, Zenon
<1>3. ASSUME NEW h, ForumFold(h, t, <<>>) PROVE h[DOMAIN <<>>] = 0
  <2>1. \A S \in SUBSET (DOMAIN <<>>) : S = {} => h[S] = 0
    BY <1>3, ForumFoldAt, Zenon
  <2> QED BY <1>1, <2>1
<1> QED BY <1>2, <1>3 DEF ForumFolded

(* The evaluator's fold. *)
LEMMA ForumFollowed ==
    ASSUME NEW f, ForumFolded(task, work.actions, f) PROVE Forum!Follows(work) = f
<1> DEFINE A(g) == ForumFold(g, task, work.actions)
<1>1. Forum!Follows(work) = (CHOOSE g : A(g))[DOMAIN work.actions]
  BY DEF Forum!Follows, Forum!Relevant, Forum!FoldLeft, Forum!MapThenFoldSet, Forum!Max, ForumFold, ForumNext,
         ForumOrders, ForumLast
<1>2. A(CHOOSE g : A(g))
  <2>1. \E g : A(g)
    BY DEF ForumFolded
  <2> HIDE DEF A
  <2> QED BY <2>1
<1>3. \A g : A(g) => g[DOMAIN work.actions] = f
  BY DEF ForumFolded
<1> HIDE DEF A
<1> QED BY <1>1, <1>2, <1>3

(* What the invariant says of a single request and of a single action. *)
LEMMA ForumFacts ==
    ASSUME ForumInv
    PROVE  /\ \A i \in DOMAIN log : log[i] \in ForumRecord
           /\ \A n \in DOMAIN work.actions : work.actions[n] \in ForumRecord
           /\ DOMAIN log \subseteq Nat /\ DOMAIN work.actions \subseteq Nat
           /\ DOMAIN work.actions = 1..Len(work.actions)
<1>1. log \in Seq(ForumRecord) /\ work.actions \in Seq(ForumRecord)
  BY DEF ForumInv, ForumShape
<1>2. /\ DOMAIN log = 1..Len(log) /\ Len(log) \in Nat
      /\ DOMAIN work.actions = 1..Len(work.actions) /\ Len(work.actions) \in Nat
  BY <1>1, LenProperties
<1> QED BY <1>1, <1>2, ElementOfSeq

(* What the questions ask for. *)
LEMMA ForumAsks ==
    ASSUME NEW t \in Forum!Questions
    PROVE  /\ t.required \subseteq ForumTriaged
           /\ \/ t.order = <<>> /\ t.required = {}
              \/ t.order = <<>> /\ t.required = {"move", "edit_title"}
              \/ /\ t.order = <<"report", "lock", "pin">> /\ t.required = {"report", "pin"}
              \/ /\ t.order = <<"mark_duplicate", "move", "lock">>
                 /\ t.required = {"mark_duplicate", "move"}
  BY DEF Forum!Questions, Forum!Question, ForumTriaged

(* Whether a record is the first, second or third of the order. *)
LEMMA ForumOrdersIf ==
    ASSUME NEW t \in Forum!Questions, NEW r
    PROVE  /\ t.order = <<>> => \A n \in Nat : ~ForumOrders(t, r, n)
           /\ t.order = <<"report", "lock", "pin">> =>
                /\ ForumOrders(t, r, 0) <=> Does(r, "report")
                /\ ForumOrders(t, r, 1) <=> Does(r, "lock")
                /\ ForumOrders(t, r, 2) <=> Does(r, "pin")
                /\ \A n \in Nat : n >= 3 => ~ForumOrders(t, r, n)
           /\ t.order = <<"mark_duplicate", "move", "lock">> =>
                /\ ForumOrders(t, r, 0) <=> r.kind = "mark_duplicate"
                /\ ForumOrders(t, r, 1) <=> r.kind = "move"
                /\ ForumOrders(t, r, 2) <=> r.kind = "lock"
                /\ \A n \in Nat : n >= 3 => ~ForumOrders(t, r, n)
<1>1. CASE t.order = <<>>
  BY <1>1 DEF ForumOrders
<1>2. CASE t.order = <<"report", "lock", "pin">>
  <2>1. "mark_duplicate" \notin t.required /\ Len(t.order) = 3 /\ t.order[1] = "report"
        /\ t.order[2] = "lock" /\ t.order[3] = "pin" /\ t.order # <<>>
        /\ t.order # <<"mark_duplicate", "move", "lock">>
    BY <1>2, ForumAsks
  <2> QED BY <2>1 DEF ForumOrders, Does
<1>3. CASE t.order = <<"mark_duplicate", "move", "lock">>
  <2>1. "mark_duplicate" \in t.required /\ Len(t.order) = 3 /\ t.order[1] = "mark_duplicate"
        /\ t.order[2] = "move" /\ t.order[3] = "lock" /\ t.order # <<>>
        /\ t.order # <<"report", "lock", "pin">>
    BY <1>3, ForumAsks
  <2> QED BY <2>1 DEF ForumOrders
<1> QED BY <1>1, <1>2, <1>3, ForumAsks

(* A session of the forum starts in this invariant. *)
LEMMA ForumStarts ==
    ASSUME Forum!Init PROVE ForumInv
<1> DEFINE w == [locked |-> {}, replied |-> FALSE, answered |-> FALSE,
                 value |-> [kind \in {"move", "edit_title"} |-> FALSE], actions |-> <<>>]
<1>1. PICK t \in Forum!Questions : Forum!Fresh(t, w)
  BY DEF Forum!Init
<1>2. log = <<>> /\ task = t /\ work = w /\ Session!TypeOfEnvelope
  BY <1>1 DEF Forum!Fresh, Session!TypeOfEnvelope
<1>3. Len(log) = 0 /\ DOMAIN log = {} /\ log \in Seq(ForumRecord) /\ ForumMost \in Nat
  BY <1>2, RequestsAssumption DEF ForumMost
<1>4. ForumShape /\ work.actions = <<>> /\ DOMAIN work.actions = {} /\ work.locked = {}
      /\ work.answered = FALSE
  <2>1. /\ work.locked = {} /\ work.replied = FALSE /\ work.answered = FALSE
        /\ work.value = [kind \in {"move", "edit_title"} |-> FALSE] /\ work.actions = <<>>
    BY <1>2
  <2>2. [kind \in {"move", "edit_title"} |-> FALSE] \in [{"move", "edit_title"} -> BOOLEAN]
    OBVIOUS
  <2>3. work.value \in [{"move", "edit_title"} -> BOOLEAN] /\ work.locked \subseteq Forum!Threads
    BY <2>1, <2>2
  <2>4. work = [locked |-> work.locked, replied |-> work.replied, answered |-> work.answered,
                value |-> work.value, actions |-> work.actions]
    BY <1>2
  <2>5. work.actions \in Seq(ForumRecord) /\ DOMAIN work.actions = {}
    BY <2>1
  <2>6. work.replied \in BOOLEAN /\ work.answered \in BOOLEAN
    BY <2>1
  <2> QED BY <1>3, <2>1, <2>3, <2>4, <2>5, <2>6, Zenon DEF ForumShape
<1>5. ForumReplies /\ ForumLocks /\ ForumMarks
  BY <1>3, <1>4 DEF ForumReplies, ForumLocks, ForumMarks
<1>6. \A kind : ForumFirst(kind) /\ ForumValue(kind)
  BY <1>3, <1>4 DEF ForumFirst, ForumNever, ForumValue
<1>7. ForumFar(0)
  <2>1. Len(t.order) \in Nat
    BY ForumAsks
  <2> QED BY <1>2, <1>3, <2>1 DEF ForumFar
<1>8. ForumFolded(task, work.actions, 0)
  BY <1>4, ForumFoldStarts
<1> QED BY <1>2, <1>3, <1>4, <1>5, <1>6, <1>7, <1>8 DEF ForumInv

(* A step that keeps the task, the requests and the work of the forum      *)
(* keeps it.                                                               *)
LEMMA ForumSame ==
    ASSUME ForumInv, Session!TypeOfEnvelope', UNCHANGED <<task, log, work>> PROVE ForumInv'
<1>1. Session!TypeOfEnvelope' /\ UNCHANGED <<task, log>>
  OBVIOUS
<1>2. work' = work
  OBVIOUS
<1>3. /\ ForumShape' /\ ForumReplies' /\ ForumLocks' /\ ForumMarks'
      /\ \A kind : ForumFirst(kind)' <=> ForumFirst(kind)
      /\ \A kind : ForumValue(kind)' <=> ForumValue(kind)
      /\ \A f : ForumFar(f)' <=> ForumFar(f)
  BY <1>1, <1>2 DEF ForumInv, ForumShape, ForumReplies, ForumLocks, ForumMarks, ForumFirst,
                    ForumNever, ForumOnce, ForumValue, ForumFar
<1> QED BY <1>1, <1>2, <1>3 DEF ForumInv

ForumRequest ==
    \/ \E right \in BOOLEAN : Forum!Reply(right) \/ Forum!Lock("target", right)
    \/ Forum!Lock("duplicate", FALSE)
    \/ \E thread \in Forum!Threads : Forum!Pin(thread)
    \/ Forum!Triage

(* A step of the forum is a request or one of the envelope, which judges   *)
(* as the evaluator says of the work.                                      *)
LEMMA ForumSteps ==
    ASSUME Forum!Next
    PROVE  \/ ForumRequest
           \/ \E v \in {"passed", "failed"} : v = Forum!Evaluate(work) /\ Rests(v, work)
<1>1. Forum!Evaluate(work) \in {"passed", "failed"}
  BY DEF Forum!Evaluate
<1>2. ForumRequest \/ Rests(Forum!Evaluate(work), work)
  BY DEF Forum!Next, ForumRequest, Rests, Forum!Hydrate, Forum!Complete,
         Session!Complete, Forum!Recover, Session!Recover, Forum!Judge, Session!Judge,
         Forum!Answered, Session!Answered, Forum!AnswerLost, Session!AnswerLost,
         Forum!NotReached, Session!NotReached, Forum!Stored, Session!Stored
<1> QED BY <1>1, <1>2

(* What an accepted request does. *)
ForumTakes(r) ==
    /\ r \in ForumRecord /\ log' = Append(log, r) /\ Len(log) < ForumMost
    /\ UNCHANGED <<task, result>>
    /\ work' = [locked |-> work'.locked, replied |-> work'.replied,
                answered |-> work'.answered, value |-> work'.value, actions |-> work'.actions]
    /\ r.kind = "reply" => r.thread = "target"
    /\ work'.replied \in BOOLEAN /\ (work'.replied <=> work.replied \/ r.kind = "reply")
    /\ work'.answered \in BOOLEAN
    /\ work'.answered <=> work.answered \/ (r.kind = "reply" /\ r.right)
    /\ work'.locked = work.locked \cup (IF r.kind = "lock" THEN {r.thread} ELSE {})
    /\ Does(r, "report") => "target" \notin work.locked
    /\ r.kind = "pin" => r.thread \in work.locked
    /\ work'.value \in [{"move", "edit_title"} -> BOOLEAN]
    /\ \A kind \in {"move", "edit_title"} :
        work'.value[kind] = IF Does(r, kind) THEN r.right ELSE work.value[kind]
    /\ r.kind = "mark_duplicate" /\ r.thread = "duplicate" => r = ForumMark
    /\ work'.actions = IF r.kind = "reply" THEN work.actions ELSE Append(work.actions, r)

(* A request that is taken is the new end of the log. *)
LEMMA ForumLogGrows ==
    ASSUME ForumInv, NEW r, ForumTakes(r)
    PROVE  \E k \in Nat :
            /\ log' \in Seq(ForumRecord) /\ Len(log') <= ForumMost
            /\ DOMAIN log' = DOMAIN log \cup {k} /\ log'[k] = r /\ DOMAIN log \subseteq Nat
            /\ \A i \in DOMAIN log : log'[i] = log[i] /\ i < k
<1>1. log \in Seq(ForumRecord) /\ r \in ForumRecord /\ log' = Append(log, r)
  BY DEF ForumInv, ForumShape, ForumTakes
<1>2. PICK k \in Nat, n \in Nat : k = Len(log') /\ n = Len(log) /\ k = n + 1
  BY <1>1, LogGrows
<1>3. n < ForumMost /\ ForumMost \in Nat
  BY <1>2, RequestsAssumption DEF ForumTakes, ForumMost
<1>4. k <= ForumMost
  BY <1>2, <1>3
<1> QED BY <1>1, <1>2, <1>4, LogGrows

(* And, unless it is a reply, of the actions. *)
LEMMA ForumActionsGrow ==
    ASSUME ForumInv, NEW r, ForumTakes(r), r.kind # "reply"
    PROVE  \E k \in Nat :
            /\ work'.actions \in Seq(ForumRecord) /\ DOMAIN work.actions \subseteq Nat
            /\ DOMAIN work'.actions = DOMAIN work.actions \cup {k} /\ work'.actions[k] = r
            /\ \A n \in DOMAIN work.actions : work'.actions[n] = work.actions[n] /\ n < k
<1>1. PICK s \in Seq(ForumRecord) : s = work.actions
  BY DEF ForumInv, ForumShape
<1>2. PICK t : t = Append(s, r) /\ t = work'.actions /\ r \in ForumRecord
  BY <1>1 DEF ForumTakes
<1>3. /\ t \in Seq(ForumRecord) /\ Len(s) + 1 \in Nat
      /\ DOMAIN t = DOMAIN s \cup {Len(s) + 1} /\ t[Len(s) + 1] = r /\ DOMAIN s \subseteq Nat
      /\ \A n \in DOMAIN s : t[n] = s[n] /\ n < Len(s) + 1
  <2>1. PICK n \in Nat : n = Len(s) /\ DOMAIN s = 1..n
    BY LenProperties
  <2>2. Append(s, r) \in Seq(ForumRecord) /\ Len(Append(s, r)) = n + 1
    BY <1>2, <2>1, AppendProperties
  <2>3. t[n + 1] = r /\ \A i \in 1..n : t[i] = s[i]
    <3>1. Append(s, r)[Len(s) + 1] = r /\ \A i \in 1..Len(s) : Append(s, r)[i] = s[i]
      BY <1>2, AppendProperties
    <3> QED BY <1>2, <2>1, <3>1, Zenon
  <2>5. DOMAIN t = 1..(n + 1)
    BY <1>2, <2>2, LenProperties
  <2>4. DOMAIN t = DOMAIN s \cup {n + 1} /\ \A i \in DOMAIN s : t[i] = s[i] /\ i < n + 1
    BY <2>1, <2>3, <2>5
  <2> QED BY <1>2, <2>1, <2>2, <2>3, <2>4
<1> QED BY <1>1, <1>2, <1>3, Zenon

(* A request that is taken keeps the shape of the work. *)
LEMMA ForumShapeKept ==
    ASSUME ForumInv, NEW r, ForumTakes(r)
    PROVE  ForumShape'
<1>1. log' \in Seq(ForumRecord)
  BY ForumLogGrows
<1>2. work'.actions \in Seq(ForumRecord)
  <2>1. CASE r.kind = "reply"
    BY <2>1 DEF ForumTakes, ForumInv, ForumShape
  <2>2. CASE r.kind # "reply"
    BY <2>2, ForumActionsGrow
  <2> QED BY <2>1, <2>2
<1>3. work'.locked \subseteq Forum!Threads
  <2>1. r.thread \in Forum!Threads
    BY DEF ForumTakes, ForumRecord
  <2> QED BY <2>1 DEF ForumTakes, ForumInv, ForumShape
<1> QED BY <1>1, <1>2, <1>3, Zenon DEF ForumTakes, ForumShape

(* Whether the thread is answered stays what the replies in the log say. *)
LEMMA ForumRepliesKept ==
    ASSUME ForumInv, NEW r, ForumTakes(r)
    PROVE  ForumReplies'
<1>1. PICK k \in Nat : /\ DOMAIN log' = DOMAIN log \cup {k} /\ log'[k] = r
                       /\ \A i \in DOMAIN log : log'[i] = log[i]
  BY ForumLogGrows
<1> DEFINE says(a) == Does(a, "reply") /\ a.right
<1>2. says(r) <=> r.kind = "reply" /\ r.right
  BY DEF Does, ForumTakes
<1>3. (\E i \in DOMAIN log' : says(log'[i])) <=> (\E i \in DOMAIN log : says(log[i])) \/ says(r)
  <2> HIDE DEF says
  <2> QED BY <1>1
<1>4. work.answered <=> \E i \in DOMAIN log : says(log[i])
  BY DEF ForumInv, ForumReplies
<1>5. work.answered => work.replied
  BY DEF ForumInv, ForumReplies
<1>6. work'.answered <=> \E i \in DOMAIN log' : says(log'[i])
  BY <1>2, <1>3, <1>4, Zenon DEF ForumTakes
<1>7. work'.answered => work'.replied
  BY <1>5, Zenon DEF ForumTakes
<1> QED BY <1>6, <1>7, Zenon DEF ForumReplies

(* The thread stays locked by the log's locks, between its reports and its *)
(* pins.                                                                   *)
LEMMA ForumLocksKept ==
    ASSUME ForumInv, NEW r, ForumTakes(r)
    PROVE  ForumLocks'
<1>1. PICK k \in Nat : /\ DOMAIN log' = DOMAIN log \cup {k} /\ log'[k] = r
                       /\ DOMAIN log \subseteq Nat
                       /\ \A i \in DOMAIN log : log'[i] = log[i] /\ i < k
  BY ForumLogGrows
<1>2. ForumLocks
  BY DEF ForumInv
<1>3. /\ "target" \in work'.locked <=> "target" \in work.locked \/ Does(r, "lock")
      /\ Does(r, "report") => "target" \notin work.locked
      /\ Does(r, "pin") => "target" \in work.locked
      /\ ~(Does(r, "lock") /\ Does(r, "report")) /\ ~(Does(r, "lock") /\ Does(r, "pin"))
  BY DEF ForumTakes, Does
<1>4. "target" \in work'.locked <=> \E i \in DOMAIN log' : Does(log'[i], "lock")
  BY <1>1, <1>2, <1>3 DEF ForumLocks
<1>5. ASSUME NEW i \in DOMAIN log', NEW j \in DOMAIN log',
             Does(log'[i], "lock"), Does(log'[j], "report")
      PROVE  j < i
  <2>1. CASE i = k
    <3>1. j # k
      BY <1>1, <1>3, <1>5, <2>1
    <3> QED BY <1>1, <2>1, <3>1
  <2>2. CASE i # k
    <3>1. i \in DOMAIN log /\ Does(log[i], "lock")
      BY <1>1, <1>5, <2>2
    <3>2. j # k
      BY <1>1, <1>2, <1>3, <1>5, <3>1 DEF ForumLocks
    <3>3. j \in DOMAIN log /\ Does(log[j], "report")
      BY <1>1, <1>5, <3>2
    <3> QED BY <1>2, <3>1, <3>3 DEF ForumLocks
  <2> QED BY <2>1, <2>2
<1>6. ASSUME NEW i \in DOMAIN log', Does(log'[i], "pin")
      PROVE  \E j \in DOMAIN log' : Does(log'[j], "lock") /\ j < i
  <2>1. PICK j \in DOMAIN log : Does(log[j], "lock") /\ j < i
    <3>1. CASE i = k
      <4>1. Does(r, "pin")
        BY <1>1, <1>6, <3>1
      <4> QED BY <1>1, <1>2, <1>3, <3>1, <4>1 DEF ForumLocks
    <3>2. CASE i # k
      <4>1. i \in DOMAIN log /\ Does(log[i], "pin")
        BY <1>1, <1>6, <3>2
      <4> QED BY <1>2, <4>1 DEF ForumLocks
    <3> QED BY <3>1, <3>2
  <2> QED BY <1>1, <2>1
<1> QED BY <1>4, <1>5, <1>6 DEF ForumLocks

(* The mark of the duplicate stays on both sides or on neither. *)
LEMMA ForumMarksKept ==
    ASSUME ForumInv, NEW r, ForumTakes(r)
    PROVE  ForumMarks'
<1>1. PICK k \in Nat : /\ DOMAIN log' = DOMAIN log \cup {k} /\ log'[k] = r
                       /\ \A i \in DOMAIN log : log'[i] = log[i]
  BY ForumLogGrows
<1> DEFINE marks(a) == a.kind = "mark_duplicate" /\ a.thread = "duplicate"
<1>2. marks(r) <=> r = ForumMark
  BY DEF ForumTakes, ForumMark
<1>3. (\E i \in DOMAIN log' : marks(log'[i])) <=> (\E i \in DOMAIN log : marks(log[i])) \/ marks(r)
  <2> HIDE DEF marks
  <2> QED BY <1>1
<1>4. (\E n \in DOMAIN work'.actions : work'.actions[n] = ForumMark)
      <=> (\E n \in DOMAIN work.actions : work.actions[n] = ForumMark) \/ r = ForumMark
  <2>1. CASE r.kind = "reply"
    BY <2>1 DEF ForumTakes, ForumMark
  <2>2. CASE r.kind # "reply"
    <3>1. PICK m \in Nat :
            /\ DOMAIN work'.actions = DOMAIN work.actions \cup {m} /\ work'.actions[m] = r
            /\ \A n \in DOMAIN work.actions : work'.actions[n] = work.actions[n]
      BY <2>2, ForumActionsGrow
    <3> QED BY <3>1
  <2> QED BY <2>1, <2>2
<1>5. (\E n \in DOMAIN work.actions : work.actions[n] = ForumMark)
      <=> \E i \in DOMAIN log : marks(log[i])
  BY DEF ForumInv, ForumMarks
<1>6. (\E n \in DOMAIN work'.actions : work'.actions[n] = ForumMark)
      <=> \E i \in DOMAIN log' : marks(log'[i])
  <2> HIDE DEF marks
  <2> QED BY <1>2, <1>3, <1>4, <1>5
<1> QED BY <1>6, Zenon DEF ForumMarks, ForumMark

(* The first action of a kind stays the first request of that kind. *)
LEMMA ForumFirstKept ==
    ASSUME ForumInv, NEW r, ForumTakes(r), NEW kind \in ForumTriaged
    PROVE  ForumFirst(kind)'
<1>1. PICK k \in Nat : /\ DOMAIN log' = DOMAIN log \cup {k} /\ log'[k] = r
                       /\ DOMAIN log \subseteq Nat
                       /\ \A i \in DOMAIN log : log'[i] = log[i] /\ i < k
  BY ForumLogGrows
<1>2. kind # "reply"
  BY DEF ForumTriaged
<1>3. ForumNever(kind) \/ ForumOnce(kind)
  BY DEF ForumInv, ForumFirst
<1>4. CASE r.kind = "reply"
  <2>1. work'.actions = work.actions /\ ~Does(r, kind)
    BY <1>2, <1>4 DEF ForumTakes, Does
  <2>2. CASE ForumNever(kind)
    <3>1. ForumNever(kind)'
      BY <1>1, <2>1, <2>2 DEF ForumNever
    <3> QED BY <3>1 DEF ForumFirst
  <2>3. CASE ForumOnce(kind)
    <3>1. PICK i \in DOMAIN log, n \in DOMAIN work.actions :
            /\ log[i] = work.actions[n] /\ Does(log[i], kind)
            /\ \A j \in DOMAIN log : Does(log[j], kind) => i <= j
            /\ \A m \in DOMAIN work.actions : Does(work.actions[m], kind) => n <= m
      BY <2>3 DEF ForumOnce
    <3>2. i \in DOMAIN log' /\ log'[i] = log[i] /\ \A j \in DOMAIN log' : Does(log'[j], kind) => i <= j
      BY <1>1, <2>1, <3>1
    <3>3. ForumOnce(kind)'
      BY <2>1, <3>1, <3>2 DEF ForumOnce
    <3> QED BY <3>3 DEF ForumFirst
  <2> QED BY <1>3, <2>2, <2>3
<1>5. CASE r.kind # "reply"
  <2>1. PICK l \in Nat :
            /\ DOMAIN work.actions \subseteq Nat
            /\ DOMAIN work'.actions = DOMAIN work.actions \cup {l} /\ work'.actions[l] = r
            /\ \A n \in DOMAIN work.actions : work'.actions[n] = work.actions[n] /\ n < l
    BY <1>5, ForumActionsGrow
  <2>2. CASE ForumNever(kind) /\ ~Does(r, kind)
    <3>1. ForumNever(kind)'
      BY <1>1, <2>1, <2>2 DEF ForumNever
    <3> QED BY <3>1 DEF ForumFirst
  <2>3. CASE ForumNever(kind) /\ Does(r, kind)
    <3>1. /\ k \in DOMAIN log' /\ l \in DOMAIN work'.actions /\ log'[k] = work'.actions[l]
          /\ Does(log'[k], kind)
      BY <1>1, <2>1, <2>3
    <3>2. \A j \in DOMAIN log' : Does(log'[j], kind) => k <= j
      BY <1>1, <2>3 DEF ForumNever
    <3>3. \A m \in DOMAIN work'.actions : Does(work'.actions[m], kind) => l <= m
      BY <2>1, <2>3 DEF ForumNever
    <3>4. ForumOnce(kind)'
      BY <3>1, <3>2, <3>3 DEF ForumOnce
    <3> QED BY <3>4 DEF ForumFirst
  <2>4. CASE ForumOnce(kind)
    <3>1. PICK i \in DOMAIN log, n \in DOMAIN work.actions :
            /\ log[i] = work.actions[n] /\ Does(log[i], kind)
            /\ \A j \in DOMAIN log : Does(log[j], kind) => i <= j
            /\ \A m \in DOMAIN work.actions : Does(work.actions[m], kind) => n <= m
      BY <2>4 DEF ForumOnce
    <3>2. i \in DOMAIN log' /\ log'[i] = log[i] /\ \A j \in DOMAIN log' : Does(log'[j], kind) => i <= j
      BY <1>1, <3>1
    <3>3. /\ n \in DOMAIN work'.actions /\ work'.actions[n] = work.actions[n]
          /\ \A m \in DOMAIN work'.actions : Does(work'.actions[m], kind) => n <= m
      BY <2>1, <3>1
    <3>4. ForumOnce(kind)'
      BY <3>1, <3>2, <3>3 DEF ForumOnce
    <3> QED BY <3>4 DEF ForumFirst
  <2> QED BY <1>3, <2>2, <2>3, <2>4
<1> QED BY <1>4, <1>5

(* The value of a thread stays as the latest request left it. *)
LEMMA ForumValueKept ==
    ASSUME ForumInv, NEW r, ForumTakes(r), NEW kind \in {"move", "edit_title"}
    PROVE  ForumValue(kind)'
<1>1. PICK k \in Nat : /\ DOMAIN log' = DOMAIN log \cup {k} /\ log'[k] = r
                       /\ DOMAIN log \subseteq Nat
                       /\ \A i \in DOMAIN log : log'[i] = log[i] /\ i < k
  BY ForumLogGrows
<1>2. ForumValue(kind)
  BY DEF ForumInv
<1>3. CASE Does(r, kind)
  <2>1. r.right = work'.value[kind]
    BY <1>3, Zenon DEF ForumTakes
  <2>2. \A j \in DOMAIN log' : Does(log'[j], kind) => j <= k
    BY <1>1
  <2> QED BY <1>1, <1>3, <2>1, <2>2 DEF ForumValue
<1>4. CASE ~Does(r, kind)
  <2>1. work'.value[kind] = work.value[kind]
    BY <1>4, Zenon DEF ForumTakes
  <2> QED BY <1>1, <1>2, <1>4, <2>1 DEF ForumValue
<1> QED BY <1>3, <1>4

(* One more request takes the order on by one if it is the next in it. *)
LEMMA ForumFarther ==
    ASSUME ForumInv, NEW r, ForumTakes(r), NEW f, ForumFar(f)
    PROVE  ForumFar(ForumNext(task, f, r))'
<1>1. PICK k \in Nat : /\ DOMAIN log' = DOMAIN log \cup {k} /\ log'[k] = r
                       /\ DOMAIN log \subseteq Nat
                       /\ \A i \in DOMAIN log : log'[i] = log[i] /\ i < k
  BY ForumLogGrows
<1>2. PICK t : t = task /\ task' = t
  BY DEF ForumTakes
<1> DEFINE a(i) == ForumOrders(t, log[i], 0)
           b(i) == ForumOrders(t, log[i], 1)
           c(i) == ForumOrders(t, log[i], 2)
           x == ForumOrders(t, r, 0)
           y == ForumOrders(t, r, 1)
           z == ForumOrders(t, r, 2)
           P == \E i \in DOMAIN log : a(i)
           Q == \E i, j \in DOMAIN log : i < j /\ a(i) /\ b(j)
           R == \E i, j, m \in DOMAIN log : i < j /\ a(i) /\ b(j) /\ j < m /\ c(m)
<1>3. /\ f \in Nat /\ (f >= 1 <=> P) /\ (f >= 2 <=> Q) /\ (f >= 3 <=> R) /\ f <= Len(t.order)
  BY <1>2 DEF ForumFar
<1>4. Q => P
  OBVIOUS
<1>5. PICK g \in Nat :
        /\ g = ForumNext(t, f, r) /\ g <= Len(t.order)
        /\ g >= 1 <=> f >= 1 \/ (f = 0 /\ x)
        /\ g >= 2 <=> f >= 2 \/ (f = 1 /\ y)
        /\ g >= 3 <=> f >= 3 \/ (f = 2 /\ z)
  <2>1. CASE ForumOrders(t, r, f)
    <3>1. ForumNext(t, f, r) = f + 1 /\ f + 1 \in Nat
      BY <1>3, <2>1 DEF ForumNext
    <3>2. f + 1 <= Len(t.order)
      <4>1. PICK n \in Nat : n = Len(t.order)
        <5>1. t \in Forum!Questions
          BY <1>2 DEF ForumInv
        <5>2. Len(t.order) \in Nat
          BY <5>1, ForumAsks
        <5> QED BY <5>2
      <4>2. f < n
        BY <2>1, <4>1 DEF ForumOrders
      <4> QED BY <1>3, <4>1, <4>2
    <3>3. /\ f + 1 >= 1 <=> f >= 1 \/ (f = 0 /\ x)
          /\ f + 1 >= 2 <=> f >= 2 \/ (f = 1 /\ y)
          /\ f + 1 >= 3 <=> f >= 3 \/ (f = 2 /\ z)
      <4>1. (f = 0 => x) /\ (f = 1 => y) /\ (f = 2 => z)
        BY <2>1
      <4> HIDE DEF x, y, z
      <4> QED BY <1>3, <4>1
    <3> HIDE DEF x, y, z
    <3> QED BY <3>1, <3>2, <3>3
  <2>2. CASE ~ForumOrders(t, r, f)
    <3>1. ForumNext(t, f, r) = f
      BY <2>2 DEF ForumNext
    <3>2. (f = 0 => ~x) /\ (f = 1 => ~y) /\ (f = 2 => ~z)
      BY <2>2
    <3> HIDE DEF x, y, z
    <3> QED BY <1>3, <3>1, <3>2
  <2> QED BY <2>1, <2>2
<1>6. (\E i \in DOMAIN log' : ForumOrders(t, log'[i], 0)) <=> P \/ x
  BY <1>1
<1>7. (\E i, j \in DOMAIN log' :
          i < j /\ ForumOrders(t, log'[i], 0) /\ ForumOrders(t, log'[j], 1))
      <=> Q \/ (P /\ y)
  <2>1. ASSUME NEW i \in DOMAIN log', NEW j \in DOMAIN log',
               i < j, ForumOrders(t, log'[i], 0), ForumOrders(t, log'[j], 1)
        PROVE  Q \/ (P /\ y)
    <3>1. i \in DOMAIN log /\ a(i)
      BY <1>1, <2>1
    <3> QED BY <1>1, <2>1, <3>1
  <2>2. ASSUME Q \/ (P /\ y)
        PROVE  \E i, j \in DOMAIN log' :
                i < j /\ ForumOrders(t, log'[i], 0) /\ ForumOrders(t, log'[j], 1)
    BY <1>1, <2>2
  <2> QED BY <2>1, <2>2
<1>8. (\E i, j, m \in DOMAIN log' :
          /\ i < j /\ ForumOrders(t, log'[i], 0) /\ ForumOrders(t, log'[j], 1)
          /\ j < m /\ ForumOrders(t, log'[m], 2))
      <=> R \/ (Q /\ z)
  <2>1. ASSUME NEW i \in DOMAIN log', NEW j \in DOMAIN log', NEW m \in DOMAIN log',
               i < j, ForumOrders(t, log'[i], 0), ForumOrders(t, log'[j], 1),
               j < m, ForumOrders(t, log'[m], 2)
        PROVE  R \/ (Q /\ z)
    <3>1. j \in DOMAIN log /\ b(j)
      BY <1>1, <2>1
    <3>2. i \in DOMAIN log /\ a(i)
      BY <1>1, <2>1, <3>1
    <3>3. (m \in DOMAIN log /\ c(m)) \/ z
      BY <1>1, <2>1
    <3> QED BY <2>1, <3>1, <3>2, <3>3
  <2>2. ASSUME R \/ (Q /\ z)
        PROVE  \E i, j, m \in DOMAIN log' :
                /\ i < j /\ ForumOrders(t, log'[i], 0) /\ ForumOrders(t, log'[j], 1)
                /\ j < m /\ ForumOrders(t, log'[m], 2)
    BY <1>1, <2>2
  <2> QED BY <2>1, <2>2
<1>9. /\ g >= 1 <=> P \/ x
      /\ g >= 2 <=> Q \/ (P /\ y)
      /\ g >= 3 <=> R \/ (Q /\ z)
  <2> HIDE DEF P, Q, R, x, y, z
  <2>1. (f = 0 <=> ~(f >= 1)) /\ (f = 1 <=> f >= 1 /\ ~(f >= 2)) /\ (f = 2 <=> f >= 2 /\ ~(f >= 3))
    BY <1>3
  <2> QED BY <1>3, <1>4, <1>5, <2>1
<1>10. ForumFar(g)'
  <2> HIDE DEF P, Q, R, x, y, z
  <2> QED BY <1>2, <1>5, <1>6, <1>7, <1>8, <1>9 DEF ForumFar
<1> QED BY <1>2, <1>5, <1>10

(* So the fold over the actions counts what the log contains, after one    *)
(* more request as before it.                                              *)
LEMMA ForumFollowedOn ==
    ASSUME ForumInv, NEW r, ForumTakes(r)
    PROVE  \E f : ForumFar(f)' /\ ForumFolded(task, work.actions, f)'
<1>1. PICK f : ForumFar(f) /\ ForumFolded(task, work.actions, f)
  BY DEF ForumInv
<1>2. PICK t \in Forum!Questions, s \in Seq(ForumRecord) :
        t = task /\ t = task' /\ s = work.actions /\ r \in ForumRecord
  BY DEF ForumTakes, ForumInv, ForumShape
<1>3. PICK g : g = ForumNext(t, f, r)
  OBVIOUS
<1>4. ForumFar(g)'
  BY <1>1, <1>2, <1>3, ForumFarther
<1>5. PICK u : u = work'.actions /\ u = IF r.kind = "reply" THEN s ELSE Append(s, r)
  BY <1>2 DEF ForumTakes
<1>6. ForumFolded(t, u, g)
  <2>1. CASE r.kind = "reply"
    <3>1. ~ForumOrders(t, r, f)
      <4>1. /\ \A n \in DOMAIN t.order : t.order[n] # "reply"
            /\ DOMAIN t.order = 1..Len(t.order) /\ Len(t.order) \in Nat
        BY ForumAsks
      <4>2. f \in Nat
        BY <1>1 DEF ForumFar
      <4> QED BY <2>1, <4>1, <4>2 DEF ForumOrders
    <3>2. g = f
      BY <1>3, <3>1 DEF ForumNext
    <3> QED BY <1>1, <1>2, <1>5, <2>1, <3>2
  <2>2. CASE r.kind # "reply"
    <3>1. ForumFolded(t, s, f)
      BY <1>1, <1>2
    <3> QED BY <1>2, <1>3, <1>5, <2>2, <3>1, ForumFoldGrows
  <2> QED BY <2>1, <2>2
<1>7. ForumFolded(task, work.actions, g)'
  BY <1>2, <1>5, <1>6, Zenon
<1> QED BY <1>4, <1>7

(* The fields of the work, one by one. *)
ForumFields(w) ==
    w = [locked |-> w.locked, replied |-> w.replied, answered |-> w.answered,
         value |-> w.value, actions |-> w.actions]

(* The fields of the work after one more action. *)
LEMMA ForumFieldsOfAction ==
    ASSUME NEW w, ForumFields(w), NEW r
    PROVE  [w EXCEPT !.actions = Append(@, r)]
           = [locked |-> w.locked, replied |-> w.replied, answered |-> w.answered,
              value |-> w.value, actions |-> Append(w.actions, r)]
<1> DEFINE s == Append(w.actions, r)
<1>1. [w EXCEPT !.actions = s]
      = [locked |-> w.locked, replied |-> w.replied, answered |-> w.answered,
         value |-> w.value, actions |-> s]
  <2> HIDE DEF s
  <2> QED BY DEF ForumFields
<1> QED BY <1>1

(* The fields after a lock. *)
LEMMA ForumFieldsOfLock ==
    ASSUME NEW w, ForumFields(w), NEW r, NEW thread
    PROVE  [[w EXCEPT !.actions = Append(@, r)] EXCEPT !.locked = @ \cup {thread}]
           = [locked |-> w.locked \cup {thread}, replied |-> w.replied,
              answered |-> w.answered, value |-> w.value, actions |-> Append(w.actions, r)]
<1> DEFINE s == Append(w.actions, r)
           u == [w EXCEPT !.actions = Append(@, r)]
           l == w.locked \cup {thread}
<1>1. u = [locked |-> w.locked, replied |-> w.replied, answered |-> w.answered,
           value |-> w.value, actions |-> s]
  BY ForumFieldsOfAction
<1>2. [u EXCEPT !.locked = l] = [locked |-> l, replied |-> w.replied, answered |-> w.answered,
                                 value |-> w.value, actions |-> s]
  <2> HIDE DEF s, u, l
  <2> QED BY <1>1
<1>3. u.locked = w.locked
  <2> HIDE DEF s, u, l
  <2> QED BY <1>1
<1>4. [u EXCEPT !.locked = @ \cup {thread}] = [u EXCEPT !.locked = l]
  <2> HIDE DEF u
  <2> QED BY <1>3
<1> QED BY <1>2, <1>4

(* The fields after a rewrite. *)
LEMMA ForumFieldsOfValue ==
    ASSUME NEW w, ForumFields(w), NEW r, NEW kind, NEW right
    PROVE  [[w EXCEPT !.actions = Append(@, r)] EXCEPT !.value[kind] = right]
           = [locked |-> w.locked, replied |-> w.replied, answered |-> w.answered,
              value |-> [w.value EXCEPT ![kind] = right], actions |-> Append(w.actions, r)]
<1> DEFINE s == Append(w.actions, r)
           u == [w EXCEPT !.actions = Append(@, r)]
           v == [w.value EXCEPT ![kind] = right]
<1>1. u = [locked |-> w.locked, replied |-> w.replied, answered |-> w.answered,
           value |-> w.value, actions |-> s]
  BY ForumFieldsOfAction
<1>2. [u EXCEPT !.value = v] = [locked |-> w.locked, replied |-> w.replied,
                                answered |-> w.answered, value |-> v, actions |-> s]
  <2> HIDE DEF s, u, v
  <2> QED BY <1>1
<1>3. u.value = w.value
  <2> HIDE DEF s, u
  <2> QED BY <1>1
<1>4. [u EXCEPT !.value[kind] = right] = [u EXCEPT !.value = v]
  <2> HIDE DEF u
  <2> QED BY <1>3
<1> QED BY <1>2, <1>4

(* The fields after a reply. *)
LEMMA ForumFieldsOfReply ==
    ASSUME NEW w, ForumFields(w), NEW right
    PROVE  [w EXCEPT !.replied = TRUE, !.answered = @ \/ right]
           = [locked |-> w.locked, replied |-> TRUE, answered |-> w.answered \/ right,
              value |-> w.value, actions |-> w.actions]
<1>1. ASSUME NEW p, NEW a
      PROVE  [w EXCEPT !.replied = p, !.answered = a]
             = [locked |-> w.locked, replied |-> p, answered |-> a, value |-> w.value,
                actions |-> w.actions]
  <2> DEFINE u == [w EXCEPT !.replied = p]
  <2>1. u = [locked |-> w.locked, replied |-> p, answered |-> w.answered, value |-> w.value,
             actions |-> w.actions]
    BY DEF ForumFields
  <2>2. [u EXCEPT !.answered = a]
        = [locked |-> w.locked, replied |-> p, answered |-> a, value |-> w.value,
           actions |-> w.actions]
    <3> HIDE DEF u
    <3> QED BY <2>1
  <2>3. [w EXCEPT !.replied = p, !.answered = a] = [u EXCEPT !.answered = a]
    BY DEF ForumFields
  <2> QED BY <2>2, <2>3
<1> DEFINE p == TRUE
           a == w.answered \/ right
<1>2. [w EXCEPT !.replied = TRUE, !.answered = @ \/ right]
      = [w EXCEPT !.replied = p, !.answered = a]
  OBVIOUS
<1> HIDE DEF p, a
<1>3. [w EXCEPT !.replied = p, !.answered = a]
      = [locked |-> w.locked, replied |-> p, answered |-> a, value |-> w.value,
         actions |-> w.actions]
  BY <1>1
<1> QED BY <1>2, <1>3, Zenon DEF p, a

(* The work has these fields. *)
LEMMA ForumFielded == ASSUME ForumInv PROVE ForumFields(work)
  BY Zenon DEF ForumInv, ForumShape, ForumFields

(* A request that is taken keeps the invariant. *)
LEMMA ForumTaken ==
    ASSUME ForumInv, NEW r, ForumTakes(r), Session!TypeOfEnvelope'
    PROVE  ForumInv'
<1>1. /\ ForumShape' /\ ForumReplies' /\ ForumLocks' /\ ForumMarks'
      /\ \E f : ForumFar(f)' /\ ForumFolded(task, work.actions, f)'
  BY ForumShapeKept, ForumRepliesKept, ForumLocksKept, ForumMarksKept, ForumFollowedOn
<1>2. /\ \A kind \in ForumTriaged : ForumFirst(kind)'
      /\ \A kind \in {"move", "edit_title"} : ForumValue(kind)'
  BY ForumFirstKept, ForumValueKept, Zenon
<1>3. Len(log') <= ForumMost /\ task' \in Forum!Questions
  BY ForumLogGrows DEF ForumTakes, ForumInv
<1> QED BY <1>1, <1>2, <1>3 DEF ForumInv

(* An action other than a reply. *)
LEMMA ForumActs ==
    ASSUME ForumInv, NEW r \in ForumRecord, NEW w, r.kind # "reply",
           Accepted(r, w), Len(log) < ForumMost,
           Does(r, "report") => "target" \notin work.locked,
           r.kind = "pin" => r.thread \in work.locked,
           r.kind = "mark_duplicate" /\ r.thread = "duplicate" => r = ForumMark,
           \E value \in [{"move", "edit_title"} -> BOOLEAN] :
            /\ \A kind \in {"move", "edit_title"} :
                value[kind] = IF Does(r, kind) THEN r.right ELSE work.value[kind]
            /\ w = [locked |-> work.locked \cup (IF r.kind = "lock" THEN {r.thread} ELSE {}),
                    replied |-> work.replied, answered |-> work.answered,
                    value |-> value, actions |-> Append(work.actions, r)]
    PROVE  ForumInv' /\ result' = result
<1>1. PICK value \in [{"move", "edit_title"} -> BOOLEAN] :
            /\ \A kind \in {"move", "edit_title"} :
                value[kind] = IF Does(r, kind) THEN r.right ELSE work.value[kind]
            /\ w = [locked |-> work.locked \cup (IF r.kind = "lock" THEN {r.thread} ELSE {}),
                    replied |-> work.replied, answered |-> work.answered,
                    value |-> value, actions |-> Append(work.actions, r)]
  OBVIOUS
<1>2. work' = w /\ log' = Append(log, r) /\ UNCHANGED <<task, result>>
  BY DEF Accepted
<1>3. /\ work'.locked = work.locked \cup (IF r.kind = "lock" THEN {r.thread} ELSE {})
      /\ work'.replied = work.replied /\ work'.answered = work.answered
      /\ work'.value = value /\ work'.actions = Append(work.actions, r)
      /\ work' = [locked |-> work'.locked, replied |-> work'.replied,
                  answered |-> work'.answered, value |-> work'.value, actions |-> work'.actions]
  BY <1>1, <1>2
<1>4. work.replied \in BOOLEAN /\ work.answered \in BOOLEAN
  BY DEF ForumInv, ForumShape
<1>5. ForumTakes(r)
  BY <1>1, <1>2, <1>3, <1>4, Zenon DEF ForumTakes
<1>6. Session!TypeOfEnvelope'
  BY AcceptedEnvelope, Zenon DEF ForumInv
<1> QED BY <1>2, <1>5, <1>6, ForumTaken, Zenon

(* A reply is one. *)
LEMMA ForumReplied ==
    ASSUME ForumInv, NEW right \in BOOLEAN, Forum!Reply(right)
    PROVE  ForumInv' /\ result' = result
<1> DEFINE r == [thread |-> "target", kind |-> "reply", right |-> right]
           w == [work EXCEPT !.replied = TRUE, !.answered = @ \/ right]
<1>1. Accepted(r, w) /\ Len(log) < ForumMost
  BY DEF Forum!Reply, Forum!Request, Forum!Accept, Accepted, ForumMost
<1>2. r \in ForumRecord
  BY DEF ForumRecord, Forum!Threads
<1>3. PICK b \in BOOLEAN : b <=> work.answered \/ right
  BY Zenon DEF ForumInv, ForumShape
<1>4. w = [locked |-> work.locked, replied |-> TRUE, answered |-> work.answered \/ right,
           value |-> work.value, actions |-> work.actions]
  BY ForumFielded, ForumFieldsOfReply
<1>5. /\ work'.locked = work.locked /\ work'.replied = TRUE
      /\ work'.answered = (work.answered \/ right)
      /\ work'.value = work.value /\ work'.actions = work.actions
      /\ work' = [locked |-> work'.locked, replied |-> work'.replied,
                  answered |-> work'.answered, value |-> work'.value, actions |-> work'.actions]
  BY <1>1, <1>4 DEF Accepted
<1>6. /\ work'.replied \in BOOLEAN /\ work'.answered \in BOOLEAN
      /\ work'.value \in [{"move", "edit_title"} -> BOOLEAN]
      /\ work'.answered <=> work.answered \/ right
  <2>1. work.value \in [{"move", "edit_title"} -> BOOLEAN]
    BY DEF ForumInv, ForumShape
  <2> QED BY <1>5, <2>1, Zenon
<1>7. r.kind = "reply" /\ r.thread = "target" /\ r.right = right
  OBVIOUS
<1>8. ForumTakes(r)
  <2>1. log' = Append(log, r) /\ UNCHANGED <<task, result>>
    BY <1>1 DEF Accepted
  <2>2. work'.locked = work.locked \cup {}
    BY <1>5
  <2>3. ~Does(r, "report") /\ \A kind \in {"move", "edit_title"} : ~Does(r, kind)
    BY <1>7 DEF Does
  <2> HIDE DEF r
  <2> QED BY <1>1, <1>2, <1>5, <1>6, <1>7, <2>1, <2>2, <2>3 DEF ForumTakes
<1>9. Session!TypeOfEnvelope' /\ result' = result
  BY <1>1, AcceptedEnvelope, Zenon DEF ForumInv
<1> QED BY <1>8, <1>9, ForumTaken

(* A lock is one. *)
LEMMA ForumLocked ==
    ASSUME ForumInv, NEW thread \in Forum!Threads, NEW right \in BOOLEAN,
           Forum!Lock(thread, right)
    PROVE  ForumInv' /\ result' = result
<1> DEFINE r == [thread |-> thread, kind |-> "lock", right |-> right]
           w == [locked |-> work.locked \cup {thread}, replied |-> work.replied,
                 answered |-> work.answered, value |-> work.value,
                 actions |-> Append(work.actions, r)]
<1>1. Accepted(r, [[work EXCEPT !.actions = Append(@, r)] EXCEPT !.locked = @ \cup {thread}])
      /\ Len(log) < ForumMost
  BY DEF Forum!Lock, Forum!Request, Forum!Acted, Forum!Accept, Accepted, ForumMost,
         Forum!CompletionAction
<1>2. [[work EXCEPT !.actions = Append(@, r)] EXCEPT !.locked = @ \cup {thread}] = w
  BY ForumFielded, ForumFieldsOfLock
<1>3. r \in ForumRecord /\ r.kind = "lock" /\ r.thread = thread
  BY DEF ForumRecord, ForumTriaged
<1>4. work.value \in [{"move", "edit_title"} -> BOOLEAN]
  BY DEF ForumInv, ForumShape
<1>5. w = [locked |-> work.locked \cup (IF r.kind = "lock" THEN {r.thread} ELSE {}),
           replied |-> work.replied, answered |-> work.answered,
           value |-> work.value, actions |-> Append(work.actions, r)]
  BY <1>3
<1>6. ~Does(r, "report") /\ \A kind \in {"move", "edit_title"} : ~Does(r, kind)
  BY <1>3 DEF Does
<1> HIDE DEF r, w
<1> QED BY <1>1, <1>2, <1>3, <1>4, <1>5, <1>6, ForumActs

(* What leaves the locks and the values alone. *)
LEMMA ForumPlain ==
    ASSUME ForumInv, NEW r \in ForumRecord, r.kind \in {"pin", "report", "mark_duplicate"},
           Accepted(r, Forum!Acted(work, r)), Len(log) < ForumMost,
           Does(r, "report") => "target" \notin work.locked,
           r.kind = "pin" => r.thread \in work.locked,
           r.kind = "mark_duplicate" /\ r.thread = "duplicate" => r = ForumMark
    PROVE  ForumInv' /\ result' = result
<1> DEFINE w == [locked |-> work.locked, replied |-> work.replied, answered |-> work.answered,
                 value |-> work.value, actions |-> Append(work.actions, r)]
<1>1. Forum!Acted(work, r) = w
  BY ForumFielded, ForumFieldsOfAction DEF Forum!Acted
<1>2. work.value \in [{"move", "edit_title"} -> BOOLEAN]
  BY DEF ForumInv, ForumShape
<1>3. w = [locked |-> work.locked \cup (IF r.kind = "lock" THEN {r.thread} ELSE {}),
           replied |-> work.replied, answered |-> work.answered,
           value |-> work.value, actions |-> Append(work.actions, r)]
  <2>1. work.locked = work.locked \cup (IF r.kind = "lock" THEN {r.thread} ELSE {})
    OBVIOUS
  <2> QED BY <2>1
<1>4. Accepted(r, w)
  BY <1>1
<1>5. \A kind \in {"move", "edit_title"} : ~Does(r, kind)
  BY DEF Does
<1> HIDE DEF w
<1> QED BY <1>2, <1>3, <1>4, <1>5, ForumActs

(* A move, and an edit of the title, are such requests. *)
LEMMA ForumRewrites ==
    ASSUME ForumInv, NEW thread \in Forum!Threads, NEW kind \in {"move", "edit_title"},
           NEW right \in BOOLEAN, Forum!Rewrite(thread, kind, right)
    PROVE  ForumInv' /\ result' = result
<1> DEFINE r == [thread |-> thread, kind |-> kind, right |-> right]
           new == IF thread = "target" THEN right ELSE work.value[kind]
           value == [work.value EXCEPT ![kind] = new]
           w == [locked |-> work.locked, replied |-> work.replied,
                 answered |-> work.answered, value |-> value,
                 actions |-> Append(work.actions, r)]
<1>1. Accepted(r, [[work EXCEPT !.actions = Append(@, r)] EXCEPT !.value[kind] = new])
      /\ Len(log) < ForumMost
  BY DEF Forum!Rewrite, Forum!Request, Forum!Acted, Forum!Accept, Accepted, ForumMost
<1>2. [[work EXCEPT !.actions = Append(@, r)] EXCEPT !.value[kind] = new] = w
  <2> HIDE DEF r, new
  <2> QED BY ForumFielded, ForumFieldsOfValue
<1>3. r \in ForumRecord /\ r.kind = kind /\ r.thread = thread /\ r.right = right
  BY DEF ForumRecord, ForumTriaged
<1>8. work.value \in [{"move", "edit_title"} -> BOOLEAN]
  BY DEF ForumInv, ForumShape
<1>9. new \in BOOLEAN
  BY <1>8
<1>4. value \in [{"move", "edit_title"} -> BOOLEAN]
      /\ \A k \in {"move", "edit_title"} : value[k] = IF k = kind THEN new ELSE work.value[k]
  <2> HIDE DEF new
  <2> QED BY <1>8, <1>9
<1>5. w = [locked |-> work.locked \cup (IF r.kind = "lock" THEN {r.thread} ELSE {}),
           replied |-> work.replied, answered |-> work.answered,
           value |-> value, actions |-> Append(work.actions, r)]
  <2>1. work.locked = work.locked \cup (IF r.kind = "lock" THEN {r.thread} ELSE {})
    BY <1>3
  <2> QED BY <2>1
<1>6. \A k \in {"move", "edit_title"} :
        value[k] = IF Does(r, k) THEN r.right ELSE work.value[k]
  <2> TAKE k \in {"move", "edit_title"}
  <2>1. Does(r, k) <=> k = kind /\ thread = "target"
    BY <1>3, Zenon DEF Does
  <2>2. CASE k # kind
    BY <1>4, <2>1, <2>2
  <2>3. CASE k = kind /\ thread = "target"
    <3>1. value[k] = new /\ new = right
      BY <1>4, <2>3
    <3> QED BY <1>3, <2>1, <2>3, <3>1, Zenon
  <2>4. CASE k = kind /\ thread # "target"
    <3>1. value[k] = new /\ new = work.value[k]
      BY <1>4, <2>4
    <3> QED BY <2>1, <2>4, <3>1, Zenon
  <2> QED BY <2>2, <2>3, <2>4
<1>7. Accepted(r, w)
  BY <1>1, <1>2
<1>10. ~Does(r, "report")
  BY <1>3 DEF Does
<1> HIDE DEF r, w, value, new
<1> QED BY <1>1, <1>3, <1>4, <1>5, <1>6, <1>7, <1>10, ForumActs

(* Every request the application accepts keeps the invariant and stores no *)
(* result.                                                                 *)
LEMMA ForumRequested ==
    ASSUME ForumInv, ForumRequest PROVE ForumInv' /\ result' = result
<1>1. ASSUME NEW thread \in Forum!Threads, NEW right \in BOOLEAN, Forum!Report(thread, right)
      PROVE  ForumInv' /\ result' = result
  <2> DEFINE r == [thread |-> thread, kind |-> "report", right |-> right]
  <2>1. /\ Accepted(r, Forum!Acted(work, r)) /\ Len(log) < ForumMost
        /\ thread \notin work.locked
    BY <1>1 DEF Forum!Report, Forum!Request, Forum!Accept, Accepted, ForumMost
  <2>2. r \in ForumRecord /\ r.kind = "report" /\ r.thread = thread
    BY DEF ForumRecord, ForumTriaged
  <2>3. Does(r, "report") => "target" \notin work.locked
    BY <2>1, <2>2 DEF Does
  <2> HIDE DEF r
  <2> QED BY <2>1, <2>2, <2>3, ForumPlain
<1>2. ASSUME NEW thread \in Forum!Threads, Forum!Pin(thread) PROVE ForumInv' /\ result' = result
  <2> DEFINE r == [thread |-> thread, kind |-> "pin", right |-> TRUE]
  <2>1. /\ Accepted(r, Forum!Acted(work, r)) /\ Len(log) < ForumMost
        /\ thread \in work.locked
    BY <1>2 DEF Forum!Pin, Forum!Request, Forum!Accept, Accepted, ForumMost,
                Forum!CompletionAction
  <2>2. r \in ForumRecord /\ r.kind = "pin" /\ r.thread = thread /\ ~Does(r, "report")
    BY DEF ForumRecord, ForumTriaged, Does
  <2> HIDE DEF r
  <2> QED BY <2>1, <2>2, ForumPlain
<1>3. ASSUME NEW thread \in Forum!Threads, Forum!MarkDuplicate(thread)
      PROVE  ForumInv' /\ result' = result
  <2> DEFINE r == [thread |-> thread, kind |-> "mark_duplicate", right |-> thread = "duplicate"]
  <2>1. Accepted(r, Forum!Acted(work, r)) /\ Len(log) < ForumMost
    BY <1>3 DEF Forum!MarkDuplicate, Forum!Request, Forum!Accept, Accepted, ForumMost
  <2>2. r \in ForumRecord /\ r.kind = "mark_duplicate" /\ r.thread = thread
    <3>1. (thread = "duplicate") \in BOOLEAN
      OBVIOUS
    <3> QED BY <3>1 DEF ForumRecord, ForumTriaged
  <2>3. (r.thread = "duplicate" => r = ForumMark) /\ ~Does(r, "report")
    BY DEF ForumMark, Does
  <2> HIDE DEF r
  <2> QED BY <2>1, <2>2, <2>3, ForumPlain
<1>4. ASSUME Forum!Triage PROVE ForumInv' /\ result' = result
  BY <1>1, <1>3, <1>4, ForumRewrites DEF Forum!Triage
<1>5. "target" \in Forum!Threads /\ "duplicate" \in Forum!Threads
  BY DEF Forum!Threads
<1> QED BY <1>2, <1>4, <1>5, ForumReplied, ForumLocked DEF ForumRequest

(* The evaluator's first action of a kind is the first request of it. *)
LEMMA ForumFirstIs ==
    ASSUME ForumInv, NEW kind \in ForumTriaged
    PROVE  /\ Forum!FirstOf(work, kind) # 0 <=> Forum!Doing(kind) # {}
           /\ Forum!FirstIsRight(work, kind) <=> Forum!NoneWrong(kind)
<1> DEFINE I == {n \in 1..Len(work.actions) : Does(work.actions[n], kind)}
           D == Forum!Doing(kind)
<1>1. Forum!FirstOf(work, kind) = IF I # {} THEN Forum!Min(I) ELSE 0
  BY DEF Forum!FirstOf, Forum!SelectInSeq, Does
<1>2. D = {i \in DOMAIN log : Does(log[i], kind)}
  BY DEF Forum!Doing, Does
<1>3. I = {n \in DOMAIN work.actions : Does(work.actions[n], kind)} /\ I \in SUBSET Nat
  BY ForumFacts
<1>4. D \in SUBSET Nat
  BY <1>2, ForumFacts
<1> HIDE DEF I, D
<1>5. CASE ForumNever(kind)
  <2>1. I = {} /\ D = {}
    BY <1>2, <1>3, <1>5 DEF ForumNever
  <2> QED BY <1>1, <2>1 DEF Forum!FirstIsRight, Forum!NoneWrong, D
<1>6. CASE ForumOnce(kind)
  <2>1. PICK i \in DOMAIN log, n \in DOMAIN work.actions :
            /\ log[i] = work.actions[n] /\ Does(log[i], kind)
            /\ \A j \in DOMAIN log : Does(log[j], kind) => i <= j
            /\ \A m \in DOMAIN work.actions : Does(work.actions[m], kind) => n <= m
    BY <1>6 DEF ForumOnce
  <2>2. n \in I /\ \A m \in I : n <= m
    BY <1>3, <2>1
  <2>3. i \in D /\ \A j \in D : i <= j
    BY <1>2, <2>1
  <2>4. Forum!Min(I) = n /\ Forum!Min(D) = i
    BY <1>3, <1>4, <2>2, <2>3, EarliestIs
  <2>5. n # 0 /\ I # {} /\ D # {}
    <3>1. n \in 1..Len(work.actions)
      BY ForumFacts
    <3> QED BY <2>2, <2>3, <3>1
  <2>6. Forum!FirstOf(work, kind) = n
    BY <1>1, <2>4, <2>5
  <2>7. Forum!FirstIsRight(work, kind) <=> work.actions[n].right
    BY <2>5, <2>6, Zenon DEF Forum!FirstIsRight
  <2>8. Forum!NoneWrong(kind) <=> log[i].right
    BY <2>4, <2>5, Zenon DEF Forum!NoneWrong, D
  <2> QED BY <2>1, <2>5, <2>6, <2>7, <2>8, Zenon DEF D
<1> QED BY <1>5, <1>6 DEF ForumInv, ForumFirst

(* The value of a rewritten thread is that of the latest request. *)
LEMMA ForumLastRight ==
    ASSUME ForumInv, NEW kind \in {"move", "edit_title"}, Forum!Doing(kind) # {}
    PROVE  log[Forum!Max(Forum!Doing(kind))].right = work.value[kind]
<1> DEFINE D == Forum!Doing(kind)
<1>1. D = {i \in DOMAIN log : Does(log[i], kind)}
  BY DEF Forum!Doing, Does
<1>2. D \in SUBSET Nat
  BY <1>1, ForumFacts
<1>3. PICK i \in D : log[i].right = work.value[kind] /\ \A j \in D : j <= i
  <2> HIDE DEF D
  <2> QED BY <1>1 DEF ForumInv, ForumValue, D
<1>4. Forum!Max(D) = i
  <2> HIDE DEF D
  <2> QED BY <1>2, <1>3, LatestIs
<1> QED BY <1>3, <1>4

(* Three places, one after the other, hold an order of three. *)
LEMMA ForumPlaces ==
    ASSUME ForumInv, NEW a, NEW b, NEW c
    PROVE  Forum!InOrder(<<a, b, c>>)
           <=> \E i, j, m \in DOMAIN log :
                i < j /\ j < m /\ log[i].kind = a /\ log[j].kind = b /\ log[m].kind = c
<1> DEFINE order == <<a, b, c>>
<1>1. DOMAIN order = {1, 2, 3} /\ order[1] = a /\ order[2] = b /\ order[3] = c
  OBVIOUS
<1> HIDE DEF order
<1>2. ASSUME NEW i \in DOMAIN log, NEW j \in DOMAIN log, NEW m \in DOMAIN log,
             i < j, j < m, log[i].kind = a, log[j].kind = b, log[m].kind = c
      PROVE  Forum!InOrder(order)
  <2> DEFINE place == [n \in DOMAIN order |-> IF n = 1 THEN i ELSE IF n = 2 THEN j ELSE m]
  <2>1. place \in [DOMAIN order -> DOMAIN log] /\ place[1] = i /\ place[2] = j /\ place[3] = m
    BY <1>1
  <2> HIDE DEF place
  <2>2. \A n \in DOMAIN order : log[place[n]].kind = order[n]
    BY <1>1, <1>2, <2>1
  <2>3. i < m
    BY <1>2, ForumFacts
  <2>4. \A n, k \in DOMAIN order : n < k => place[n] < place[k]
    BY <1>1, <1>2, <2>1, <2>3
  <2> QED BY <2>1, <2>2, <2>4 DEF Forum!InOrder
<1>3. ASSUME NEW place \in [DOMAIN order -> DOMAIN log],
             \A n \in DOMAIN order : log[place[n]].kind = order[n],
             \A n, k \in DOMAIN order : n < k => place[n] < place[k]
      PROVE  \E i, j, m \in DOMAIN log :
                i < j /\ j < m /\ log[i].kind = a /\ log[j].kind = b /\ log[m].kind = c
  <2>1. place[1] \in DOMAIN log /\ place[2] \in DOMAIN log /\ place[3] \in DOMAIN log
    BY <1>1
  <2>2. place[1] < place[2] /\ place[2] < place[3]
    BY <1>1, <1>3
  <2>3. log[place[1]].kind = a /\ log[place[2]].kind = b /\ log[place[3]].kind = c
    BY <1>1, <1>3
  <2> QED BY <2>1, <2>2, <2>3, Zenon
<1>4. Forum!InOrder(order) => \E i, j, m \in DOMAIN log :
                i < j /\ j < m /\ log[i].kind = a /\ log[j].kind = b /\ log[m].kind = c
  BY <1>3 DEF Forum!InOrder
<1> QED BY <1>2, <1>4 DEF order

(* Of what was done as it was asked for, the evaluator counts the order if *)
(* and only if the requests contain it.                                    *)
LEMMA ForumFollowsOrder ==
    ASSUME ForumInv, Forum!Doing("lock") # {},
           "report" \in task.required => Forum!Doing("report") # {},
           "pin" \in task.required => Forum!Doing("pin") # {}
    PROVE  Forum!Follows(work) = Len(task.order) <=> Forum!InOrder(task.order)
<1>1. PICK f : ForumFar(f) /\ Forum!Follows(work) = f
  BY ForumFollowed DEF ForumInv
<1>2. PICK t \in Forum!Questions : t = task
  BY DEF ForumInv
<1>3. CASE t.order = <<>>
  <2>1. Len(t.order) = 0 /\ DOMAIN t.order = {}
    BY <1>3
  <2>2. f = 0
    BY <1>1, <1>2, <2>1 DEF ForumFar
  <2>3. Forum!InOrder(t.order)
    <3> DEFINE place == [n \in {} |-> 0]
    <3>1. place \in [{} -> DOMAIN log]
      OBVIOUS
    <3> QED BY <2>1, <3>1, Zenon DEF Forum!InOrder
  <2> QED BY <1>1, <1>2, <2>1, <2>2, <2>3
<1>4. CASE t.order = <<"report", "lock", "pin">>
  <2>1. Len(t.order) = 3 /\ t.required = {"report", "pin"}
    BY <1>4, ForumAsks
  <2>2. PICK i \in DOMAIN log, m \in DOMAIN log : Does(log[i], "report") /\ Does(log[m], "pin")
    BY <1>2, <2>1 DEF Forum!Doing, Does
  <2>3. PICK j \in DOMAIN log : Does(log[j], "lock") /\ j < m /\ i < j
    BY <2>2 DEF ForumInv, ForumLocks
  <2>4. /\ ForumOrders(t, log[i], 0) /\ ForumOrders(t, log[j], 1) /\ ForumOrders(t, log[m], 2)
    BY <1>4, <2>2, <2>3, ForumOrdersIf
  <2>5. f = 3
    <3>1. f >= 3
      BY <1>1, <1>2, <2>3, <2>4 DEF ForumFar
    <3>2. f \in Nat /\ f <= 3
      BY <1>1, <1>2, <2>1 DEF ForumFar
    <3> QED BY <3>1, <3>2
  <2>6. Forum!InOrder(<<"report", "lock", "pin">>)
    <3>1. log[i].kind = "report" /\ log[j].kind = "lock" /\ log[m].kind = "pin"
      BY <2>2, <2>3 DEF Does
    <3> QED BY <2>3, <3>1, ForumPlaces
  <2> QED BY <1>1, <1>2, <1>4, <2>1, <2>5, <2>6
<1>5. CASE t.order = <<"mark_duplicate", "move", "lock">>
  <2>1. Len(t.order) = 3
    BY <1>5
  <2>2. f = 3 <=> f >= 3
    <3>1. f \in Nat /\ f <= 3
      BY <1>1, <1>2, <2>1 DEF ForumFar
    <3> QED BY <3>1
  <2>3. f >= 3 <=> \E i, j, m \in DOMAIN log :
                    /\ i < j /\ ForumOrders(t, log[i], 0) /\ ForumOrders(t, log[j], 1)
                    /\ j < m /\ ForumOrders(t, log[m], 2)
    BY <1>1, <1>2, Zenon DEF ForumFar
  <2>4. \A i \in DOMAIN log :
            /\ ForumOrders(t, log[i], 0) <=> log[i].kind = "mark_duplicate"
            /\ ForumOrders(t, log[i], 1) <=> log[i].kind = "move"
            /\ ForumOrders(t, log[i], 2) <=> log[i].kind = "lock"
    BY <1>5, ForumOrdersIf
  <2>5. f >= 3 <=> \E i, j, m \in DOMAIN log :
                    /\ i < j /\ j < m /\ log[i].kind = "mark_duplicate"
                    /\ log[j].kind = "move" /\ log[m].kind = "lock"
    BY <2>3, <2>4, Zenon
  <2>6. f >= 3 <=> Forum!InOrder(<<"mark_duplicate", "move", "lock">>)
    <3>1. Forum!InOrder(<<"mark_duplicate", "move", "lock">>)
          <=> \E i, j, m \in DOMAIN log :
                /\ i < j /\ j < m /\ log[i].kind = "mark_duplicate"
                /\ log[j].kind = "move" /\ log[m].kind = "lock"
      BY ForumPlaces
    <3> QED BY <2>5, <3>1
  <2>7. f = Len(t.order) <=> f >= 3
    BY <2>1, <2>2
  <2> QED BY <1>1, <1>2, <1>5, <2>6, <2>7, Zenon
<1> QED BY <1>3, <1>4, <1>5, ForumAsks

(* The evaluator passes exactly the work that the requests make deserved. *)
LEMMA ForumJudged ==
    ASSUME ForumInv PROVE Forum!Evaluate(work) = "passed" <=> Forum!Deserved
<1>1. task.required \subseteq ForumTriaged
  BY ForumAsks DEF ForumInv
<1>2. /\ "lock" \in ForumTriaged /\ "pin" \in ForumTriaged /\ "report" \in ForumTriaged
      /\ "move" \in ForumTriaged /\ "edit_title" \in ForumTriaged
  BY DEF ForumTriaged
<1>3. work.answered /\ work.replied <=> \E i \in Forum!Doing("reply") : log[i].right
  BY DEF ForumInv, ForumReplies, Forum!Doing, Does
<1>4. "target" \in work.locked <=> Forum!Doing("lock") # {}
  BY DEF ForumInv, ForumLocks, Forum!Doing, Does
<1>5. (\E i \in DOMAIN work.actions :
          work.actions[i] = [thread |-> "duplicate", kind |-> "mark_duplicate", right |-> TRUE])
      <=> \E i \in DOMAIN log : log[i].kind = "mark_duplicate" /\ log[i].thread = "duplicate"
  BY Zenon DEF ForumInv, ForumMarks, ForumMark
<1> DEFINE needs(kind) == kind \in task.required
           answered == \E i \in Forum!Doing("reply") : log[i].right
           locked == Forum!NoneWrong("lock")
           pinned == needs("pin") => Forum!Doing("pin") # {}
           reported == needs("report") => Forum!NoneWrong("report")
           rewritten(kind) ==
                needs(kind) => Forum!NoneWrong(kind) /\ log[Forum!Max(Forum!Doing(kind))].right
           marked == needs("mark_duplicate") =>
                \E i \in DOMAIN log :
                    log[i].kind = "mark_duplicate" /\ log[i].thread = "duplicate"
           followed == Forum!Follows(work) = Len(task.order)
<1>6. \A kind \in {"move", "edit_title"} :
        Forum!FirstIsRight(work, kind) /\ work.value[kind]
        <=> Forum!NoneWrong(kind) /\ log[Forum!Max(Forum!Doing(kind))].right
  <2> TAKE kind \in {"move", "edit_title"}
  <2>1. Forum!FirstIsRight(work, kind) <=> Forum!NoneWrong(kind)
    BY <1>2, ForumFirstIs
  <2>2. Forum!NoneWrong(kind) => Forum!Doing(kind) # {}
    BY DEF Forum!NoneWrong
  <2> QED BY <2>1, <2>2, ForumLastRight, Zenon
<1>7. Forum!Evaluate(work) = "passed"
      <=> /\ answered /\ locked /\ pinned /\ reported
          /\ rewritten("move") /\ rewritten("edit_title") /\ marked /\ followed
  <2>1. /\ Forum!FirstIsRight(work, "lock") <=> locked
        /\ Forum!FirstIsRight(work, "report") <=> Forum!NoneWrong("report")
        /\ Forum!FirstOf(work, "pin") # 0 <=> Forum!Doing("pin") # {}
    BY <1>2, ForumFirstIs
  <2>2. locked => "target" \in work.locked
    BY <1>4 DEF Forum!NoneWrong
  <2>3. Forum!Evaluate(work) = "passed"
        <=> /\ work.answered
            /\ work.replied /\ "target" \in work.locked /\ Forum!FirstIsRight(work, "lock")
            /\ needs("pin") => Forum!FirstOf(work, "pin") # 0
            /\ needs("report") => Forum!FirstIsRight(work, "report")
            /\ \A kind \in {"move", "edit_title"} :
                needs(kind) => Forum!FirstIsRight(work, kind) /\ work.value[kind]
            /\ needs("mark_duplicate") =>
                \E i \in DOMAIN work.actions :
                    work.actions[i] = [thread |-> "duplicate", kind |-> "mark_duplicate",
                                       right |-> TRUE]
            /\ followed
    BY DEF Forum!Evaluate
  <2>4. (\A kind \in {"move", "edit_title"} :
            needs(kind) => Forum!FirstIsRight(work, kind) /\ work.value[kind])
        <=> rewritten("move") /\ rewritten("edit_title")
    BY <1>6, Zenon
  <2> HIDE DEF followed, locked, rewritten
  <2> QED BY <1>3, <1>5, <2>1, <2>2, <2>3, <2>4, Zenon
<1>8. Forum!Deserved
      <=> /\ answered /\ locked /\ pinned /\ reported
          /\ rewritten("move") /\ rewritten("edit_title") /\ marked
          /\ Forum!InOrder(task.order)
  <2>1. (\A kind \in {"lock"} \cup (task.required \cap {"report", "move", "edit_title"}) :
            Forum!NoneWrong(kind))
        <=> /\ locked /\ reported
            /\ needs("move") => Forum!NoneWrong("move")
            /\ needs("edit_title") => Forum!NoneWrong("edit_title")
    OBVIOUS
  <2>2. (\A kind \in task.required \cap {"move", "edit_title"} :
            log[Forum!Max(Forum!Doing(kind))].right)
        <=> /\ needs("move") => log[Forum!Max(Forum!Doing("move"))].right
            /\ needs("edit_title") => log[Forum!Max(Forum!Doing("edit_title"))].right
    OBVIOUS
  <2> QED BY <2>1, <2>2, Zenon DEF Forum!Deserved
<1>9. locked /\ pinned /\ reported => (followed <=> Forum!InOrder(task.order))
  <2>1. /\ locked => Forum!Doing("lock") # {}
        /\ Forum!NoneWrong("report") => Forum!Doing("report") # {}
    BY DEF Forum!NoneWrong
  <2> QED BY <2>1, ForumFollowsOrder, Zenon
<1> HIDE DEF answered, locked, pinned, reported, rewritten, marked, followed
<1> QED BY <1>7, <1>8, <1>9

-----------------------------------------------------------------------------
(* Each application: what a step may do *)

(* A step that keeps the requests judges at most once, and as v says. *)
LEMMA WorkRests ==
    ASSUME NEW v \in {"passed", "failed"}, Session!TypeOfEnvelope, Rests(v, work)
    PROVE  /\ Session!TypeOfEnvelope' /\ UNCHANGED <<task, log, work>>
           /\ result = "none" => result' \in {"none", v}
<1>1. \E w : Rests(v, w)
  OBVIOUS
<1>2. work' = work
  BY DEF Rests, Session!Complete, Session!Judge, Session!Recover
<1> QED BY <1>1, <1>2, EnvelopeKept, Zenon

(* A step of the notes keeps its invariant, and stores no verdict but the  *)
(* one the requests deserve.                                               *)
LEMMA NotesStep ==
    ASSUME NotesInv, Notes!Next
    PROVE  /\ NotesInv'
           /\ result = "none" /\ result' = "passed" => Notes!Deserved
           /\ result = "none" /\ result' = "failed" => ~Notes!Deserved
<1>1. CASE NotesRequest
  <2>1. NotesInv' /\ result' = result
    BY <1>1, NotesRequested, Zenon
  <2> QED BY <2>1
<1>2. ASSUME NEW v \in {"passed", "failed"}, v = Notes!Evaluate(work), Rests(v, work)
      PROVE  /\ NotesInv' /\ (result = "none" => result' \in {"none", v})
             /\ v = "passed" <=> Notes!Deserved
  BY <1>2, WorkRests, NotesSame, NotesJudged, Zenon DEF NotesInv
<1> QED BY <1>1, <1>2, NotesSteps

(* A step of the wiki keeps its invariant, and stores no verdict but the   *)
(* one the requests deserve.                                               *)
LEMMA WikiStep ==
    ASSUME WikiInv, Wiki!Next
    PROVE  /\ WikiInv'
           /\ result = "none" /\ result' = "passed" => Wiki!Deserved
           /\ result = "none" /\ result' = "failed" => ~Wiki!Deserved
<1>1. CASE WikiRequest
  <2>1. WikiInv' /\ result' = result
    BY <1>1, WikiViews, WikiAnswers, Zenon DEF WikiRequest
  <2> QED BY <2>1
<1>2. ASSUME NEW v \in {"passed", "failed"}, v = Wiki!Evaluate(work), Rests(v, work)
      PROVE  /\ WikiInv' /\ (result = "none" => result' \in {"none", v})
             /\ v = "passed" <=> Wiki!Deserved
  BY <1>2, WorkRests, WikiSame, WikiJudged, Zenon DEF WikiInv
<1> QED BY <1>1, <1>2, WikiSteps

(* A step of the repository keeps its invariant, and stores no verdict but *)
(* the one the requests deserve.                                           *)
LEMMA RepoStep ==
    ASSUME RepoInv, Repo!Next
    PROVE  /\ RepoInv'
           /\ result = "none" /\ result' = "passed" => Repo!Deserved
           /\ result = "none" /\ result' = "failed" => ~Repo!Deserved
<1>1. CASE RepoRequest
  <2>1. RepoInv' /\ result' = result
    BY <1>1, RepoEdits, RepoMerges, Zenon DEF RepoRequest
  <2> QED BY <2>1
<1>2. ASSUME NEW v \in {"passed", "failed"}, v = Repo!Evaluate(work), Rests(v, work)
      PROVE  /\ RepoInv' /\ (result = "none" => result' \in {"none", v})
             /\ v = "passed" <=> Repo!Deserved
  BY <1>2, WorkRests, RepoSame, RepoJudged, Zenon DEF RepoInv
<1> QED BY <1>1, <1>2, RepoSteps

(* A step of the sheet keeps its invariant, and stores no verdict but the  *)
(* one the requests deserve.                                               *)
LEMMA SheetsStep ==
    ASSUME SheetsInv, Sheets!Next
    PROVE  /\ SheetsInv'
           /\ result = "none" /\ result' = "passed" => Sheets!Deserved
           /\ result = "none" /\ result' = "failed" => ~Sheets!Deserved
<1>1. CASE SheetsRequest
  <2>1. SheetsInv' /\ result' = result
    BY <1>1, SheetsUpserts, SheetsRemoves, SheetsValidates, Zenon DEF SheetsRequest
  <2> QED BY <2>1
<1>2. ASSUME NEW v \in {"passed", "failed"}, v = Sheets!Evaluate(work), Rests(v, work)
      PROVE  /\ SheetsInv' /\ (result = "none" => result' \in {"none", v})
             /\ v = "passed" <=> Sheets!Deserved
  BY <1>2, WorkRests, SheetsSame, SheetsJudged, Zenon DEF SheetsInv
<1> QED BY <1>1, <1>2, SheetsSteps

(* A step of the calendar keeps its invariant, and stores no verdict but   *)
(* the one the requests deserve.                                           *)
LEMMA CalendarStep ==
    ASSUME CalendarInv, Calendar!Next
    PROVE  /\ CalendarInv'
           /\ result = "none" /\ result' = "passed" => Calendar!Deserved
           /\ result = "none" /\ result' = "failed" => ~Calendar!Deserved
<1>1. CASE CalendarRequest
  <2>1. CalendarInv' /\ result' = result
    BY <1>1, CalendarRequested, Zenon
  <2> QED BY <2>1
<1>2. ASSUME NEW v \in {"passed", "failed"}, v = Calendar!Evaluate(work), Rests(v, work)
      PROVE  /\ CalendarInv' /\ (result = "none" => result' \in {"none", v})
             /\ v = "passed" <=> Calendar!Deserved
  BY <1>2, WorkRests, CalendarSame, CalendarJudged, Zenon DEF CalendarInv
<1> QED BY <1>1, <1>2, CalendarSteps

(* A step of the shop keeps its invariant, and stores no verdict but the   *)
(* one the requests deserve.                                               *)
LEMMA ShoppingStep ==
    ASSUME ShoppingInv, Shopping!Next
    PROVE  /\ ShoppingInv'
           /\ result = "none" /\ result' = "passed" => Shopping!Deserved
           /\ result = "none" /\ result' = "failed" => ~Shopping!Deserved
<1>1. CASE ShoppingRequest
  <2>1. ShoppingInv' /\ result' = result
    BY <1>1, ShoppingRequested, Zenon
  <2> QED BY <2>1
<1>2. ASSUME NEW v \in {"passed", "failed"}, v = Shopping!Evaluate(work), Rests(v, work)
      PROVE  /\ ShoppingInv' /\ (result = "none" => result' \in {"none", v})
             /\ v = "passed" <=> Shopping!Deserved
  BY <1>2, WorkRests, ShoppingSame, ShoppingJudged, Zenon DEF ShoppingInv
<1> QED BY <1>1, <1>2, ShoppingSteps

(* A step of the forum keeps its invariant, and stores no verdict but the  *)
(* one the requests deserve.                                               *)
LEMMA ForumStep ==
    ASSUME ForumInv, Forum!Next
    PROVE  /\ ForumInv'
           /\ result = "none" /\ result' = "passed" => Forum!Deserved
           /\ result = "none" /\ result' = "failed" => ~Forum!Deserved
<1>1. CASE ForumRequest
  <2>1. ForumInv' /\ result' = result
    BY <1>1, ForumRequested, Zenon
  <2> QED BY <2>1
<1>2. ASSUME NEW v \in {"passed", "failed"}, v = Forum!Evaluate(work), Rests(v, work)
      PROVE  /\ ForumInv' /\ (result = "none" => result' \in {"none", v})
             /\ v = "passed" <=> Forum!Deserved
  BY <1>2, WorkRests, ForumSame, ForumJudged, Zenon DEF ForumInv
<1> QED BY <1>1, <1>2, ForumSteps

(* A step of the inbox keeps its invariant, and stores no verdict but the  *)
(* one the requests deserve.                                               *)
LEMMA InboxStep ==
    ASSUME InboxInv, Inbox!Next
    PROVE  /\ InboxInv'
           /\ result = "none" /\ result' = "passed" => Inbox!Deserved
           /\ result = "none" /\ result' = "failed" => ~Inbox!Deserved
<1>1. CASE InboxRequest
  <2>1. InboxInv' /\ result' = result
    BY <1>1, InboxRequested, Zenon
  <2> QED BY <2>1
<1>2. ASSUME NEW v \in {"passed", "failed"}, v = Inbox!Evaluate(work),
             NEW w, InboxSame(w), Rests(v, w)
      PROVE  /\ InboxInv' /\ (result = "none" => result' \in {"none", v})
             /\ v = "passed" <=> Inbox!Deserved
  <2>1. work' = work \/ work' = [work EXCEPT !.threads = FALSE]
    BY <1>2 DEF Rests, Session!Complete, Session!Judge, Session!Recover, InboxSame
  <2>2. Session!TypeOfEnvelope
    BY DEF InboxInv
  <2>3. /\ Session!TypeOfEnvelope' /\ UNCHANGED <<task, log>>
        /\ result = "none" => result' \in {"none", v}
    BY <1>2, <2>2, EnvelopeKept, Zenon
  <2>4. InboxInv'
    BY <2>1, <2>3, InboxSameButThreads, Zenon
  <2>5. v = "passed" <=> Inbox!Deserved
    BY <1>2, InboxJudged, Zenon
  <2> QED BY <2>3, <2>4, <2>5
<1> QED BY <1>1, <1>2, InboxSteps

-----------------------------------------------------------------------------
(* Each application's type is part of its invariant. *)

(* The repository keeps its type. *)
LEMMA RepoTyped == ASSUME RepoInv PROVE Repo!TypeOfWork
  BY DEF RepoInv, Repo!TypeOfWork, MergeRequest

(* The sheet keeps its type. *)
LEMMA SheetsTyped == ASSUME SheetsInv PROVE Sheets!TypeOfWork
<1>1. Sheets!Cardinality(Sheets!Orders) = Cardinality(Sheets!Orders)
  BY SameCardinality
<1>2. Sheets!Range(work.rows) \subseteq {"right", "wrong"}
  BY DEF SheetsInv, SheetsShape, Sheets!Range
<1>3. /\ DOMAIN work.rows \subseteq Sheets!Orders
      /\ work.validated \in [passed : BOOLEAN, count : 0..Cardinality(Sheets!Orders)]
  BY DEF SheetsInv, SheetsShape
<1> QED BY <1>1, <1>2, <1>3, Zenon DEF Sheets!TypeOfWork

(* The calendar keeps its type. *)
LEMMA CalendarTyped == ASSUME CalendarInv PROVE Calendar!TypeOfWork
<1>1. /\ work.events \in Seq(CalendarEvent) /\ work.checks \in Seq(CalendarCheck)
      /\ Requests["calendar-lite"] \in Nat /\ Len(log) <= Requests["calendar-lite"]
      /\ ~task.update => work.checks = <<>>
  BY RequestsAssumption DEF CalendarInv, CalendarShape
<1>2. PICK most \in Nat, n \in Nat : most = Requests["calendar-lite"] /\ n = Len(log) /\ n <= most
  BY <1>1, CalendarFacts
<1> DEFINE Event == [entry : Calendar!Entries, revision : 0..most]
           Check == [event : DOMAIN work.events, baseline : 0..most, updated : BOOLEAN]
<1>3. work.events \in Seq(Event)
  <2>1. ASSUME NEW d \in 1..Len(work.events) PROVE work.events[d] \in Event
    <3>1. work.events[d] \in CalendarEvent /\ d \in DOMAIN work.events
      BY <1>1, <2>1, ElementOfSeq, LenProperties
    <3>2. PICK x : x = work.events[d]
      OBVIOUS
    <3>3. x.revision \in Nat /\ x.revision <= n
      BY <1>2, <3>1, <3>2, CalendarFacts
    <3>4. x.revision \in 0..most
      BY <1>2, <3>3
    <3>5. x = [entry |-> x.entry, revision |-> x.revision] /\ x.entry \in Calendar!Entries
      BY <3>1, <3>2 DEF CalendarEvent
    <3> QED BY <3>2, <3>4, <3>5
  <2> HIDE DEF Event
  <2>2. PICK k \in Nat :
            k = Len(work.events) /\ work.events = [d \in 1..k |-> work.events[d]]
    BY <1>1, LenProperties
  <2>3. work.events \in [1..k -> Event]
    BY <2>1, <2>2
  <2>4. work.events \in UNION {[1..m -> Event] : m \in Nat}
    BY <2>2, <2>3
  <2> QED BY <2>4, SeqDef, Zenon
<1>4. work.checks \in Seq(Check)
  <2>1. ASSUME NEW c \in 1..Len(work.checks) PROVE work.checks[c] \in Check
    <3>1. work.checks[c] \in CalendarCheck /\ c \in DOMAIN work.checks
      BY <1>1, <2>1, ElementOfSeq, LenProperties
    <3>2. PICK x : x = work.checks[c]
      OBVIOUS
    <3>3. x.event \in DOMAIN work.events /\ x.baseline \in Nat /\ x.baseline <= n
      BY <1>2, <3>1, <3>2, CalendarFacts
    <3>4. x.baseline \in 0..most
      BY <1>2, <3>3
    <3>5. /\ x = [event |-> x.event, baseline |-> x.baseline, updated |-> x.updated]
          /\ x.updated \in BOOLEAN
      BY <3>1, <3>2 DEF CalendarCheck
    <3> QED BY <3>2, <3>3, <3>4, <3>5
  <2> HIDE DEF Check
  <2>2. PICK k \in Nat :
            k = Len(work.checks) /\ work.checks = [c \in 1..k |-> work.checks[c]]
    BY <1>1, LenProperties
  <2>3. work.checks \in [1..k -> Check]
    BY <2>1, <2>2
  <2>4. work.checks \in UNION {[1..m -> Check] : m \in Nat}
    BY <2>2, <2>3
  <2> QED BY <2>4, SeqDef, Zenon
<1>5. /\ work.events \in Seq([entry : Calendar!Entries, revision : 0..Requests["calendar-lite"]])
      /\ work.checks \in Seq([event : DOMAIN work.events,
                              baseline : 0..Requests["calendar-lite"], updated : BOOLEAN])
  BY <1>2, <1>3, <1>4, Zenon
<1> QED BY <1>1, <1>5, Zenon DEF Calendar!TypeOfWork

(* The inbox keeps its type. *)
LEMMA InboxTyped == ASSUME InboxInv PROVE Inbox!TypeOfWork
<1>1. InboxShape
  BY DEF InboxInv
<1> QED BY <1>1, Zenon DEF InboxShape, InboxDraft, InboxCheck, InboxMost, Inbox!TypeOfWork

(* The shop keeps its type. *)
LEMMA ShoppingTyped == ASSUME ShoppingInv PROVE Shopping!TypeOfWork
<1>1. ASSUME NEW p \in Shopping!Products PROVE work.cart[p] \in 0..Shopping!Stock[p]
  BY <1>1, ShoppingStock, ShoppingGoods DEF ShoppingInv, ShoppingShape, Cart, InStock, Shopping!Stock
<1>2. ASSUME NEW i \in DOMAIN work.orders PROVE work.orders[i].total \in Nat
  <2>1. work.orders[i] \in ShoppingOrder
    BY <1>2, ElementOfSeq DEF ShoppingInv, ShoppingShape
  <2> QED BY <2>1 DEF ShoppingOrder
<1> QED BY <1>1, <1>2 DEF Shopping!TypeOfWork

(* The forum keeps its type. *)
LEMMA ForumTyped == ASSUME ForumInv PROVE Forum!TypeOfWork
<1>1. ForumShape /\ ForumReplies
  BY DEF ForumInv
<1> QED BY <1>1, Zenon DEF ForumShape, ForumReplies, Forum!TypeOfWork

-----------------------------------------------------------------------------
(* The applications side by side *)

AppsInv ==
    /\ app \in Apps
    /\ app = "notes-lite" => NotesInv
    /\ app = "calendar-lite" => CalendarInv
    /\ app = "inbox-lite" => InboxInv
    /\ app = "sheets-lite" => SheetsInv
    /\ app = "wiki-lite" => WikiInv
    /\ app = "repo-lite" => RepoInv
    /\ app = "shopping-lite" => ShoppingInv
    /\ app = "forum-lite" => ForumInv

(* The applications are the eight. *)
LEMMA AppsAre ==
    Apps = {"notes-lite", "calendar-lite", "inbox-lite", "sheets-lite",
            "wiki-lite", "repo-lite", "shopping-lite", "forum-lite"}
  BY RequestsAssumption DEF Apps

(* What the requests deserve is what their application says. *)
LEMMA DeservedIs ==
    /\ app = "notes-lite" => (Deserved <=> Notes!Deserved)
    /\ app = "calendar-lite" => (Deserved <=> Calendar!Deserved)
    /\ app = "inbox-lite" => (Deserved <=> Inbox!Deserved)
    /\ app = "sheets-lite" => (Deserved <=> Sheets!Deserved)
    /\ app = "wiki-lite" => (Deserved <=> Wiki!Deserved)
    /\ app = "repo-lite" => (Deserved <=> Repo!Deserved)
    /\ app = "shopping-lite" => (Deserved <=> Shopping!Deserved)
    /\ app = "forum-lite" => (Deserved <=> Forum!Deserved)
<1>1. app = "notes-lite" => (Deserved <=> Notes!Deserved)
  BY DEF Deserved
<1>2. app = "calendar-lite" => (Deserved <=> Calendar!Deserved)
  BY DEF Deserved
<1>3. app = "inbox-lite" => (Deserved <=> Inbox!Deserved)
  BY DEF Deserved
<1>4. app = "sheets-lite" => (Deserved <=> Sheets!Deserved)
  BY DEF Deserved
<1>5. app = "wiki-lite" => (Deserved <=> Wiki!Deserved)
  BY DEF Deserved
<1>6. app = "repo-lite" => (Deserved <=> Repo!Deserved)
  BY DEF Deserved
<1>7. app = "shopping-lite" => (Deserved <=> Shopping!Deserved)
  BY DEF Deserved
<1>8. app = "forum-lite" => (Deserved <=> Forum!Deserved)
  BY DEF Deserved
<1> QED BY <1>1, <1>2, <1>3, <1>4, <1>5, <1>6, <1>7, <1>8, Zenon

(* A session starts in the invariant of its application. *)
LEMMA AppsStarts == ASSUME Init PROVE AppsInv
<1>1. CASE app = "notes-lite" /\ Notes!Init
  <2>1. NotesInv
    BY <1>1, NotesStarts, Zenon
  <2> QED BY <1>1, <2>1, AppsAre DEF AppsInv
<1>2. CASE app = "calendar-lite" /\ Calendar!Init
  <2>1. CalendarInv
    BY <1>2, CalendarStarts, Zenon
  <2> QED BY <1>2, <2>1, AppsAre DEF AppsInv
<1>3. CASE app = "inbox-lite" /\ Inbox!Init
  <2>1. InboxInv
    BY <1>3, InboxStarts, Zenon
  <2> QED BY <1>3, <2>1, AppsAre DEF AppsInv
<1>4. CASE app = "sheets-lite" /\ Sheets!Init
  <2>1. SheetsInv
    BY <1>4, SheetsStarts, Zenon
  <2> QED BY <1>4, <2>1, AppsAre DEF AppsInv
<1>5. CASE app = "wiki-lite" /\ Wiki!Init
  <2>1. WikiInv
    BY <1>5, WikiStarts, Zenon
  <2> QED BY <1>5, <2>1, AppsAre DEF AppsInv
<1>6. CASE app = "repo-lite" /\ Repo!Init
  <2>1. RepoInv
    BY <1>6, RepoStarts, Zenon
  <2> QED BY <1>6, <2>1, AppsAre DEF AppsInv
<1>7. CASE app = "shopping-lite" /\ Shopping!Init
  <2>1. ShoppingInv
    BY <1>7, ShoppingStarts, Zenon
  <2> QED BY <1>7, <2>1, AppsAre DEF AppsInv
<1>8. CASE app = "forum-lite" /\ Forum!Init
  <2>1. ForumInv
    BY <1>8, ForumStarts, Zenon
  <2> QED BY <1>8, <2>1, AppsAre DEF AppsInv
<1> QED BY <1>1, <1>2, <1>3, <1>4, <1>5, <1>6, <1>7, <1>8, Zenon DEF Init

(* The verdict a step stores is the one the requests deserve. *)
Judges ==
    /\ result = "none" /\ result' = "passed" => Deserved
    /\ result = "none" /\ result' = "failed" => ~Deserved

(* A step of an application keeps its invariant and judges as the requests *)
(* deserve.                                                                *)
LEMMA AppsStep == ASSUME AppsInv, Next PROVE AppsInv' /\ Judges
<1>0. app' = app
  BY DEF Next
<1>1. CASE app = "notes-lite" /\ Notes!Next
  <2>1. NotesInv
    BY <1>1 DEF AppsInv
  <2>2. /\ NotesInv'
        /\ result = "none" /\ result' = "passed" => Notes!Deserved
        /\ result = "none" /\ result' = "failed" => ~Notes!Deserved
    BY <1>1, <2>1, NotesStep, Zenon
  <2>3. Deserved <=> Notes!Deserved
    BY <1>1, DeservedIs, Zenon
  <2>4. Judges
    BY <2>2, <2>3, Zenon DEF Judges
  <2>5. AppsInv'
    BY <1>0, <1>1, <2>2, AppsAre DEF AppsInv
  <2> QED BY <2>4, <2>5
<1>2. CASE app = "calendar-lite" /\ Calendar!Next
  <2>1. CalendarInv
    BY <1>2 DEF AppsInv
  <2>2. /\ CalendarInv'
        /\ result = "none" /\ result' = "passed" => Calendar!Deserved
        /\ result = "none" /\ result' = "failed" => ~Calendar!Deserved
    BY <1>2, <2>1, CalendarStep, Zenon
  <2>3. Deserved <=> Calendar!Deserved
    BY <1>2, DeservedIs, Zenon
  <2>4. Judges
    BY <2>2, <2>3, Zenon DEF Judges
  <2>5. AppsInv'
    BY <1>0, <1>2, <2>2, AppsAre DEF AppsInv
  <2> QED BY <2>4, <2>5
<1>3. CASE app = "inbox-lite" /\ Inbox!Next
  <2>1. InboxInv
    BY <1>3 DEF AppsInv
  <2>2. /\ InboxInv'
        /\ result = "none" /\ result' = "passed" => Inbox!Deserved
        /\ result = "none" /\ result' = "failed" => ~Inbox!Deserved
    BY <1>3, <2>1, InboxStep, Zenon
  <2>3. Deserved <=> Inbox!Deserved
    BY <1>3, DeservedIs, Zenon
  <2>4. Judges
    BY <2>2, <2>3, Zenon DEF Judges
  <2>5. AppsInv'
    BY <1>0, <1>3, <2>2, AppsAre DEF AppsInv
  <2> QED BY <2>4, <2>5
<1>4. CASE app = "sheets-lite" /\ Sheets!Next
  <2>1. SheetsInv
    BY <1>4 DEF AppsInv
  <2>2. /\ SheetsInv'
        /\ result = "none" /\ result' = "passed" => Sheets!Deserved
        /\ result = "none" /\ result' = "failed" => ~Sheets!Deserved
    BY <1>4, <2>1, SheetsStep, Zenon
  <2>3. Deserved <=> Sheets!Deserved
    BY <1>4, DeservedIs, Zenon
  <2>4. Judges
    BY <2>2, <2>3, Zenon DEF Judges
  <2>5. AppsInv'
    BY <1>0, <1>4, <2>2, AppsAre DEF AppsInv
  <2> QED BY <2>4, <2>5
<1>5. CASE app = "wiki-lite" /\ Wiki!Next
  <2>1. WikiInv
    BY <1>5 DEF AppsInv
  <2>2. /\ WikiInv'
        /\ result = "none" /\ result' = "passed" => Wiki!Deserved
        /\ result = "none" /\ result' = "failed" => ~Wiki!Deserved
    BY <1>5, <2>1, WikiStep, Zenon
  <2>3. Deserved <=> Wiki!Deserved
    BY <1>5, DeservedIs, Zenon
  <2>4. Judges
    BY <2>2, <2>3, Zenon DEF Judges
  <2>5. AppsInv'
    BY <1>0, <1>5, <2>2, AppsAre DEF AppsInv
  <2> QED BY <2>4, <2>5
<1>6. CASE app = "repo-lite" /\ Repo!Next
  <2>1. RepoInv
    BY <1>6 DEF AppsInv
  <2>2. /\ RepoInv'
        /\ result = "none" /\ result' = "passed" => Repo!Deserved
        /\ result = "none" /\ result' = "failed" => ~Repo!Deserved
    BY <1>6, <2>1, RepoStep, Zenon
  <2>3. Deserved <=> Repo!Deserved
    BY <1>6, DeservedIs, Zenon
  <2>4. Judges
    BY <2>2, <2>3, Zenon DEF Judges
  <2>5. AppsInv'
    BY <1>0, <1>6, <2>2, AppsAre DEF AppsInv
  <2> QED BY <2>4, <2>5
<1>7. CASE app = "shopping-lite" /\ Shopping!Next
  <2>1. ShoppingInv
    BY <1>7 DEF AppsInv
  <2>2. /\ ShoppingInv'
        /\ result = "none" /\ result' = "passed" => Shopping!Deserved
        /\ result = "none" /\ result' = "failed" => ~Shopping!Deserved
    BY <1>7, <2>1, ShoppingStep, Zenon
  <2>3. Deserved <=> Shopping!Deserved
    BY <1>7, DeservedIs, Zenon
  <2>4. Judges
    BY <2>2, <2>3, Zenon DEF Judges
  <2>5. AppsInv'
    BY <1>0, <1>7, <2>2, AppsAre DEF AppsInv
  <2> QED BY <2>4, <2>5
<1>8. CASE app = "forum-lite" /\ Forum!Next
  <2>1. ForumInv
    BY <1>8 DEF AppsInv
  <2>2. /\ ForumInv'
        /\ result = "none" /\ result' = "passed" => Forum!Deserved
        /\ result = "none" /\ result' = "failed" => ~Forum!Deserved
    BY <1>8, <2>1, ForumStep, Zenon
  <2>3. Deserved <=> Forum!Deserved
    BY <1>8, DeservedIs, Zenon
  <2>4. Judges
    BY <2>2, <2>3, Zenon DEF Judges
  <2>5. AppsInv'
    BY <1>0, <1>8, <2>2, AppsAre DEF AppsInv
  <2> QED BY <2>4, <2>5
<1> QED BY <1>1, <1>2, <1>3, <1>4, <1>5, <1>6, <1>7, <1>8, Zenon DEF Next

(* A stutter keeps it. *)
LEMMA AppsSame == ASSUME AppsInv, UNCHANGED vars PROVE AppsInv'
<1>0. /\ app' = app /\ UNCHANGED <<task, log, work>>
      /\ Session!TypeOfEnvelope => Session!TypeOfEnvelope'
  BY DEF vars, Session!TypeOfEnvelope
<1>1. CASE app = "notes-lite"
  <2>1. NotesInv
    BY <1>1 DEF AppsInv
  <2>2. Session!TypeOfEnvelope
    BY <2>1 DEF NotesInv
  <2>3. NotesInv'
    BY <1>0, <2>1, <2>2, NotesSame, Zenon
  <2> QED BY <1>0, <1>1, <2>3, AppsAre DEF AppsInv
<1>2. CASE app = "calendar-lite"
  <2>1. CalendarInv
    BY <1>2 DEF AppsInv
  <2>2. Session!TypeOfEnvelope
    BY <2>1 DEF CalendarInv
  <2>3. CalendarInv'
    BY <1>0, <2>1, <2>2, CalendarSame, Zenon
  <2> QED BY <1>0, <1>2, <2>3, AppsAre DEF AppsInv
<1>3. CASE app = "inbox-lite"
  <2>1. InboxInv
    BY <1>3 DEF AppsInv
  <2>2. Session!TypeOfEnvelope
    BY <2>1 DEF InboxInv
  <2>3. InboxInv'
    BY <1>0, <2>1, <2>2, InboxSameButThreads, Zenon
  <2> QED BY <1>0, <1>3, <2>3, AppsAre DEF AppsInv
<1>4. CASE app = "sheets-lite"
  <2>1. SheetsInv
    BY <1>4 DEF AppsInv
  <2>2. Session!TypeOfEnvelope
    BY <2>1 DEF SheetsInv
  <2>3. SheetsInv'
    BY <1>0, <2>1, <2>2, SheetsSame, Zenon
  <2> QED BY <1>0, <1>4, <2>3, AppsAre DEF AppsInv
<1>5. CASE app = "wiki-lite"
  <2>1. WikiInv
    BY <1>5 DEF AppsInv
  <2>2. Session!TypeOfEnvelope
    BY <2>1 DEF WikiInv
  <2>3. WikiInv'
    BY <1>0, <2>1, <2>2, WikiSame, Zenon
  <2> QED BY <1>0, <1>5, <2>3, AppsAre DEF AppsInv
<1>6. CASE app = "repo-lite"
  <2>1. RepoInv
    BY <1>6 DEF AppsInv
  <2>2. Session!TypeOfEnvelope
    BY <2>1 DEF RepoInv
  <2>3. RepoInv'
    BY <1>0, <2>1, <2>2, RepoSame, Zenon
  <2> QED BY <1>0, <1>6, <2>3, AppsAre DEF AppsInv
<1>7. CASE app = "shopping-lite"
  <2>1. ShoppingInv
    BY <1>7 DEF AppsInv
  <2>2. Session!TypeOfEnvelope
    BY <2>1 DEF ShoppingInv
  <2>3. ShoppingInv'
    BY <1>0, <2>1, <2>2, ShoppingSame, Zenon
  <2> QED BY <1>0, <1>7, <2>3, AppsAre DEF AppsInv
<1>8. CASE app = "forum-lite"
  <2>1. ForumInv
    BY <1>8 DEF AppsInv
  <2>2. Session!TypeOfEnvelope
    BY <2>1 DEF ForumInv
  <2>3. ForumInv'
    BY <1>0, <2>1, <2>2, ForumSame, Zenon
  <2> QED BY <1>0, <1>8, <2>3, AppsAre DEF AppsInv
<1> QED BY <1>1, <1>2, <1>3, <1>4, <1>5, <1>6, <1>7, <1>8, AppsAre DEF AppsInv

(* The invariant of an application contains the type of its work. *)
LEMMA AppsTyped == ASSUME AppsInv PROVE TypeOK
<1>1. CASE app = "notes-lite"
  <2>1. NotesInv
    BY <1>1 DEF AppsInv
  <2>2. Notes!TypeOfWork
    BY <2>1 DEF NotesInv
  <2>3. Session!TypeOfEnvelope /\ Len(log) <= Requests[app]
    BY <1>1, <2>1 DEF NotesInv
  <2>4. Notes!TypeOfEnvelope
    BY <2>3 DEF Notes!TypeOfEnvelope, Session!TypeOfEnvelope
  <2> QED BY <1>1, <2>2, <2>3, <2>4, AppsAre DEF TypeOK
<1>2. CASE app = "calendar-lite"
  <2>1. CalendarInv
    BY <1>2 DEF AppsInv
  <2>2. Calendar!TypeOfWork
    BY <2>1, CalendarTyped, Zenon
  <2>3. Session!TypeOfEnvelope /\ Len(log) <= Requests[app]
    BY <1>2, <2>1 DEF CalendarInv
  <2>4. Notes!TypeOfEnvelope
    BY <2>3 DEF Notes!TypeOfEnvelope, Session!TypeOfEnvelope
  <2> QED BY <1>2, <2>2, <2>3, <2>4, AppsAre DEF TypeOK
<1>3. CASE app = "inbox-lite"
  <2>1. InboxInv
    BY <1>3 DEF AppsInv
  <2>2. Inbox!TypeOfWork
    BY <2>1, InboxTyped, Zenon
  <2>3. Session!TypeOfEnvelope /\ Len(log) <= Requests[app]
    BY <1>3, <2>1 DEF InboxInv, InboxMost
  <2>4. Notes!TypeOfEnvelope
    BY <2>3 DEF Notes!TypeOfEnvelope, Session!TypeOfEnvelope
  <2> QED BY <1>3, <2>2, <2>3, <2>4, AppsAre DEF TypeOK
<1>4. CASE app = "sheets-lite"
  <2>1. SheetsInv
    BY <1>4 DEF AppsInv
  <2>2. Sheets!TypeOfWork
    BY <2>1, SheetsTyped, Zenon
  <2>3. Session!TypeOfEnvelope /\ Len(log) <= Requests[app]
    BY <1>4, <2>1 DEF SheetsInv
  <2>4. Notes!TypeOfEnvelope
    BY <2>3 DEF Notes!TypeOfEnvelope, Session!TypeOfEnvelope
  <2> QED BY <1>4, <2>2, <2>3, <2>4, AppsAre DEF TypeOK
<1>5. CASE app = "wiki-lite"
  <2>1. WikiInv
    BY <1>5 DEF AppsInv
  <2>2. Wiki!TypeOfWork
    BY <2>1 DEF WikiInv
  <2>3. Session!TypeOfEnvelope /\ Len(log) <= Requests[app]
    BY <1>5, <2>1 DEF WikiInv
  <2>4. Notes!TypeOfEnvelope
    BY <2>3 DEF Notes!TypeOfEnvelope, Session!TypeOfEnvelope
  <2> QED BY <1>5, <2>2, <2>3, <2>4, AppsAre DEF TypeOK
<1>6. CASE app = "repo-lite"
  <2>1. RepoInv
    BY <1>6 DEF AppsInv
  <2>2. Repo!TypeOfWork
    BY <2>1, RepoTyped, Zenon
  <2>3. Session!TypeOfEnvelope /\ Len(log) <= Requests[app]
    BY <1>6, <2>1 DEF RepoInv
  <2>4. Notes!TypeOfEnvelope
    BY <2>3 DEF Notes!TypeOfEnvelope, Session!TypeOfEnvelope
  <2> QED BY <1>6, <2>2, <2>3, <2>4, AppsAre DEF TypeOK
<1>7. CASE app = "shopping-lite"
  <2>1. ShoppingInv
    BY <1>7 DEF AppsInv
  <2>2. Shopping!TypeOfWork
    BY <2>1, ShoppingTyped, Zenon
  <2>3. Session!TypeOfEnvelope /\ Len(log) <= Requests[app]
    BY <1>7, <2>1 DEF ShoppingInv
  <2>4. Notes!TypeOfEnvelope
    BY <2>3 DEF Notes!TypeOfEnvelope, Session!TypeOfEnvelope
  <2> QED BY <1>7, <2>2, <2>3, <2>4, AppsAre DEF TypeOK
<1>8. CASE app = "forum-lite"
  <2>1. ForumInv
    BY <1>8 DEF AppsInv
  <2>2. Forum!TypeOfWork
    BY <2>1, ForumTyped, Zenon
  <2>3. Session!TypeOfEnvelope /\ Len(log) <= Requests[app]
    BY <1>8, <2>1 DEF ForumInv, ForumMost
  <2>4. Notes!TypeOfEnvelope
    BY <2>3 DEF Notes!TypeOfEnvelope, Session!TypeOfEnvelope
  <2> QED BY <1>8, <2>2, <2>3, <2>4, AppsAre DEF TypeOK
<1> QED BY <1>1, <1>2, <1>3, <1>4, <1>5, <1>6, <1>7, <1>8, AppsAre DEF AppsInv

(* So the invariant of its application holds of every session. *)
LEMMA AppsInvariant == Spec => []AppsInv
<1>1. Init => AppsInv
  BY AppsStarts
<1>2. AppsInv /\ [Next]_vars => AppsInv'
  BY AppsStep, AppsSame
<1> QED BY <1>1, <1>2, PTL DEF Spec

(* Whatever the bounds on the requests, the state of every application and *)
(* the envelope of its session keep their types.                           *)
THEOREM AppsTypeOK == Spec => []TypeOK
<1>1. AppsInv => TypeOK
  BY AppsTyped
<1> QED BY <1>1, AppsInvariant, PTL

(* No session passes that does not deserve it: when the orchestrator       *)
(* stores a pass, the accepted requests had done what the question asks    *)
(* for, whatever copies, edits, actors and recoveries were between them.   *)
THEOREM PassesAreDeserved == Spec => PassIsDeserved
<1>1. AppsInv /\ [Next]_vars => [result = "none" /\ result' = "passed" => Deserved]_vars
  BY AppsStep DEF Judges
<1> QED BY <1>1, AppsInvariant, PTL DEF Spec, PassIsDeserved

(* And no session fails that had done it.                                  *)
THEOREM FailuresAreDeserved == Spec => FailIsDeserved
<1>1. AppsInv /\ [Next]_vars => [result = "none" /\ result' = "failed" => ~Deserved]_vars
  BY AppsStep DEF Judges
<1> QED BY <1>1, AppsInvariant, PTL DEF Spec, FailIsDeserved

=============================================================================
