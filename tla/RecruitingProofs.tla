-------------------------- MODULE RecruitingProofs --------------------------
(***************************************************************************)
(* What Documents and Recruiting keep for any number of documents, files,  *)
(* requests, index jobs and screening jobs in any interleaving: screenings *)
(* settle, the knowledge base is current, the versions that are listed can *)
(* be downloaded and an erasure leaves none of the resumes, but for the    *)
(* faults that the properties name.                                        *)
(***************************************************************************)
EXTENDS Recruiting, SumTheorems, SequenceTheorems, TLAPS

Steps ==
    {"upload", "version", "current", "save", "softDelete", "emit", "candidate", "resume",
     "application", "screen", "decide", "applications", "purge", "files", "document", "erase"}
Fields == {"todo", "kind", "doc", "row", "version", "file", "content", "seen"}

(* The step a request is at, and the order of the steps of each kind.      *)
Step(h) == IF h.todo = <<>> THEN "none" ELSE Head(h.todo)

Uploading == {"document", "apply"}
Leads(kind, s, t) ==
    \/ s = "upload" /\ t = "version" /\ kind \in Uploading
    \/ s = "version" /\ t = "current" /\ kind \in Uploading
    \/ s = "current" /\ t = "emit" /\ kind \in Uploading
    \/ s \in {"save", "softDelete"} /\ t = "emit" /\ kind = "document"
    \/ s = "emit" /\ \/ t = "none" /\ kind = "document"
                     \/ t = "application" /\ kind = "apply"
                     \/ t = "erase" /\ kind = "erase"
    \/ s = "candidate" /\ t = "resume" /\ kind = "apply"
    \/ s = "resume" /\ t = "upload" /\ kind = "apply"
    \/ s = "application" /\ t = "screen" /\ kind = "apply"
    \/ s = "screen" /\ t = "none" /\ kind = "apply"
    \/ s = "decide" /\ t = "none" /\ kind = "decide"
    \/ s = "applications" /\ t \in {"purge", "erase"} /\ kind = "erase"
    \/ s = "purge" /\ t = "files" /\ kind = "erase"
    \/ s = "files" /\ t = "document" /\ kind = "erase"
    \/ s = "document" /\ t = "emit" /\ kind = "erase"
    \/ s = "erase" /\ t = "none" /\ kind = "erase"

Planned(todo, kind) ==
    /\ todo \in Seq(Steps)
    /\ \A i \in 1..Len(todo) :
           Leads(kind, todo[i], IF i = Len(todo) THEN "none" ELSE todo[i + 1])

(* An erasure that has a document still to delete.                         *)
Mentions(todo, s) == \E i \in 1..Len(todo) : todo[i] = s
Deleting(h) == h.kind = "erase" /\ Mentions(h.todo, "document")

LEMMA TailOf ==
    ASSUME NEW s, NEW kind, Planned(s, kind), s # <<>>
    PROVE  /\ Planned(Tail(s), kind)
           /\ Leads(kind, Head(s), IF Tail(s) = <<>> THEN "none" ELSE Head(Tail(s)))
           /\ Head(s) \in Steps
           /\ \A x : Mentions(s, x) <=> Head(s) = x \/ Mentions(Tail(s), x)
<1> DEFINE t == Tail(s)
           n == Len(s)
<1>1. s \in Seq(Steps)
    BY DEF Planned
<1>2. t \in Seq(Steps) /\ n \in Nat \ {0} /\ Len(t) = n - 1 /\ \A i \in 1..(n - 1) : t[i] = s[i + 1]
    BY <1>1, HeadTailProperties, EmptySeq
<1>3. Head(s) = s[1] /\ Head(s) \in Steps
    BY <1>1, <1>2
<1>4. t = <<>> <=> n = 1
    BY <1>2
<1>5. t # <<>> => Head(t) = s[2]
    BY <1>2, <1>4
<1>6. \A i \in 1..n : Leads(kind, s[i], IF i = n THEN "none" ELSE s[i + 1])
    BY DEF Planned
<1> HIDE DEF t, n
<1>7. ASSUME NEW i \in 1..(n - 1)
      PROVE  Leads(kind, t[i], IF i = n - 1 THEN "none" ELSE t[i + 1])
    <2> DEFINE k == i + 1
    <2>1. k \in 1..n /\ t[i] = s[k] /\ (i = n - 1 <=> k = n)
        BY <1>2
    <2>2. i # n - 1 => t[i + 1] = s[k + 1]
        BY <1>2
    <2> HIDE DEF k
    <2>3. Leads(kind, s[k], IF k = n THEN "none" ELSE s[k + 1])
        BY <1>6, <2>1
    <2> QED BY <2>1, <2>2, <2>3
<1>8. Planned(t, kind)
    BY <1>2, <1>7 DEF Planned
<1>9. Leads(kind, Head(s), IF t = <<>> THEN "none" ELSE Head(t))
    BY <1>2, <1>3, <1>4, <1>5, <1>6
<1>10. ASSUME NEW x PROVE Mentions(s, x) <=> Head(s) = x \/ Mentions(t, x)
    <2>1. \A i \in 1..n : i = 1 \/ (i - 1 \in 1..(n - 1) /\ t[i - 1] = s[i])
        <3> SUFFICES ASSUME NEW i \in 1..n, i # 1 PROVE i - 1 \in 1..(n - 1) /\ t[i - 1] = s[i]
            OBVIOUS
        <3>1. i - 1 \in 1..(n - 1) /\ (i - 1) + 1 = i
            BY <1>2
        <3>2. t[i - 1] = s[(i - 1) + 1]
            BY <1>2, <3>1
        <3> QED BY <3>1, <3>2
    <2>2. \A i \in 1..(n - 1) : i + 1 \in 1..n /\ t[i] = s[i + 1]
        BY <1>2
    <2>3. 1 \in 1..n
        BY <1>2
    <2>4. ASSUME Mentions(s, x) PROVE Head(s) = x \/ Mentions(t, x)
        <3>1. PICK i \in 1..n : s[i] = x
            BY <2>4 DEF Mentions, n
        <3> QED BY <1>2, <1>3, <2>1, <3>1 DEF Mentions
    <2>5. ASSUME Head(s) = x \/ Mentions(t, x) PROVE Mentions(s, x)
        <3>1. CASE Head(s) = x
            BY <1>3, <2>3, <3>1 DEF Mentions, n
        <3>2. CASE Mentions(t, x)
            <4>1. PICK i \in 1..(n - 1) : t[i] = x
                BY <1>2, <3>2 DEF Mentions
            <4> QED BY <2>2, <4>1 DEF Mentions, n
        <3> QED BY <2>5, <3>1, <3>2
    <2> QED BY <2>4, <2>5
<1> QED BY <1>3, <1>8, <1>9, <1>10 DEF t

(* The plans that requests start with.                                     *)
LEMMA Tuples ==
    ASSUME NEW S, NEW a \in S, NEW b \in S, NEW c \in S, NEW d \in S, NEW e \in S, NEW f \in S
    PROVE  /\ <<a>> \in Seq(S) /\ Len(<<a>>) = 1 /\ <<a>>[1] = a
           /\ <<a, b>> \in Seq(S) /\ Len(<<a, b>>) = 2 /\ <<a, b>>[1] = a /\ <<a, b>>[2] = b
           /\ <<a, b, c>> \in Seq(S) /\ Len(<<a, b, c>>) = 3
           /\ <<a, b, c>>[1] = a /\ <<a, b, c>>[2] = b /\ <<a, b, c>>[3] = c
           /\ <<a, b, c, d, e, f>> \in Seq(S) /\ Len(<<a, b, c, d, e, f>>) = 6
           /\ <<a, b, c, d, e, f>>[1] = a /\ <<a, b, c, d, e, f>>[2] = b /\ <<a, b, c, d, e, f>>[3] = c
           /\ <<a, b, c, d, e, f>>[4] = d /\ <<a, b, c, d, e, f>>[5] = e /\ <<a, b, c, d, e, f>>[6] = f
OBVIOUS

IsJoined(u, s, m, t, n) ==
    /\ u \in Seq(Steps) /\ Len(u) = m + n
    /\ \A i \in 1..m : u[i] = s[i]
    /\ \A i \in 1..n : u[m + i] = t[i]

LEMMA Joined ==
    ASSUME NEW s \in Seq(Steps), NEW t \in Seq(Steps), NEW u, u = s \o t,
           NEW m, m = Len(s), NEW n, n = Len(t)
    PROVE  IsJoined(u, s, m, t, n)
<1>1. u \in Seq(Steps) /\ Len(u) = m + n /\ m \in Nat /\ n \in Nat
    OBVIOUS
<1>2. \A i \in 1..m : u[i] = s[i]
    BY <1>1
<1>3. \A i \in 1..n : u[m + i] = t[i]
    BY <1>1
<1> QED BY <1>1, <1>2, <1>3 DEF IsJoined

LEMMA FirstOf ==
    ASSUME NEW S, NEW s \in Seq(S), Len(s) \in Nat \ {0}
    PROVE  s # <<>> /\ Head(s) = s[1]
OBVIOUS

LEMMA UploadPlan ==
    LET plan == StoreVersion \o <<"emit">>
    IN  Planned(plan, "document") /\ plan # <<>> /\ Head(plan) = "upload"
<1> DEFINE e == <<"emit">>
           plan == StoreVersion \o e
<1>1. /\ StoreVersion \in Seq(Steps) /\ Len(StoreVersion) = 3
      /\ StoreVersion[1] = "upload" /\ StoreVersion[2] = "version" /\ StoreVersion[3] = "current"
    BY Tuples DEF StoreVersion, Steps
<1>2. e \in Seq(Steps) /\ Len(e) = 1 /\ e[1] = "emit"
    BY Tuples DEF Steps
<1> HIDE DEF e
<1>3. /\ plan \in Seq(Steps) /\ Len(plan) = 3 + 1
      /\ \A i \in 1..3 : plan[i] = StoreVersion[i]
      /\ \A i \in 1..1 : plan[3 + i] = e[i]
    <2>1. IsJoined(plan, StoreVersion, 3, e, 1)
        BY <1>1, <1>2, Joined
    <2> QED BY <2>1 DEF IsJoined
<1> HIDE DEF plan
<1>4. Len(plan) = 4 /\ plan[1] = "upload" /\ plan[2] = "version" /\ plan[3] = "current" /\ plan[4] = "emit"
    BY <1>1, <1>2, <1>3
<1>5. \A i \in 1..4 : i = 1 \/ i = 2 \/ i = 3 \/ i = 4
    OBVIOUS
<1>6. Planned(plan, "document")
    BY <1>3, <1>4, <1>5 DEF Planned, Leads, Uploading
<1>7. plan # <<>> /\ Head(plan) = "upload"
    BY <1>3, <1>4, SMTT(30)
<1> QED BY <1>6, <1>7 DEF plan, e

LEMMA ApplyPlan == Planned(ApplySteps, "apply") /\ ApplySteps # <<>> /\ Head(ApplySteps) = "candidate"
<1> DEFINE a == <<"candidate", "resume">>
           c == <<"emit", "application", "screen">>
           b == a \o StoreVersion
           plan == ApplySteps
<1>1. /\ StoreVersion \in Seq(Steps) /\ Len(StoreVersion) = 3
      /\ StoreVersion[1] = "upload" /\ StoreVersion[2] = "version" /\ StoreVersion[3] = "current"
    BY Tuples DEF StoreVersion, Steps
<1>2. a \in Seq(Steps) /\ Len(a) = 2 /\ a[1] = "candidate" /\ a[2] = "resume"
    BY Tuples DEF Steps
<1>3. c \in Seq(Steps) /\ Len(c) = 3 /\ c[1] = "emit" /\ c[2] = "application" /\ c[3] = "screen"
    BY Tuples DEF Steps
<1>4. plan = b \o c
    BY DEF ApplySteps
<1> HIDE DEF a, c, plan
<1>5. /\ b \in Seq(Steps) /\ Len(b) = 2 + 3
      /\ \A i \in 1..2 : b[i] = a[i]
      /\ \A i \in 1..3 : b[2 + i] = StoreVersion[i]
    <2>1. IsJoined(b, a, 2, StoreVersion, 3)
        BY <1>1, <1>2, Joined
    <2> QED BY <2>1 DEF IsJoined
<1> HIDE DEF b
<1>6. /\ Len(b) = 5
      /\ b[1] = "candidate" /\ b[2] = "resume" /\ b[3] = "upload" /\ b[4] = "version" /\ b[5] = "current"
    BY <1>1, <1>2, <1>5
<1>7. /\ plan \in Seq(Steps) /\ Len(plan) = 5 + 3
      /\ \A i \in 1..5 : plan[i] = b[i]
      /\ \A i \in 1..3 : plan[5 + i] = c[i]
    <2>1. IsJoined(plan, b, 5, c, 3)
        BY <1>3, <1>4, <1>5, <1>6, Joined
    <2> QED BY <2>1 DEF IsJoined
<1>8. /\ Len(plan) = 8
      /\ plan[1] = "candidate" /\ plan[2] = "resume" /\ plan[3] = "upload" /\ plan[4] = "version"
      /\ plan[5] = "current" /\ plan[6] = "emit" /\ plan[7] = "application" /\ plan[8] = "screen"
    BY <1>3, <1>6, <1>7
<1>9. \A i \in 1..8 : i = 1 \/ i = 2 \/ i = 3 \/ i = 4 \/ i = 5 \/ i = 6 \/ i = 7 \/ i = 8
    OBVIOUS
<1>10. Planned(plan, "apply")
    BY <1>7, <1>8, <1>9 DEF Planned, Leads, Uploading
<1>11. Len(plan) \in Nat \ {0}
    BY <1>8
<1>12. plan # <<>> /\ Head(plan) = plan[1]
    BY <1>7, <1>11, FirstOf
<1> QED BY <1>8, <1>10, <1>12 DEF plan

LEMMA ErasePlan ==
    /\ Planned(EraseSteps, "erase") /\ EraseSteps # <<>> /\ Head(EraseSteps) = "applications"
    /\ Mentions(EraseSteps, "document")
<1> DEFINE plan == EraseSteps
<1>1. /\ plan \in Seq(Steps) /\ Len(plan) = 6
      /\ plan[1] = "applications" /\ plan[2] = "purge" /\ plan[3] = "files"
      /\ plan[4] = "document" /\ plan[5] = "emit" /\ plan[6] = "erase"
    BY Tuples DEF EraseSteps, Steps
<1> HIDE DEF plan
<1>2. \A i \in 1..6 : i = 1 \/ i = 2 \/ i = 3 \/ i = 4 \/ i = 5 \/ i = 6
    OBVIOUS
<1>3. Planned(plan, "erase")
    BY <1>1, <1>2 DEF Planned, Leads, Uploading
<1>4. plan # <<>> /\ Head(plan) = "applications" /\ Mentions(plan, "document")
    BY <1>1 DEF Mentions
<1> QED BY <1>3, <1>4 DEF plan

LEMMA PairPlan ==
    ASSUME NEW a \in Steps, NEW b \in Steps, NEW kind, Leads(kind, a, b), Leads(kind, b, "none")
    PROVE  /\ Planned(<<a, b>>, kind) /\ <<a, b>> # <<>> /\ Head(<<a, b>>) = a
           /\ \A x : Mentions(<<a, b>>, x) => x = a \/ x = b
<1> DEFINE plan == <<a, b>>
<1>1. plan \in Seq(Steps) /\ Len(plan) = 2 /\ plan[1] = a /\ plan[2] = b
    BY Tuples
<1> HIDE DEF plan
<1>2. \A i \in 1..2 : i = 1 \/ i = 2
    OBVIOUS
<1>3. Planned(plan, kind)
    BY <1>1, <1>2 DEF Planned
<1>4. plan # <<>> /\ Head(plan) = a
    BY <1>1, FirstOf
<1>5. ASSUME NEW x, Mentions(plan, x) PROVE x = a \/ x = b
    BY <1>1, <1>2, <1>5 DEF Mentions
<1> QED BY <1>3, <1>4, <1>5 DEF plan

LEMMA SinglePlan ==
    ASSUME NEW a \in Steps, NEW kind, Leads(kind, a, "none")
    PROVE  /\ Planned(<<a>>, kind) /\ <<a>> # <<>> /\ Head(<<a>>) = a
           /\ \A x : Mentions(<<a>>, x) => x = a
<1> DEFINE plan == <<a>>
<1>1. plan \in Seq(Steps) /\ Len(plan) = 1 /\ plan[1] = a
    BY Tuples
<1> HIDE DEF plan
<1>2. \A i \in 1..1 : i = 1
    OBVIOUS
<1>3. Planned(plan, kind)
    BY <1>1, <1>2 DEF Planned
<1>4. plan # <<>> /\ Head(plan) = a
    BY <1>1, FirstOf
<1>5. ASSUME NEW x, Mentions(plan, x) PROVE x = a
    BY <1>1, <1>2, <1>5 DEF Mentions
<1> QED BY <1>3, <1>4, <1>5 DEF plan

-----------------------------------------------------------------------------
(* What a request in flight carries, when n files have been uploaded: the  *)
(* document it is about, the row it will write, the file it has uploaded   *)
(* and the number of its version.                                          *)
DocSteps == {"upload", "version", "current", "save", "softDelete", "emit", "application", "screen"}
Handler(h, n) ==
    /\ DOMAIN h = Fields /\ Planned(h.todo, h.kind) /\ (h.todo = <<>> => h = Idle)
    /\ h.content \in {"text", "image"}
    /\ Deleting(h) \/ Step(h) \in DocSteps => h.doc \in Docs
    /\ Step(h) = "save" => h.row \in Document /\ h.row.current <= n
    /\ h.kind = "decide" => h.row \in Application /\ h.row.status \in AppStatus /\ h.row.resume \in Docs
    /\ Step(h) \in {"version", "current"} => h.file \in 1..n
    /\ Step(h) \in {"candidate", "resume"} => h.version = 1
    /\ Step(h) = "upload" => h.version \in 1..(n + 1)
    /\ Step(h) = "version" => h.version \in 1..n

Shelf ==
    /\ docs \in [Docs -> Document] /\ versions \in [Docs -> DocumentVersion]
    /\ chunks \in [Docs -> SUBSET Keys]
    /\ made \in Seq([content : {"text", "image"}, doc : Docs]) /\ Len(made) <= MaxFiles
    /\ files \subseteq 1..Len(made)
    /\ created \subseteq Docs
    /\ \A d \in Docs : docs[d].current <= Len(made)
    /\ \A d \in Docs, n \in Keys : versions[d][n] # 0 => n <= Len(made) /\ versions[d][n] <= Len(made)
Indexing ==
    /\ jobs \in [Jobs -> Nat]
    /\ workers \in [Workers -> [job : Jobs \cup {NoJob}, file : 0..MaxFiles]]
    /\ \A w \in Workers : workers[w].file <= Len(made)
Requests == DOMAIN procs = Procs /\ \A p \in Procs : Handler(procs[p], Len(made))
Entry == [attempt : Int, stalled : Int]
Slot == [running : BOOLEAN, attempt : Int, stalled : Int, file : Nat]
Hiring ==
    /\ opening \in OpeningStatus \cup {"NONE"} /\ candidate \in BOOLEAN
    /\ app \in Application /\ resumes \subseteq Docs
    /\ Applied => app.status \in AppStatus /\ app.resume \in Docs
    /\ queue \in Seq(Entry) /\ screeners \in [Screeners -> Slot]
Settings == scenario \in Scenarios /\ left \in Nat /\ outages \in Nat
Typed == Shelf /\ Indexing /\ Requests /\ Hiring /\ Settings

LEMMA IdleHas ==
    /\ DOMAIN Idle = Fields /\ Idle.todo = <<>> /\ Idle.kind = "none" /\ Idle.content = "text"
    /\ Step(Idle) = "none" /\ ~Deleting(Idle) /\ Planned(Idle.todo, Idle.kind)
<1>1. DOMAIN Idle = Fields /\ Idle.todo = <<>> /\ Idle.kind = "none" /\ Idle.content = "text"
    BY DEF Idle, Fields
<1>2. <<>> \in Seq(Steps) /\ 1..Len(<<>>) = {}
    OBVIOUS
<1> QED BY <1>1, <1>2 DEF Step, Deleting, Planned, Mentions

LEMMA IdleIsFine == ASSUME NEW n PROVE Handler(Idle, n)
    BY IdleHas DEF Handler, DocSteps

(* A request has a step exactly when it has something to do.               *)
LEMMA StepIs ==
    ASSUME NEW h, Planned(h.todo, h.kind)
    PROVE  /\ Step(h) = "none" <=> h.todo = <<>>
           /\ h.todo # <<>> => Step(h) = Head(h.todo) /\ Step(h) \in Steps
           /\ h.todo # <<>> => h.kind \in {"document", "apply", "decide", "erase"}
<1>1. h.todo # <<>> => Head(h.todo) \in Steps
    BY TailOf
<1>2. "none" \notin Steps
    BY DEF Steps
<1>3. h.todo # <<>> => \E t : Leads(h.kind, Head(h.todo), t)
    BY TailOf
<1> QED BY <1>1, <1>2, <1>3 DEF Step, Leads, Uploading

LEMMA PurgeDeletes ==
    ASSUME NEW s, Planned(s, "erase"), s # <<>>, Head(s) \in {"purge", "files", "document"}
    PROVE  Mentions(s, "document")
<1>1. ASSUME NEW t, Planned(t, "erase"), t # <<>>, Head(t) = "document" PROVE Mentions(t, "document")
    BY <1>1, TailOf
<1>2. ASSUME NEW t, Planned(t, "erase"), t # <<>>, Head(t) = "files" PROVE Mentions(t, "document")
    <2>1. Tail(t) # <<>> /\ Head(Tail(t)) = "document" /\ Planned(Tail(t), "erase")
        BY <1>2, TailOf DEF Leads
    <2> QED BY <1>1, <1>2, <2>1, TailOf
<1>3. ASSUME Head(s) = "purge" PROVE Mentions(s, "document")
    <2>1. Tail(s) # <<>> /\ Head(Tail(s)) = "files" /\ Planned(Tail(s), "erase")
        BY <1>3, TailOf DEF Leads
    <2> QED BY <1>2, <2>1, TailOf
<1> QED BY <1>1, <1>2, <1>3

(* A request goes on to its next step, or is over.                         *)
Went(p, k, r, s) ==
    /\ procs' = [procs EXCEPT ![p] = k]
    /\ Step(procs[p]) = s /\ procs[p] # Idle
    /\ DOMAIN k = Fields /\ Planned(k.todo, k.kind)
    /\ Leads(procs[p].kind, s, Step(k))
    /\ \/ k = Idle /\ Step(k) = "none"
       \/ k = r /\ k.todo # <<>> /\ k.kind = procs[p].kind /\ k.kind # "none" /\ Step(k) # "none"
    /\ Deleting(k) => Deleting(procs[p])
    /\ Deleting(procs[p]) /\ s # "document" => Deleting(k)
    /\ s \in {"purge", "files", "document"} => Deleting(procs[p])

LEMMA GoesOn ==
    ASSUME NEW p \in Procs, NEW n, Handler(procs[p], n), NEW s, At(p, s),
           NEW r, DOMAIN r = Fields, r.kind = procs[p].kind, r.todo = Tail(procs[p].todo), Put(p, r)
    PROVE  \E k : Went(p, k, r, s)
<1> DEFINE h == procs[p]
           k == IF r.todo = <<>> THEN Idle ELSE r
<1>1. DOMAIN h = Fields /\ Planned(h.todo, h.kind) /\ h.todo # <<>> /\ Head(h.todo) = s
    BY DEF Handler, At
<1>2. procs' = [procs EXCEPT ![p] = k]
    BY DEF Put
<1>3. h # Idle
    BY <1>1, IdleHas
<1> HIDE DEF h
<1>4. /\ Planned(r.todo, h.kind) /\ Leads(h.kind, s, IF r.todo = <<>> THEN "none" ELSE Head(r.todo))
      /\ \A x : Mentions(h.todo, x) <=> s = x \/ Mentions(r.todo, x)
    <2>1. r.todo = Tail(h.todo)
        BY DEF h
    <2> QED BY <1>1, <2>1, TailOf
<1>5. Step(h) = s
    BY <1>1 DEF Step
<1>6. Step(k) = Step(r) /\ Step(r) = IF r.todo = <<>> THEN "none" ELSE Head(r.todo)
    BY IdleHas DEF Step
<1>7. DOMAIN k = Fields /\ Planned(k.todo, k.kind) /\ r.kind = h.kind
    BY <1>4, IdleHas DEF h
<1>8. \/ k = Idle /\ Step(k) = "none" /\ r.todo = <<>>
      \/ k = r /\ k.todo # <<>> /\ k.kind = h.kind /\ k.kind # "none" /\ Step(k) # "none"
    <2>1. CASE r.todo = <<>>
        BY <2>1, IdleHas
    <2>2. CASE r.todo # <<>>
        BY <1>4, <1>7, <2>2, StepIs
    <2> QED BY <2>1, <2>2
<1>9. Deleting(k) => Deleting(h)
    BY <1>4, <1>7, <1>8, IdleHas DEF Deleting
<1>10. ASSUME Deleting(h), s # "document" PROVE Deleting(k)
    <2>1. Mentions(r.todo, "document") /\ h.kind = "erase"
        BY <1>4, <1>10 DEF Deleting
    <2>2. r.todo # <<>>
        <3>1. 1..Len(<<>>) = {}
            OBVIOUS
        <3> QED BY <2>1, <3>1 DEF Mentions
    <2> QED BY <1>7, <2>1, <2>2 DEF Deleting
<1>11. s \in {"purge", "files", "document"} => Deleting(h)
    <2> SUFFICES ASSUME s \in {"purge", "files", "document"} PROVE Deleting(h)
        OBVIOUS
    <2>1. h.kind = "erase"
        BY <1>4 DEF Leads
    <2> QED BY <1>1, <2>1, PurgeDeletes DEF Deleting
<1> QED BY <1>2, <1>3, <1>4, <1>5, <1>6, <1>7, <1>8, <1>9, <1>10, <1>11 DEF Went, h

LEMMA RestIs ==
    ASSUME NEW p, DOMAIN procs[p] = Fields
    PROVE  LET r == Rest(p) IN
           /\ DOMAIN r = Fields /\ r.todo = Tail(procs[p].todo) /\ r.kind = procs[p].kind
           /\ r.doc = procs[p].doc /\ r.row = procs[p].row /\ r.version = procs[p].version
           /\ r.file = procs[p].file /\ r.content = procs[p].content /\ r.seen = procs[p].seen
    BY DEF Rest, Fields

(* A request that goes on without new values is fine, but for the steps    *)
(* that learn something.                                                   *)
LEMMA GoesOnFine ==
    ASSUME NEW p \in Procs, NEW n \in Nat, Handler(procs[p], n), NEW s, At(p, s),
           s \notin {"upload", "resume"}, Put(p, Rest(p))
    PROVE  \E k : Went(p, k, Rest(p), s) /\ Handler(k, n)
<1>1. DOMAIN procs[p] = Fields
    BY DEF Handler
<1>2. PICK k : Went(p, k, Rest(p), s)
    BY <1>1, RestIs, GoesOn
<1> DEFINE h == procs[p]
           r == Rest(p)
<1>3. /\ r.doc = h.doc /\ r.row = h.row /\ r.version = h.version
      /\ r.file = h.file /\ r.content = h.content /\ r.kind = h.kind
    BY <1>1, RestIs
<1> HIDE DEF h, r
<1>4. /\ DOMAIN k = Fields /\ Planned(k.todo, k.kind) /\ Leads(h.kind, s, Step(k)) /\ Step(h) = s
      /\ \/ k = Idle
         \/ k = r /\ k.todo # <<>> /\ k.kind = h.kind
      /\ Deleting(k) => Deleting(h)
    BY <1>2 DEF Went, h, r
<1>5. CASE k = Idle
    BY <1>2, <1>5, IdleIsFine
<1>6. CASE k = r /\ k.todo # <<>>
    <2>0. Handler(h, n)
        BY DEF h
    <2>1. k.content \in {"text", "image"}
        BY <1>3, <1>6, <2>0 DEF Handler
    <2>2. Deleting(k) \/ Step(k) \in DocSteps => k.doc \in Docs
        <3>1. Step(k) \in DocSteps => s \in DocSteps \/ s = "document"
            BY <1>4 DEF Leads, DocSteps
        <3>2. s = "document" => Deleting(h)
            BY <1>2 DEF Went, h
        <3>3. Deleting(k) \/ Step(k) \in DocSteps => Deleting(h) \/ Step(h) \in DocSteps
            BY <1>4, <3>1, <3>2
        <3> QED BY <1>3, <1>6, <2>0, <3>3 DEF Handler
    <2>3. Step(k) # "save" /\ Step(k) # "upload" /\ Step(k) # "version" /\ Step(k) # "candidate"
        BY <1>4 DEF Leads
    <2>4. k.kind # "decide"
        <3>1. Step(k) # "none"
            BY <1>4, <1>6, StepIs
        <3> QED BY <1>4, <1>6, <3>1, IdleHas DEF Leads, Uploading
    <2>5. Step(k) = "current" => k.file \in 1..n
        BY <1>3, <1>4, <1>6, <2>0 DEF Handler, Leads
    <2>6. Step(k) = "resume" => k.version = 1
        BY <1>3, <1>4, <1>6, <2>0 DEF Handler, Leads
    <2>7. Handler(k, n)
        BY <1>4, <1>6, <2>1, <2>2, <2>3, <2>4, <2>5, <2>6 DEF Handler
    <2> QED BY <1>2, <2>7 DEF r
<1> QED BY <1>2, <1>4, <1>5, <1>6 DEF r

(* A request that has uploaded nothing new stays fine when others upload.  *)
LEMMA StaysFine ==
    ASSUME NEW h, NEW n \in Nat, Handler(h, n), NEW m \in Nat, n <= m
    PROVE  Handler(h, m)
<1>1. h.row \in Document => h.row.current \in 0..MaxFiles
    BY DEF Document
<1>2. MaxFiles \in Nat
    BY DocumentsAssumption
<1>3. Step(h) = "save" => h.row \in Document /\ h.row.current <= m
    BY <1>1, <1>2 DEF Handler
<1>4. /\ Step(h) \in {"version", "current"} => h.file \in 1..m
      /\ Step(h) = "upload" => h.version \in 1..(m + 1)
      /\ Step(h) = "version" => h.version \in 1..m
    BY DEF Handler
<1> QED BY <1>3, <1>4 DEF Handler

LEMMA RequestsStay ==
    ASSUME Requests, Len(made) \in Nat, Len(made') \in Nat, Len(made) <= Len(made'),
           NEW p \in Procs, NEW k, procs' = [procs EXCEPT ![p] = k], Handler(k, Len(made'))
    PROVE  Requests'
<1>1. DOMAIN procs' = Procs
    BY DEF Requests
<1>2. ASSUME NEW q \in Procs PROVE Handler(procs'[q], Len(made'))
    <2>1. CASE q = p
        BY <2>1 DEF Requests
    <2>2. CASE q # p
        <3>1. procs'[q] = procs[q] /\ Handler(procs[q], Len(made))
            BY <2>2 DEF Requests
        <3> QED BY <3>1, StaysFine
    <2> QED BY <2>1, <2>2
<1> QED BY <1>1, <1>2 DEF Requests

-----------------------------------------------------------------------------
(* A request starts, in the order of its plan, beside the others in flight.*)
Started(p, k, kind) ==
    /\ p \in Procs /\ procs[p] = Idle /\ procs' = [procs EXCEPT ![p] = k]
    /\ k.kind = kind /\ k.todo # <<>> /\ Handler(k, Len(made))
    /\ faults \subseteq faults'
    /\ \A q \in Procs : procs[q] # Idle => {kind, procs[q].kind} \in faults'

LEMMA Starts ==
    ASSUME NEW p \in Procs, NEW op, NEW kind, MayStart(p, op, kind),
           NEW k, k.kind = kind, k.todo # <<>>, Handler(k, Len(made)), Put(p, k)
    PROVE  Started(p, k, kind)
    BY DEF Started, MayStart, Put

LEMMA Beginning ==
    ASSUME NEW kind, NEW todo
    PROVE  LET k == Begin(kind, todo) IN
           /\ DOMAIN k = Fields /\ k.kind = kind /\ k.todo = todo /\ k.content = "text" /\ k.doc = Nobody
    BY DEF Begin, Idle, Fields

(* The next version number is at most one above the number of uploads.     *)
LEMMA NextVersionFits ==
    ASSUME Shelf, NEW d \in Docs
    PROVE  NextVersion(d) \in 1..(Len(made) + 1)
<1> DEFINE n == Len(made)
           T == Numbers(d)
<1>1. n \in Nat /\ T \subseteq 0..n
    <2>1. n \in Nat
        BY DEF Shelf
    <2>2. \A i \in T : i \in Keys /\ i <= n
        BY DEF Numbers, Shelf
    <2>3. MaxFiles \in Nat
        BY DocumentsAssumption
    <2>4. \A i \in Keys : i \in Nat
        BY <2>3 DEF Keys
    <2> HIDE DEF n, T
    <2> QED BY <2>1, <2>2, <2>4
<1>2. CASE T = {}
    BY <1>1, <1>2 DEF NextVersion
<1>3. CASE T # {}
    <2> DEFINE g == CHOOSE i \in T : \A m \in T : m <= i
    <2>1. g \in T
        <3> HIDE DEF T, n
        <3>1. \E i \in T : \A m \in T : m <= i
            BY <1>1, <1>3, GreatestNumber
        <3> QED BY <3>1
    <2>2. NextVersion(d) = 1 + g
        BY <1>3 DEF NextVersion
    <2> HIDE DEF g, T, n
    <2>3. g \in 0..n
        BY <1>1, <2>1
    <2>4. 1 + g \in 1..(n + 1)
        BY <1>1, <2>3
    <2> QED BY <2>2, <2>4 DEF n
<1> QED BY <1>2, <1>3

(* What each request starts with.                                          *)
NewUpload(d, v, c) ==
    [Begin("document", StoreVersion \o <<"emit">>) EXCEPT !.doc = d, !.version = v, !.content = c]
LEMMA UploadStarts ==
    ASSUME NEW n \in Nat, NEW d \in Docs, NEW v \in 1..(n + 1), NEW c \in {"text", "image"},
           NEW k, k = NewUpload(d, v, c)
    PROVE  /\ Handler(k, n) /\ k.kind = "document" /\ k.todo # <<>> /\ Step(k) = "upload"
           /\ k.doc = d /\ k.version = v
<1> DEFINE plan == StoreVersion \o <<"emit">>
<1>1. Planned(plan, "document") /\ plan # <<>> /\ Head(plan) = "upload"
    BY UploadPlan
<1> DEFINE b == Begin("document", plan)
<1>0. k = [b EXCEPT !.doc = d, !.version = v, !.content = c]
    BY DEF NewUpload
<1> HIDE DEF plan
<1>b. DOMAIN b = Fields /\ b.todo = plan /\ b.kind = "document"
    BY Beginning
<1> HIDE DEF b
<1>2. /\ DOMAIN k = Fields /\ k.todo = plan /\ k.kind = "document" /\ k.doc = d
      /\ k.version = v /\ k.content = c
    BY <1>0, <1>b DEF Fields
<1>3. Step(k) = "upload" /\ ~Deleting(k)
    BY <1>1, <1>2 DEF Step, Deleting
<1> QED BY <1>1, <1>2, <1>3 DEF Handler, DocSteps

LEMMA CreateStarts ==
    ASSUME Shelf, NEW p \in Procs, NEW d \in Docs, Create(p, d)
    PROVE  \E k : Started(p, k, "document") /\ Step(k) = "upload" /\ k.doc = d /\ k.version = 1
<1> DEFINE n == Len(made)
<1>1. n \in Nat
    BY DEF Shelf
<1>2. PICK c : /\ ValidateUpload(c)
               /\ Put(p, NewUpload(d, 1, c))
    BY DEF Create, NewUpload
<1> DEFINE k == NewUpload(d, 1, c)
<1>3. c \in {"text", "image"} /\ 1 \in 1..(n + 1)
    BY <1>1, <1>2 DEF ValidateUpload
<1>4. Put(p, k) /\ MayStart(p, "document", "document")
    BY <1>2 DEF Create
<1>5. Handler(k, n) /\ k.kind = "document" /\ k.todo # <<>> /\ Step(k) = "upload" /\ k.doc = d /\ k.version = 1
    <2> HIDE DEF n
    <2> QED BY <1>1, <1>3, UploadStarts
<1> HIDE DEF k
<1> QED BY <1>4, <1>5, Starts

LEMMA AddVersionStarts ==
    ASSUME Shelf, NEW p \in Procs, NEW d \in Docs, AddVersion(p, d)
    PROVE  \E k : Started(p, k, "document") /\ Step(k) = "upload" /\ k.doc = d /\ k.version = NextVersion(d)
<1> DEFINE n == Len(made)
           v == NextVersion(d)
<1>1. n \in Nat /\ v \in 1..(n + 1)
    BY NextVersionFits DEF Shelf
<1> HIDE DEF v
<1>2. PICK c : /\ ValidateUpload(c)
               /\ Put(p, NewUpload(d, v, c))
    BY DEF AddVersion, v, NewUpload
<1> DEFINE k == NewUpload(d, v, c)
<1>3. c \in {"text", "image"}
    BY <1>1, <1>2 DEF ValidateUpload
<1>4. Put(p, k) /\ MayStart(p, "document", "document")
    BY <1>2 DEF AddVersion
<1>5. Handler(k, n) /\ k.kind = "document" /\ k.todo # <<>> /\ Step(k) = "upload" /\ k.doc = d /\ k.version = v
    <2> HIDE DEF n
    <2> QED BY <1>1, <1>3, UploadStarts
<1> HIDE DEF k
<1> QED BY <1>4, <1>5, Starts DEF v

LEMMA UpdateStarts ==
    ASSUME Shelf, scenario \in Scenarios, NEW p \in Procs, NEW d \in Docs, Update(p, d)
    PROVE  \E k : /\ Started(p, k, "document") /\ Step(k) = "save" /\ k.doc = d
                  /\ k.row.current = docs[d].current /\ k.seen = Numbers(d)
<1> DEFINE n == Len(made)
<1>1. PICK cat \in scenario.categories \cup {docs[d].category},
           vis \in scenario.visibilities \cup {docs[d].visibility} :
          Put(p, [Begin("document", <<"save", "emit">>) EXCEPT !.doc = d, !.seen = Numbers(d),
                   !.row = [docs[d] EXCEPT !.category = cat, !.visibility = vis, !.indexed = FALSE]])
    BY DEF Update
<1> DEFINE row == [docs[d] EXCEPT !.category = cat, !.visibility = vis, !.indexed = FALSE]
           k == [Begin("document", <<"save", "emit">>) EXCEPT !.doc = d, !.seen = Numbers(d), !.row = row]
<1>2. docs[d] \in Document /\ docs[d].current <= n
    BY DEF Shelf
<1>3. cat \in Categories \cup {"NONE"} /\ vis \in Visibilities
    BY <1>2, ScenariosAssumption DEF Document
<1>4. row \in Document /\ row.current = docs[d].current
    BY <1>2, <1>3 DEF Document
<1>5. Put(p, k) /\ MayStart(p, "document", "document")
    BY <1>1 DEF Update
<1> HIDE DEF row
<1> DEFINE plan == <<"save", "emit">>
<1>6. Planned(plan, "document") /\ plan # <<>> /\ Head(plan) = "save"
    BY PairPlan DEF Leads, Steps
<1> HIDE DEF plan
<1>7. /\ DOMAIN k = Fields /\ k.todo = plan /\ k.kind = "document" /\ k.doc = d
      /\ k.seen = Numbers(d) /\ k.row = row /\ k.content = "text"
    BY Beginning DEF Fields, plan
<1> HIDE DEF k
<1>8. Step(k) = "save" /\ ~Deleting(k)
    BY <1>6, <1>7 DEF Step, Deleting
<1>9. Handler(k, n)
    BY <1>2, <1>4, <1>6, <1>7, <1>8 DEF Handler, DocSteps
<1>10. Started(p, k, "document")
    BY <1>5, <1>6, <1>7, <1>9, Starts
<1> QED BY <1>4, <1>7, <1>8, <1>10

LEMMA RemoveStarts ==
    ASSUME Shelf, NEW p \in Procs, NEW d \in Docs, Remove(p, d)
    PROVE  \E k : Started(p, k, "document") /\ Step(k) = "softDelete" /\ k.doc = d
<1> DEFINE plan == <<"softDelete", "emit">>
           k == [Begin("document", plan) EXCEPT !.doc = d]
<1>1. Put(p, k) /\ MayStart(p, "document", "document")
    BY DEF Remove
<1>2. Planned(plan, "document") /\ plan # <<>> /\ Head(plan) = "softDelete"
    BY PairPlan DEF Leads, Steps
<1> HIDE DEF plan
<1>3. DOMAIN k = Fields /\ k.todo = plan /\ k.kind = "document" /\ k.doc = d /\ k.content = "text"
    BY Beginning DEF Fields
<1> HIDE DEF k
<1>4. Step(k) = "softDelete" /\ ~Deleting(k)
    BY <1>2, <1>3 DEF Step, Deleting
<1>5. Handler(k, Len(made))
    BY <1>2, <1>3, <1>4 DEF Handler, DocSteps
<1> QED BY <1>1, <1>2, <1>3, <1>4, <1>5, Starts

LEMMA ApplyStarts ==
    ASSUME Shelf, NEW p \in Procs, Apply(p)
    PROVE  \E k : Started(p, k, "apply") /\ Step(k) = "candidate"
<1>1. PICK c : ValidateUpload(c) /\ Put(p, [Begin("apply", ApplySteps) EXCEPT !.version = 1, !.content = c])
    BY DEF Apply
<1> DEFINE k == [Begin("apply", ApplySteps) EXCEPT !.version = 1, !.content = c]
<1>2. Put(p, k) /\ MayStart(p, "apply", "apply") /\ c \in {"text", "image"}
    BY <1>1 DEF Apply, ValidateUpload
<1>3. DOMAIN k = Fields /\ k.todo = ApplySteps /\ k.kind = "apply" /\ k.version = 1 /\ k.content = c
    BY Beginning DEF Fields
<1> HIDE DEF k
<1>4. Step(k) = "candidate" /\ ~Deleting(k) /\ k.todo # <<>>
    BY <1>3, ApplyPlan DEF Step, Deleting
<1>5. Handler(k, Len(made))
    BY <1>2, <1>3, <1>4, ApplyPlan DEF Handler, DocSteps
<1> QED BY <1>2, <1>3, <1>4, <1>5, Starts

LEMMA UpdateStatusStarts ==
    ASSUME Shelf, Hiring, NEW p \in Procs, UpdateStatus(p)
    PROVE  \E k : /\ Started(p, k, "decide") /\ Step(k) = "decide"
                  /\ k.row.screening = app.screening /\ k.row.scored = app.scored
                  /\ k.row.resume = app.resume
<1>1. PICK st \in AppStatus :
          Put(p, [Begin("decide", <<"decide">>) EXCEPT !.row = [app EXCEPT !.status = st, !.old = FALSE]])
    BY DEF UpdateStatus
<1> DEFINE row == [app EXCEPT !.status = st, !.old = FALSE]
           plan == <<"decide">>
           k == [Begin("decide", plan) EXCEPT !.row = row]
<1>2. Put(p, k) /\ MayStart(p, "decide", "decide")
    BY <1>1 DEF UpdateStatus
<1>3. app \in Application /\ app.resume \in Docs
    BY DEF UpdateStatus, Hiring
<1>4. /\ row \in Application /\ row.status \in AppStatus /\ row.resume = app.resume
      /\ row.screening = app.screening /\ row.scored = app.scored
    BY <1>3 DEF Application
<1>5. Planned(plan, "decide") /\ plan # <<>> /\ Head(plan) = "decide"
    BY SinglePlan DEF Leads, Steps
<1> HIDE DEF plan, row
<1>6. DOMAIN k = Fields /\ k.todo = plan /\ k.kind = "decide" /\ k.row = row /\ k.content = "text"
    BY Beginning DEF Fields
<1> HIDE DEF k
<1>7. Step(k) = "decide" /\ ~Deleting(k)
    BY <1>5, <1>6 DEF Step, Deleting
<1>8. Handler(k, Len(made))
    BY <1>3, <1>4, <1>5, <1>6, <1>7 DEF Handler, DocSteps
<1>9. Started(p, k, "decide")
    BY <1>2, <1>5, <1>6, <1>8, Starts
<1> QED BY <1>4, <1>6, <1>7, <1>9

LEMMA EraseStarts ==
    ASSUME Shelf, Hiring, NEW p \in Procs, EraseCandidate(p) \/ Retention(p)
    PROVE  \E k : /\ Started(p, k, "erase") /\ Step(k) = "applications" /\ k.doc = app.resume
                  /\ Deleting(k) <=> Applied
<1> DEFINE short == <<"applications", "erase">>
           plan == IF Applied THEN EraseSteps ELSE short
           k == [Begin("erase", plan) EXCEPT !.doc = app.resume]
<1>1. Put(p, k) /\ (MayStart(p, "erase", "erase") \/ MayStart(p, "retention", "erase"))
    BY DEF EraseCandidate, Retention, StartErase
<1>2. /\ Planned(short, "erase") /\ short # <<>> /\ Head(short) = "applications"
      /\ \A x : Mentions(short, x) => x = "applications" \/ x = "erase"
    BY PairPlan DEF Leads, Steps
<1> HIDE DEF short
<1>3. /\ Planned(plan, "erase") /\ plan # <<>> /\ Head(plan) = "applications"
      /\ Mentions(plan, "document") <=> Applied
    <2>1. CASE Applied
        BY <2>1, ErasePlan
    <2>2. CASE ~Applied
        BY <1>2, <2>2
    <2> QED BY <2>1, <2>2
<1> HIDE DEF plan
<1>4. DOMAIN k = Fields /\ k.todo = plan /\ k.kind = "erase" /\ k.doc = app.resume /\ k.content = "text"
    BY Beginning DEF Fields
<1> HIDE DEF k
<1>5. Step(k) = "applications" /\ (Deleting(k) <=> Applied)
    BY <1>3, <1>4 DEF Step, Deleting
<1>6. Handler(k, Len(made))
    BY <1>3, <1>4, <1>5 DEF Handler, DocSteps, Hiring
<1>7. Started(p, k, "erase")
    BY <1>1, <1>3, <1>4, <1>6, Starts
<1> QED BY <1>4, <1>5, <1>7

-----------------------------------------------------------------------------
(* Types, one lemma per action where it writes something.                  *)
LEMMA BlankRow ==
    /\ NoDoc \in Document /\ NoDoc.current = 0
    /\ NoApp \in Application /\ NoApp.status = "NONE"
<1>1. MaxFiles \in Nat
    BY DocumentsAssumption
<1> QED BY <1>1 DEF NoDoc, Document, Categories, Visibilities, NoApp, Application

LEMMA TypedInit == Init => Typed
<1> SUFFICES ASSUME Init PROVE Typed
    OBVIOUS
<1>1. MaxFiles \in Nat
    BY DocumentsAssumption
<1>2. made = <<>> /\ Len(made) = 0 /\ made \in Seq([content : {"text", "image"}, doc : Docs])
    BY DEF Init, DocumentsInit
<1>3. Shelf
    BY <1>1, <1>2, BlankRow DEF Init, DocumentsInit, Shelf, DocumentVersion, Keys
<1>4. Indexing
    BY <1>1, <1>2 DEF Init, DocumentsInit, Indexing, Idling
<1>5. Requests
    BY IdleIsFine DEF Init, DocumentsInit, Requests
<1>6. Hiring
    <2>1. queue \in Seq(Entry)
        BY DEF Init
    <2>2. app = NoApp /\ ~Applied /\ app \in Application
        BY BlankRow DEF Init, Applied
    <2>3. screeners \in [Screeners -> Slot]
        BY DEF Init, NoScreening, Slot
    <2>4. opening \in OpeningStatus \cup {"NONE"} /\ candidate \in BOOLEAN /\ resumes \subseteq Docs
        BY DEF Init, OpeningStatus
    <2> QED BY <2>1, <2>2, <2>3, <2>4 DEF Hiring
<1>7. Settings
    BY ScenariosAssumption DEF Init, DocumentsInit, Settings
<1> QED BY <1>3, <1>4, <1>5, <1>6, <1>7 DEF Typed

(* Nothing is uploaded and p starts, goes on or is over.                   *)
LEMMA RequestsStarted ==
    ASSUME Typed, made' = made, NEW p, NEW k, NEW kind, Started(p, k, kind)
    PROVE  Requests'
<1>1. Len(made) \in Nat /\ Len(made') \in Nat /\ Len(made) <= Len(made') /\ Requests
    BY DEF Typed, Shelf
<1>2. Handler(k, Len(made')) /\ p \in Procs /\ procs' = [procs EXCEPT ![p] = k]
    BY DEF Started
<1> QED BY <1>1, <1>2, RequestsStay

LEMMA RequestsGoOn ==
    ASSUME Typed, made' = made, NEW p \in Procs, NEW s, At(p, s), s \notin {"upload", "resume"},
           Put(p, Rest(p)) \/ Abort(p)
    PROVE  Requests'
<1>1. Len(made) \in Nat /\ Len(made') \in Nat /\ Len(made) <= Len(made') /\ Requests /\ Len(made') = Len(made)
    BY DEF Typed, Shelf
<1>2. CASE Put(p, Rest(p))
    <2>1. PICK k : Went(p, k, Rest(p), s) /\ Handler(k, Len(made))
        BY <1>1, <1>2, GoesOnFine DEF Requests
    <2>2. procs' = [procs EXCEPT ![p] = k] /\ Handler(k, Len(made'))
        BY <1>1, <2>1 DEF Went
    <2> QED BY <1>1, <2>2, RequestsStay
<1>3. CASE Abort(p)
    <2>1. procs' = [procs EXCEPT ![p] = Idle] /\ Handler(Idle, Len(made'))
        BY <1>3, IdleIsFine DEF Abort
    <2> QED BY <1>1, <2>1, RequestsStay
<1> QED BY <1>2, <1>3

LEMMA RequestsEnd ==
    ASSUME Typed, made' = made, NEW p \in Procs, Abort(p)
    PROVE  Requests'
<1>1. Len(made) \in Nat /\ Len(made') \in Nat /\ Len(made) <= Len(made') /\ Requests /\ Len(made') = Len(made)
    BY DEF Typed, Shelf
<1>2. procs' = [procs EXCEPT ![p] = Idle] /\ Handler(Idle, Len(made'))
    BY IdleIsFine DEF Abort
<1> QED BY <1>1, <1>2, RequestsStay

LEMMA SameShelf == ASSUME Shelf, UNCHANGED library PROVE Shelf'
    BY DEF Shelf, library
LEMMA SameIndexing == ASSUME Indexing, UNCHANGED <<made, jobs, workers>> PROVE Indexing'
    BY DEF Indexing
LEMMA SameRequests == ASSUME Requests, UNCHANGED <<made, procs>> PROVE Requests'
    BY DEF Requests
LEMMA SameHiring == ASSUME Hiring, UNCHANGED <<recruiting, screening>> PROVE Hiring'
    BY DEF Hiring, recruiting, screening, Applied

LEMMA TypedStart ==
    ASSUME Typed, NEW p, NEW op, NEW kind, MayStart(p, op, kind), NEW k, Started(p, k, kind),
           UNCHANGED <<library, indexing, scenario, recruiting, screening>>
    PROVE  Typed'
<1>1. made' = made /\ jobs' = jobs /\ workers' = workers /\ outages' = outages /\ scenario' = scenario
    BY DEF library, indexing
<1>2. Shelf' /\ Indexing' /\ Hiring'
    BY <1>1, SameShelf, SameIndexing, SameHiring DEF Typed
<1>3. Requests'
    BY <1>1, RequestsStarted
<1>4. Settings'
    BY <1>1 DEF Typed, Settings, MayStart
<1> QED BY <1>2, <1>3, <1>4 DEF Typed

LEMMA TypedCreate ==
    ASSUME Typed, NEW p \in Procs, NEW d \in Docs, Create(p, d), UNCHANGED <<recruiting, screening>>
    PROVE  Typed'
<1>1. /\ made' = made /\ jobs' = jobs /\ workers' = workers /\ outages' = outages /\ scenario' = scenario
      /\ UNCHANGED <<versions, files, chunks>> /\ left' = left - 1 /\ left > 0
    BY DEF Create, indexing, MayStart
<1>2. Shelf /\ Indexing /\ Hiring /\ Settings
    BY DEF Typed
<1>3. PICK cat \in scenario.categories, vis \in scenario.visibilities,
           owner \in scenario.owners, actor \in scenario.owners \cup {Nobody} :
        docs' = [docs EXCEPT ![d] = [NoDoc EXCEPT !.owner = owner, !.category = cat,
                                                  !.visibility = vis, !.uploader = actor]]
    BY DEF Create
<1> DEFINE row == [NoDoc EXCEPT !.owner = owner, !.category = cat, !.visibility = vis, !.uploader = actor]
<1>4. row \in Document /\ row.current = 0
    <2>1. /\ cat \in Categories /\ vis \in Visibilities /\ owner \in Employees \cup {Nobody}
          /\ actor \in Employees \cup {Nobody}
        BY <1>2, ScenariosAssumption DEF Settings
    <2> QED BY <2>1, BlankRow DEF Document
<1> HIDE DEF row
<1>5. docs' = [docs EXCEPT ![d] = row] /\ created' = created \cup {d}
    BY <1>3 DEF row, Create
<1>6. docs' \in [Docs -> Document] /\ \A x \in Docs : docs'[x].current <= Len(made)
    BY <1>2, <1>4, <1>5 DEF Shelf
<1>7. Shelf'
    BY <1>1, <1>2, <1>5, <1>6 DEF Shelf
<1>8. Requests'
    <2>1. PICK k : Started(p, k, "document")
        BY <1>2, CreateStarts
    <2> QED BY <1>1, <2>1, RequestsStarted
<1>9. Indexing' /\ Hiring'
    BY <1>1, <1>2, SameIndexing, SameHiring
<1>10. Settings'
    BY <1>1, <1>2 DEF Settings
<1> QED BY <1>7, <1>8, <1>9, <1>10 DEF Typed

(* The steps that learn something: the key of the file, the new document,  *)
(* the files to delete.                                                    *)
LEMMA Uploads ==
    ASSUME NEW p \in Procs, NEW n \in Nat, Handler(procs[p], n), At(p, "upload"),
           Put(p, [Rest(p) EXCEPT !.file = n + 1])
    PROVE  \E k : /\ procs' = [procs EXCEPT ![p] = k] /\ Handler(k, n + 1)
                  /\ Step(k) = "version" /\ k.kind = procs[p].kind /\ k.file = n + 1
                  /\ k.doc = procs[p].doc /\ k.content = procs[p].content /\ k.doc \in Docs
                  /\ k.version = procs[p].version
                  /\ k.kind \in Uploading
<1> DEFINE h == procs[p]
           r == [Rest(p) EXCEPT !.file = n + 1]
<1>1. DOMAIN h = Fields /\ h.content \in {"text", "image"}
    BY DEF Handler
<1>2. /\ DOMAIN r = Fields /\ r.todo = Tail(h.todo) /\ r.kind = h.kind /\ r.doc = h.doc
      /\ r.version = h.version /\ r.file = n + 1 /\ r.content = h.content
    BY <1>1, RestIs DEF Fields
<1>3. Handler(h, n)
    OBVIOUS
<1> HIDE DEF r
<1>4. PICK k : Went(p, k, r, "upload")
    <2>1. Put(p, r)
        BY DEF r
    <2> QED BY <1>2, <2>1, GoesOn
<1> HIDE DEF h
<1>a. procs' = [procs EXCEPT ![p] = k]
    BY <1>4 DEF Went
<1>5. /\ Step(h) = "upload" /\ Planned(k.todo, k.kind)
      /\ Leads(h.kind, "upload", Step(k)) /\ (Deleting(k) => Deleting(h))
      /\ ((k = Idle /\ Step(k) = "none") \/ (k = r /\ k.todo # <<>>))
    BY <1>4 DEF Went, h
<1>6. Step(k) = "version" /\ k = r /\ k.todo # <<>> /\ h.kind \in Uploading
    BY <1>5 DEF Leads
<1>7. h.doc \in Docs /\ h.version \in 1..(n + 1) /\ n + 1 \in 1..(n + 1) /\ h.kind # "decide"
    BY <1>3, <1>5, <1>6 DEF Handler, DocSteps, Uploading
<1>8. Handler(k, n + 1)
    BY <1>1, <1>2, <1>5, <1>6, <1>7 DEF Handler, DocSteps
<1> QED BY <1>2, <1>a, <1>6, <1>7, <1>8 DEF h

LEMMA Resumes ==
    ASSUME NEW p \in Procs, NEW n \in Nat, Handler(procs[p], n), At(p, "resume"), NEW d \in Docs,
           Put(p, [Rest(p) EXCEPT !.doc = d])
    PROVE  \E k : /\ procs' = [procs EXCEPT ![p] = k] /\ Handler(k, n)
                  /\ Step(k) = "upload" /\ procs[p].kind = "apply" /\ k.kind = "apply" /\ k.doc = d
                  /\ k.version = 1
<1> DEFINE h == procs[p]
           r == [Rest(p) EXCEPT !.doc = d]
<1>1. DOMAIN h = Fields /\ h.content \in {"text", "image"}
    BY DEF Handler
<1>2. /\ DOMAIN r = Fields /\ r.todo = Tail(h.todo) /\ r.kind = h.kind /\ r.doc = d
      /\ r.version = h.version /\ r.content = h.content
    BY <1>1, RestIs DEF Fields
<1>3. Handler(h, n)
    OBVIOUS
<1> HIDE DEF r
<1>4. PICK k : Went(p, k, r, "resume")
    <2>1. Put(p, r)
        BY DEF r
    <2> QED BY <1>2, <2>1, GoesOn
<1> HIDE DEF h
<1>a. procs' = [procs EXCEPT ![p] = k]
    BY <1>4 DEF Went
<1>5. /\ Step(h) = "resume" /\ Planned(k.todo, k.kind)
      /\ Leads(h.kind, "resume", Step(k)) /\ (Deleting(k) => Deleting(h))
      /\ ((k = Idle /\ Step(k) = "none") \/ (k = r /\ k.todo # <<>>))
    BY <1>4 DEF Went, h
<1>6. Step(k) = "upload" /\ k = r /\ k.todo # <<>> /\ h.kind = "apply"
    BY <1>5 DEF Leads
<1>7. h.version = 1 /\ 1 \in 1..(n + 1)
    BY <1>3, <1>5 DEF Handler
<1>8. Handler(k, n)
    BY <1>1, <1>2, <1>5, <1>6, <1>7 DEF Handler, DocSteps
<1> QED BY <1>2, <1>a, <1>6, <1>7, <1>8 DEF h

Listing(d) == {versions[d][i] : i \in Numbers(d)}
LEMMA Purges ==
    ASSUME NEW p \in Procs, NEW n \in Nat, Handler(procs[p], n), Purge(p)
    PROVE  \E k : /\ procs' = [procs EXCEPT ![p] = k] /\ Handler(k, n)
                  /\ procs[p].kind = "erase" /\ k.kind = "erase" /\ k.doc = procs[p].doc
                  /\ procs[p].doc \in Docs /\ Step(procs[p]) = "purge" /\ Deleting(procs[p])
                  /\ IF Exists(procs[p].doc)
                     THEN /\ Step(k) = "files" /\ Deleting(k)
                          /\ k.seen = Listing(k.doc)
                     ELSE Step(k) = "erase" /\ ~Deleting(k)
<1> DEFINE h == procs[p]
           d == h.doc
           S == {versions[d][i] : i \in Numbers(d)}
           r == [Rest(p) EXCEPT !.seen = S]
           e == [h EXCEPT !.todo = <<"erase">>]
<1>1. /\ Handler(h, n) /\ DOMAIN h = Fields /\ h.content \in {"text", "image"}
      /\ Planned(h.todo, h.kind) /\ h.todo # <<>> /\ Head(h.todo) = "purge"
    BY DEF Handler, Purge, At
<1>2. Step(h) = "purge" /\ h.kind = "erase" /\ Deleting(h) /\ d \in Docs
    <2> HIDE DEF h
    <2>1. h.kind = "erase"
        BY <1>1, TailOf DEF Leads
    <2>2. Deleting(h)
        BY <1>1, <2>1, PurgeDeletes DEF Deleting
    <2> QED BY <1>1, <2>1, <2>2 DEF Step, Handler
<1>3. CASE Exists(d)
    <2>1. Put(p, r) /\ At(p, "purge")
        BY <1>3 DEF Purge
    <2>2. /\ DOMAIN r = Fields /\ r.todo = Tail(h.todo) /\ r.kind = h.kind /\ r.doc = d
          /\ r.content = h.content /\ r.seen = S
        <3> HIDE DEF S
        <3> QED BY <1>1, RestIs DEF Fields
    <2> HIDE DEF r, S
    <2>3. PICK k : Went(p, k, r, "purge")
        BY <2>1, <2>2, GoesOn
    <2> HIDE DEF h, d
    <2>a. procs' = [procs EXCEPT ![p] = k]
        BY <2>3 DEF Went
    <2>4. /\ Planned(k.todo, k.kind)
          /\ Leads(h.kind, "purge", Step(k)) /\ Deleting(k)
          /\ ((k = Idle /\ Step(k) = "none") \/ (k = r /\ k.todo # <<>>))
        BY <1>2, <2>3 DEF Went, h
    <2>5. Step(k) = "files" /\ k = r /\ k.todo # <<>>
        BY <2>4 DEF Leads
    <2>6. Handler(k, n)
        BY <1>1, <1>2, <2>2, <2>4, <2>5 DEF Handler, DocSteps
    <2>7. k.seen = Listing(k.doc) /\ k.kind = "erase" /\ k.doc = d
        BY <1>2, <2>2, <2>5 DEF S, Listing
    <2> QED BY <1>2, <1>3, <2>a, <2>4, <2>5, <2>6, <2>7 DEF h, d
<1>4. CASE ~Exists(d)
    <2> DEFINE plan == <<"erase">>
    <2>1. Planned(plan, "erase") /\ plan # <<>> /\ Head(plan) = "erase" /\ ~Mentions(plan, "document")
        BY SinglePlan DEF Leads, Steps
    <2>2. Put(p, e)
        BY <1>4 DEF Purge
    <2> HIDE DEF plan
    <2>3. DOMAIN e = Fields /\ e.todo = plan /\ e.kind = "erase" /\ e.doc = d /\ e.content = h.content
        <3>1. e = [h EXCEPT !.todo = plan]
            BY DEF plan
        <3> HIDE DEF e, h
        <3> QED BY <1>1, <1>2, <3>1 DEF Fields, d
    <2> HIDE DEF e
    <2>4. procs' = [procs EXCEPT ![p] = e]
        BY <2>1, <2>2, <2>3 DEF Put
    <2>5. Step(e) = "erase" /\ ~Deleting(e)
        BY <2>1, <2>3 DEF Step, Deleting
    <2>6. Handler(e, n)
        BY <1>1, <2>1, <2>3, <2>5 DEF Handler, DocSteps
    <2> QED BY <1>2, <1>4, <2>3, <2>4, <2>5, <2>6
<1> QED BY <1>3, <1>4

LEMMA IdlingTyped ==
    /\ Idling \in [job : Jobs \cup {NoJob}, file : 0..MaxFiles]
    /\ Idling.file = 0 /\ Idling.job = NoJob /\ NoJob.doc = Nobody
    BY DocumentsAssumption DEF Idling, NoJob

LEMMA JobIs ==
    /\ \A job \in Jobs : job.doc \in Docs /\ job.doc # Nobody /\ job.failed \in Nat /\ job.stalled \in Nat
    /\ \A d \in Docs : NewJob(d) \in Jobs /\ NewJob(d).doc = d
    /\ \A x, y : NewJob(x) = NewJob(y) => x = y
<1>1. MaxStalled \in Nat /\ IndexAttempts \in Nat \ {0} /\ Nobody \notin Docs
    BY DocumentsAssumption
<1> QED BY <1>1 DEF Jobs, NewJob

(* A job that is tried again is one of the document as before.             *)
LEMMA JobsAgain ==
    ASSUME NEW job \in Jobs
    PROVE  /\ job.failed + 1 # IndexAttempts => [job EXCEPT !.failed = @ + 1] \in Jobs
           /\ job.stalled # MaxStalled => [job EXCEPT !.stalled = @ + 1] \in Jobs
           /\ [job EXCEPT !.failed = @ + 1].doc = job.doc /\ [job EXCEPT !.stalled = @ + 1].doc = job.doc
<1>1. MaxStalled \in Nat /\ IndexAttempts \in Nat \ {0}
    BY DocumentsAssumption
<1> QED BY <1>1 DEF Jobs

(* What a failed or stalled index job does, but for the counts of failures.*)
Again(w) ==
    /\ workers' = [workers EXCEPT ![w] = Idling]
    /\ workers[w].job \in Jobs
    /\ \/ jobs' = jobs /\ {"dropped"} \in faults'
       \/ /\ faults' = faults
          /\ \E job \in Jobs : job.doc = workers[w].job.doc /\ jobs' = [jobs EXCEPT ![job] = @ + 1]
    /\ faults \subseteq faults'
    /\ UNCHANGED <<library, procs, scenario, left>>
    /\ outages' \in {outages, outages + 1}

LEMMA FailsAgain ==
    ASSUME Indexing, NEW w \in Workers, IndexFails(w) \/ IndexStalls(w)
    PROVE  Again(w)
<1>1. workers[w].job.doc # Nobody
    BY DEF IndexFails, IndexStalls
<1>2. workers[w].job \in Jobs
    BY <1>1, IdlingTyped DEF Indexing
<1>3. ASSUME NEW job, NEW limit \in BOOLEAN, TryAgain(w, job, limit), outages' \in {outages, outages + 1},
             ~limit => job \in Jobs /\ job.doc = workers[w].job.doc
      PROVE  Again(w)
    BY <1>2, <1>3 DEF TryAgain, Again
<1>4. CASE IndexFails(w)
    BY <1>2, <1>3, <1>4, JobsAgain DEF IndexFails
<1>5. CASE IndexStalls(w)
    BY <1>2, <1>3, <1>5, JobsAgain DEF IndexStalls
<1> QED BY <1>4, <1>5

(* An erasure deletes one more file and stays at that step.                *)
Wipe(p, key) ==
    /\ At(p, "files") /\ key \in procs[p].seen
    /\ Put(p, [procs[p] EXCEPT !.seen = @ \ {key}])
LEMMA Wipes ==
    ASSUME Requests, NEW p \in Procs, NEW n, Handler(procs[p], n), NEW key, Wipe(p, key)
    PROVE  \E k : /\ procs' = [procs EXCEPT ![p] = k] /\ Handler(k, n)
                  /\ DOMAIN k = Fields /\ k.seen = procs[p].seen \ {key}
                  /\ k.todo = procs[p].todo /\ k.kind = procs[p].kind /\ k.doc = procs[p].doc
                  /\ k.row = procs[p].row /\ k.version = procs[p].version /\ k.file = procs[p].file
                  /\ Step(k) = "files" /\ procs[p].kind = "erase" /\ procs[p] # Idle
<1> DEFINE h == procs[p]
           k == [h EXCEPT !.seen = @ \ {key}]
<1>1. DOMAIN h = Fields /\ h.todo # <<>> /\ Handler(h, n)
    BY DEF Wipe, At, Handler
<1>2. /\ DOMAIN k = Fields /\ k.seen = h.seen \ {key} /\ k.todo = h.todo /\ k.kind = h.kind
      /\ k.content = h.content /\ k.doc = h.doc /\ k.row = h.row /\ k.file = h.file /\ k.version = h.version
    BY <1>1 DEF Fields
<1>3. procs' = [procs EXCEPT ![p] = k]
    BY <1>1, <1>2 DEF Wipe, Put
<1> HIDE DEF h, k
<1>4. Head(h.todo) = "files"
    BY DEF Wipe, At, h
<1>5. Handler(k, n)
    BY <1>1, <1>2 DEF Handler, Step, Deleting
<1>6. h.kind = "erase" /\ Step(k) = "files" /\ h # Idle
    BY <1>1, <1>2, <1>4, TailOf, IdleHas DEF Handler, Leads, Step
<1> QED BY <1>2, <1>3, <1>5, <1>6 DEF h

LEMMA DeletesFiles ==
    ASSUME NEW p \in Procs, DeleteFiles(p)
    PROVE  \/ procs[p].seen = {} /\ Put(p, Rest(p)) /\ UNCHANGED <<files, faults>>
           \/ \E key : Wipe(p, key) /\ files' = files \ {key} /\ UNCHANGED faults
           \/ /\ Abort(p) /\ {"undeleted"} \in faults' /\ faults \subseteq faults' /\ files' \subseteq files
              /\ \E key \in procs[p].seen : files \ {key} \subseteq files'
<1>1. At(p, "files")
    BY DEF DeleteFiles
<1>2. ASSUME NEW key \in procs[p].seen, Put(p, [procs[p] EXCEPT !.seen = @ \ {key}]) PROVE Wipe(p, key)
    BY <1>1, <1>2 DEF Wipe
<1>3. CASE procs[p].seen = {} /\ Put(p, Rest(p)) /\ UNCHANGED <<files, faults>>
    BY <1>3
<1>4. ASSUME NEW key \in procs[p].seen, files' = files \ {key}, UNCHANGED faults,
             Put(p, [procs[p] EXCEPT !.seen = @ \ {key}])
      PROVE  \E k : Wipe(p, k) /\ files' = files \ {k} /\ UNCHANGED faults
    BY <1>2, <1>4
<1>5. ASSUME NEW key \in procs[p].seen, faults' = faults \cup {{"undeleted"}}, files' \in {files, files \ {key}}, Abort(p)
      PROVE  /\ Abort(p) /\ {"undeleted"} \in faults' /\ faults \subseteq faults' /\ files' \subseteq files
             /\ \E k \in procs[p].seen : files \ {k} \subseteq files'
    BY <1>5
<1> QED BY <1>3, <1>4, <1>5 DEF DeleteFiles

LEMMA TypedUpload ==
    ASSUME Typed, NEW p \in Procs, Upload(p), UNCHANGED <<recruiting, screening>>
    PROVE  Typed'
<1>1. Shelf /\ Indexing /\ Requests /\ Hiring /\ Settings
    BY DEF Typed
<1>2. Hiring' /\ Settings'
    BY <1>1, SameHiring DEF Upload, Settings
<1>3. CASE made' = made
    <2>1. Abort(p) /\ files' = files
        <3> DEFINE r == [content |-> procs[p].content, doc |-> procs[p].doc]
        <3>1. ASSUME made' = Append(made, r) PROVE FALSE
            <4>1. Len(Append(made, r)) = Len(made) + 1 /\ Len(made) \in Nat
                BY <1>1 DEF Shelf
            <4> HIDE DEF r
            <4> QED BY <1>3, <3>1, <4>1
        <3> QED BY <1>3, <3>1 DEF Upload
    <2>2. Shelf' /\ Indexing'
        BY <1>1, <1>3, <2>1, SameShelf, SameIndexing DEF Upload, library
    <2>3. Requests'
        BY <1>3, <2>1, RequestsEnd
    <2> QED BY <1>2, <2>2, <2>3 DEF Typed
<1>4. CASE made' # made
    <2> DEFINE n == Len(made)
               r == [content |-> procs[p].content, doc |-> procs[p].doc]
    <2>1. /\ n < MaxFiles /\ made' = Append(made, r) /\ files' = files \cup {n + 1}
          /\ Put(p, [Rest(p) EXCEPT !.file = n + 1]) /\ At(p, "upload")
          /\ UNCHANGED <<docs, versions, chunks, created, jobs, workers>>
        BY <1>4 DEF Upload
    <2>2. n \in Nat /\ MaxFiles \in Nat
        BY <1>1, DocumentsAssumption DEF Shelf
    <2>3. PICK k : /\ procs' = [procs EXCEPT ![p] = k] /\ Handler(k, n + 1)
                   /\ k.doc = procs[p].doc /\ k.content = procs[p].content /\ k.doc \in Docs
        <3>1. Handler(procs[p], n)
            BY <1>1 DEF Requests
        <3> HIDE DEF n
        <3> QED BY <2>1, <2>2, <3>1, Uploads
    <2>4. r \in [content : {"text", "image"}, doc : Docs]
        BY <2>3 DEF Handler
    <2> HIDE DEF r
    <2>5. made' \in Seq([content : {"text", "image"}, doc : Docs]) /\ Len(made') = n + 1
        BY <1>1, <2>1, <2>4 DEF Shelf
    <2>6. Shelf'
        <3>1. n <= n + 1 /\ n + 1 <= MaxFiles /\ files' \subseteq 1..(n + 1)
            <4>1. files \subseteq 1..n
                BY <1>1 DEF Shelf
            <4> HIDE DEF n
            <4> QED BY <2>1, <2>2, <4>1
        <3>2. \A d \in Docs : docs[d].current <= n + 1
            <4>1. \A d \in Docs : docs[d].current \in Int /\ docs[d].current <= n
                BY <1>1, <2>2 DEF Shelf, Document
            <4> HIDE DEF n
            <4> QED BY <2>2, <4>1
        <3>3. \A d \in Docs, i \in Keys : versions[d][i] # 0 => i <= n + 1 /\ versions[d][i] <= n + 1
            <4>1. \A d \in Docs, i \in Keys :
                      i \in Int /\ versions[d][i] \in Int /\ (versions[d][i] # 0 => i <= n /\ versions[d][i] <= n)
                BY <1>1, <2>2 DEF Shelf, DocumentVersion, Keys
            <4> HIDE DEF n
            <4> QED BY <2>2, <4>1
        <3> QED BY <1>1, <2>1, <2>5, <3>1, <3>2, <3>3 DEF Shelf
    <2>7. Indexing'
        <3>1. \A w \in Workers : workers[w].file \in Int /\ workers[w].file <= n
            BY <1>1, <2>2 DEF Indexing
        <3>2. \A w \in Workers : workers[w].file <= n + 1
            <4> HIDE DEF n
            <4> QED BY <2>2, <3>1
        <3> QED BY <1>1, <2>1, <2>5, <3>2 DEF Indexing
    <2>8. Requests'
        <3>1. Len(made) \in Nat /\ Len(made') \in Nat /\ Len(made) <= Len(made') /\ Handler(k, Len(made'))
            BY <2>2, <2>3, <2>5
        <3> QED BY <1>1, <2>3, <3>1, RequestsStay
    <2> QED BY <1>2, <2>6, <2>7, <2>8 DEF Typed
<1> QED BY <1>3, <1>4

(* A step that leaves the uploads alone and goes on, or gives up.          *)
LEMMA TypedSteps ==
    ASSUME Typed, NEW p \in Procs, UNCHANGED <<recruiting, screening>>,
           SaveVersion(p) \/ SetCurrent(p) \/ SaveRow(p) \/ SoftDelete(p) \/ Emit(p) \/ Die(p)
    PROVE  Typed'
<1>1. Shelf /\ Indexing /\ Requests /\ Hiring /\ Settings
    BY DEF Typed
<1>2. /\ made' = made /\ created' = created /\ chunks' = chunks /\ files' = files /\ workers' = workers
      /\ UNCHANGED <<scenario, left>> /\ outages' \in {outages, outages + 1}
    BY DEF SaveVersion, SetCurrent, SaveRow, SoftDelete, Emit, Die, library, indexing
<1>3. Hiring' /\ Settings'
    BY <1>1, <1>2, SameHiring DEF Settings
<1>4. Requests'
    <2>1. CASE Die(p)
        BY <1>2, <2>1, RequestsEnd DEF Die
    <2>2. CASE ~Die(p)
        <3>1. PICK s \in {"version", "current", "save", "softDelete", "emit"} :
                  At(p, s) /\ (Put(p, Rest(p)) \/ Abort(p))
            BY <2>2 DEF SaveVersion, SetCurrent, SaveRow, SoftDelete, Emit
        <3> QED BY <1>2, <3>1, RequestsGoOn
    <2> QED BY <2>1, <2>2
<1>5. Handler(procs[p], Len(made)) /\ Len(made) \in Nat
    BY <1>1 DEF Requests, Shelf
<1>6. ASSUME NEW s \in {"version", "current", "save", "softDelete", "emit"}, At(p, s)
      PROVE  /\ Step(procs[p]) = s /\ procs[p].doc \in Docs
             /\ s \in {"version", "current"} => procs[p].file \in 1..Len(made)
             /\ s = "version" => procs[p].version \in 1..Len(made)
             /\ s = "save" => procs[p].row \in Document /\ procs[p].row.current <= Len(made)
    <2>1. Step(procs[p]) = s
        BY <1>6 DEF Step, At
    <2> QED BY <1>5, <2>1 DEF Handler, DocSteps
<1>7. MaxFiles \in Nat /\ Len(made) <= MaxFiles
    BY <1>1, DocumentsAssumption DEF Shelf
<1> DEFINE d == procs[p].doc
<1>8. CASE SaveVersion(p)
    <2> DEFINE v == procs[p].version
               f == procs[p].file
    <2>1. versions' = versions \/ versions' = [versions EXCEPT ![d][v] = f]
        BY <1>8 DEF SaveVersion
    <2>2. d \in Docs /\ f \in 1..Len(made) /\ v \in 1..Len(made)
        BY <1>6, <1>8 DEF SaveVersion
    <2>3. /\ versions \in [Docs -> DocumentVersion]
          /\ \A x \in Docs, i \in Keys : versions[x][i] # 0 => i <= Len(made) /\ versions[x][i] <= Len(made)
        BY <1>1 DEF Shelf
    <2>4. v \in Keys /\ f \in 0..MaxFiles /\ v <= Len(made) /\ f <= Len(made)
        BY <1>5, <1>7, <2>2 DEF Keys
    <2> HIDE DEF d, v, f
    <2>5. /\ versions' \in [Docs -> DocumentVersion]
          /\ \A x \in Docs, i \in Keys : versions'[x][i] # 0 => i <= Len(made) /\ versions'[x][i] <= Len(made)
        <3>1. CASE versions' = versions
            BY <2>3, <3>1
        <3>2. CASE versions' = [versions EXCEPT ![d][v] = f]
            <4>1. versions'[d] = [versions[d] EXCEPT ![v] = f] /\ versions[d] \in DocumentVersion
                BY <2>2, <2>3, <3>2
            <4>2. versions'[d] \in DocumentVersion
                BY <2>4, <4>1 DEF DocumentVersion, Keys
            <4>3. \A x \in Docs : x # d => versions'[x] = versions[x]
                BY <2>3, <3>2
            <4>4. \A i \in Keys : versions'[d][i] = IF i = v THEN f ELSE versions[d][i]
                BY <4>1 DEF DocumentVersion, Keys
            <4>5. DOMAIN versions' = Docs
                BY <2>3, <3>2
            <4>6. \A x \in Docs : versions'[x] \in DocumentVersion
                BY <2>3, <4>2, <4>3
            <4>7. versions' = [x \in Docs |-> versions'[x]]
                BY <3>2, <4>5, <2>3
            <4>8. versions' \in [Docs -> DocumentVersion]
                BY <4>6, <4>7
            <4> QED BY <2>3, <2>4, <4>3, <4>4, <4>8
        <3> QED BY <2>1, <3>1, <3>2
    <2>6. UNCHANGED <<docs, jobs>>
        BY <1>8 DEF SaveVersion, indexing
    <2>7. Shelf' /\ Indexing'
        BY <1>1, <1>2, <2>5, <2>6, SameIndexing DEF Shelf
    <2> QED BY <1>3, <1>4, <2>7 DEF Typed
<1>9. CASE SetCurrent(p) \/ SaveRow(p) \/ SoftDelete(p)
    <2>1. UNCHANGED <<versions, jobs>>
        BY <1>9 DEF SetCurrent, SaveRow, SoftDelete, indexing
    <2>2. \E row : row \in Document /\ row.current <= Len(made) /\ d \in Docs
                   /\ docs' \in {docs, [docs EXCEPT ![d] = row]}
        <3>0. \A x \in Docs : docs[x] \in Document /\ docs[x].current <= Len(made)
            BY <1>1 DEF Shelf
        <3>1. CASE SetCurrent(p)
            <4> DEFINE f == procs[p].file
                       row == [docs[d] EXCEPT !.current = f, !.indexed = FALSE]
            <4>1. d \in Docs /\ f \in 1..Len(made)
                BY <1>6, <3>1 DEF SetCurrent
            <4>2. row \in Document /\ row.current <= Len(made)
                <5>1. f \in 0..MaxFiles /\ f <= Len(made) /\ docs[d] \in Document
                    BY <1>5, <1>7, <3>0, <4>1
                <5> HIDE DEF f, d
                <5>2. row \in Document /\ row.current = f
                    BY <5>1 DEF Document
                <5> QED BY <5>1, <5>2
            <4>3. docs' \in {docs, [docs EXCEPT ![d] = row]}
                BY <3>1, <4>1, <1>1 DEF SetCurrent, Shelf
            <4> QED BY <4>1, <4>2, <4>3
        <3>2. CASE SaveRow(p)
            BY <1>6, <3>2 DEF SaveRow
        <3>3. CASE SoftDelete(p)
            <4> DEFINE row == [docs[d] EXCEPT !.deleted = TRUE]
            <4>1. d \in Docs
                BY <1>6, <3>3 DEF SoftDelete
            <4>2. row \in Document /\ row.current <= Len(made)
                BY <3>0, <4>1 DEF Document
            <4>3. docs' \in {docs, [docs EXCEPT ![d] = row]}
                BY <3>3, <4>1, <1>1 DEF SoftDelete, Shelf
            <4> QED BY <4>1, <4>2, <4>3
        <3> QED BY <1>9, <3>1, <3>2, <3>3
    <2> HIDE DEF d
    <2>3. docs' \in [Docs -> Document] /\ \A x \in Docs : docs'[x].current <= Len(made)
        BY <1>1, <2>2 DEF Shelf
    <2>4. Shelf' /\ Indexing'
        BY <1>1, <1>2, <2>1, <2>3, SameIndexing DEF Shelf
    <2> QED BY <1>3, <1>4, <2>4 DEF Typed
<1>10. CASE Emit(p)
    <2>1. UNCHANGED library /\ d \in Docs
        BY <1>6, <1>10 DEF Emit
    <2>2. jobs' \in [Jobs -> Nat]
        <3>1. NewJob(d) \in Jobs
            BY <2>1, JobIs
        <3> QED BY <1>1, <1>10, <3>1 DEF Emit, Indexing
    <2>3. Shelf' /\ Indexing'
        BY <1>1, <1>2, <2>1, <2>2, SameShelf DEF Indexing
    <2> QED BY <1>3, <1>4, <2>3 DEF Typed
<1>11. CASE Die(p)
    <2>1. Shelf' /\ Indexing'
        BY <1>1, <1>2, <1>11, SameShelf, SameIndexing DEF Die, indexing
    <2> QED BY <1>3, <1>4, <2>1 DEF Typed
<1> QED BY <1>8, <1>9, <1>10, <1>11

LEMMA TypedIndexing ==
    ASSUME Typed, UNCHANGED <<recruiting, screening>>, Reindex \/ \E w \in Workers : IndexJob(w)
    PROVE  Typed'
<1>1. Shelf /\ Indexing /\ Requests /\ Hiring /\ Settings
    BY DEF Typed
<1>2. MaxFiles \in Nat /\ Len(made) \in Nat /\ Len(made) <= MaxFiles
    BY <1>1, DocumentsAssumption DEF Shelf
<1>3. /\ UNCHANGED <<versions, files, made, created, procs, scenario>>
      /\ outages' \in {outages, outages + 1}
      /\ left' = left \/ (left > 0 /\ left' = left - 1)
    <2>1. CASE Reindex
        BY <2>1 DEF Reindex, library
    <2>2. ASSUME NEW w \in Workers, IndexJob(w)
          PROVE  /\ UNCHANGED <<versions, files, made, created, procs, scenario, left>>
                 /\ outages' \in {outages, outages + 1}
        <3>1. CASE IndexFails(w) \/ IndexStalls(w)
            BY <1>1, <3>1, FailsAgain DEF Again, library
        <3> QED BY <2>2, <3>1 DEF IndexJob, Take, IndexDocument, library
    <2> QED BY <2>1, <2>2
<1>4. Requests' /\ Hiring' /\ Settings'
    BY <1>1, <1>3, SameRequests, SameHiring DEF Settings
<1>5. CASE Reindex
    <2>1. UNCHANGED library /\ workers' = workers
        BY <1>5 DEF Reindex
    <2>2. jobs' \in [Jobs -> Nat]
        BY <1>1, <1>5 DEF Reindex, Indexing
    <2> QED BY <1>1, <1>3, <1>4, <2>1, <2>2, SameShelf DEF Typed, Indexing
<1>6. ASSUME NEW w \in Workers, NEW job \in Jobs, Take(w, job) PROVE Typed'
    <2> DEFINE f == IF IsEligible(job.doc) THEN docs[job.doc].current ELSE 0
               busy == [job |-> job, file |-> f]
    <2>1. UNCHANGED library /\ jobs[job] > 0 /\ jobs' = [jobs EXCEPT ![job] = @ - 1]
          /\ workers' = [workers EXCEPT ![w] = busy]
        BY <1>6 DEF Take
    <2>2. f \in 0..MaxFiles /\ f <= Len(made)
        BY <1>1, <1>2, JobIs DEF Shelf, Document
    <2>3. busy \in [job : Jobs \cup {NoJob}, file : 0..MaxFiles] /\ busy.file = f
        BY <2>2
    <2> HIDE DEF f, busy
    <2>4. jobs' \in [Jobs -> Nat]
        BY <1>1, <2>1 DEF Indexing
    <2>5. /\ workers' \in [Workers -> [job : Jobs \cup {NoJob}, file : 0..MaxFiles]]
          /\ \A x \in Workers : workers'[x].file <= Len(made)
        BY <1>1, <2>1, <2>2, <2>3 DEF Indexing
    <2> QED BY <1>1, <1>3, <1>4, <2>1, <2>4, <2>5, SameShelf DEF Typed, Indexing
<1>8. ASSUME NEW w \in Workers, IndexFails(w) \/ IndexStalls(w) PROVE Typed'
    <2>1. Again(w)
        BY <1>1, <1>8, FailsAgain
    <2>2. jobs' \in [Jobs -> Nat]
        BY <1>1, <2>1 DEF Again, Indexing
    <2>3. /\ workers' \in [Workers -> [job : Jobs \cup {NoJob}, file : 0..MaxFiles]]
          /\ \A x \in Workers : workers'[x].file <= Len(made)
        BY <1>1, <1>2, <2>1, IdlingTyped DEF Again, Indexing
    <2> QED BY <1>1, <1>3, <1>4, <2>1, <2>2, <2>3, SameShelf DEF Typed, Again, Indexing
<1>7. ASSUME NEW w \in Workers, IndexDocument(w) PROVE Typed'
    <2> DEFINE d == workers[w].job.doc
               key == workers[w].file
    <2>1. d \in Docs
        <3>1. d # Nobody
            BY <1>7 DEF IndexDocument
        <3> QED BY <1>1, <3>1, IdlingTyped, JobIs DEF Indexing
    <2>2. workers' = [workers EXCEPT ![w] = Idling]
        BY <1>7 DEF IndexDocument
    <2>3. /\ workers' \in [Workers -> [job : Jobs \cup {NoJob}, file : 0..MaxFiles]]
          /\ \A x \in Workers : workers'[x].file <= Len(made)
        BY <1>1, <1>2, <2>2, IdlingTyped DEF Indexing
    <2>4. jobs' \in [Jobs -> Nat]
        BY <1>1, <1>7 DEF IndexDocument, Indexing
    <2>5. /\ docs' \in [Docs -> Document] /\ \A x \in Docs : docs'[x].current <= Len(made)
        <3>1. docs' \in {docs, [docs EXCEPT ![d].indexed = TRUE]}
            BY <1>7 DEF IndexDocument
        <3> DEFINE row == [docs[d] EXCEPT !.indexed = TRUE]
        <3>2. docs[d] \in Document /\ docs[d].current <= Len(made) /\ docs \in [Docs -> Document]
            BY <1>1, <2>1 DEF Shelf
        <3>3. row \in Document /\ row.current = docs[d].current
            BY <3>2 DEF Document
        <3>4. docs' \in {docs, [docs EXCEPT ![d] = row]}
            BY <2>1, <3>1, <3>2
        <3> HIDE DEF row, d
        <3> QED BY <1>1, <2>1, <3>2, <3>3, <3>4 DEF Shelf
    <2>6. chunks' \in [Docs -> SUBSET Keys]
        <3>1. chunks' = chunks \/ chunks' = [chunks EXCEPT ![d] = {}]
              \/ (key \in files /\ chunks' = [chunks EXCEPT ![d] = {key}])
            BY <1>7 DEF IndexDocument
        <3>2. files \subseteq Keys
            BY <1>1, <1>2 DEF Shelf, Keys
        <3> HIDE DEF d, key
        <3> QED BY <1>1, <2>1, <3>1, <3>2 DEF Shelf
    <2> QED BY <1>1, <1>3, <1>4, <2>3, <2>4, <2>5, <2>6 DEF Typed, Shelf, Indexing
<1> QED BY <1>5, <1>6, <1>7, <1>8 DEF IndexJob

LEMMA TypedOpenings ==
    ASSUME Typed, CreateOpening \/ UpdateOpening \/ GrowOld
    PROVE  Typed'
<1>1. Shelf /\ Indexing /\ Requests /\ Hiring /\ Settings
    BY DEF Typed
<1>2. /\ UNCHANGED <<library, indexing, procs, scenario, candidate, resumes, screening>>
      /\ left' = left \/ (left > 0 /\ left' = left - 1)
    <2>1. CASE CreateOpening
        BY <2>1 DEF CreateOpening
    <2>2. CASE UpdateOpening
        BY <2>2 DEF UpdateOpening
    <2>3. CASE GrowOld
        BY <2>3 DEF GrowOld
    <2> QED BY <2>1, <2>2, <2>3
<1>3. Shelf' /\ Indexing' /\ Requests' /\ Settings'
    BY <1>1, <1>2, SameShelf, SameIndexing, SameRequests DEF Settings, library, indexing
<1>4. opening' \in OpeningStatus \cup {"NONE"}
    BY <1>1 DEF CreateOpening, UpdateOpening, GrowOld, OpeningStatus, Hiring
<1>5. app' \in Application /\ (Applied' => app'.status \in AppStatus /\ app'.resume \in Docs)
    <2>1. CASE app' = app
        BY <1>1, <2>1 DEF Hiring, Applied
    <2>2. CASE app' # app
        <3>1. Applied /\ app' = [app EXCEPT !.old = TRUE]
            BY <2>2 DEF CreateOpening, UpdateOpening, GrowOld
        <3> QED BY <1>1, <3>1 DEF Hiring, Application
    <2> QED BY <2>1, <2>2
<1>6. Hiring'
    BY <1>1, <1>2, <1>4, <1>5 DEF Hiring, screening
<1> QED BY <1>3, <1>6 DEF Typed

(* A row of applications that may be stored.                               *)
GoodApp(a) == a \in Application /\ (a # NoApp => a.status \in AppStatus /\ a.resume \in Docs)

Screened(a, v, b) == [a EXCEPT !.screening = v, !.scored = b, !.old = FALSE]

LEMMA GoodApps ==
    /\ GoodApp(NoApp)
    /\ \A d \in Docs : GoodApp([NoApp EXCEPT !.status = "APPLIED", !.resume = d])
    /\ \A a, v, b : GoodApp(a) /\ a # NoApp /\ v \in {"RUNNING", "DONE", "FAILED"} /\ b \in BOOLEAN =>
           GoodApp(Screened(a, v, b))
<1>1. GoodApp(NoApp)
    BY BlankRow DEF GoodApp
<1>2. ASSUME NEW d \in Docs PROVE GoodApp([NoApp EXCEPT !.status = "APPLIED", !.resume = d])
    BY DEF GoodApp, NoApp, Application, AppStatus
<1>3. ASSUME NEW a, NEW v, NEW b, GoodApp(a), a # NoApp, v \in {"RUNNING", "DONE", "FAILED"}, b \in BOOLEAN
      PROVE  GoodApp(Screened(a, v, b))
    <2> DEFINE r == Screened(a, v, b)
    <2>1. a \in Application /\ a.status \in AppStatus /\ a.resume \in Docs
        BY <1>3 DEF GoodApp
    <2>2. r \in Application /\ r.status = a.status /\ r.resume = a.resume
        BY <1>3, <2>1 DEF Application, Screened
    <2> QED BY <2>1, <2>2 DEF GoodApp
<1> QED BY <1>1, <1>2, <1>3

LEMMA HiringIs ==
    ASSUME Hiring
    PROVE  /\ GoodApp(app) /\ app \in Application
           /\ app.screening \in {"PENDING", "RUNNING", "DONE", "FAILED"} /\ app.scored \in BOOLEAN
    BY DEF Hiring, GoodApp, Applied, Application

LEMMA HiringStays ==
    ASSUME Hiring, UNCHANGED <<opening, resumes>>, candidate' \in BOOLEAN, GoodApp(app'),
           queue' \in Seq(Entry), screeners' \in [Screeners -> Slot]
    PROVE  Hiring'
    BY DEF Hiring, GoodApp, Applied

LEMMA TypedApplying ==
    ASSUME Typed, NEW p \in Procs,
           FindCandidate(p) \/ SaveApplication(p) \/ EnqueueScreen(p) \/ SaveStatus(p)
           \/ DeleteApplications(p) \/ DeleteCandidate(p)
    PROVE  Typed'
<1>1. Shelf /\ Indexing /\ Requests /\ Hiring /\ Settings
    BY DEF Typed
<1>2. UNCHANGED <<library, indexing, scenario, left, opening, resumes, screeners>>
    <2>1. CASE FindCandidate(p)
        BY <2>1 DEF FindCandidate, screening
    <2>2. CASE SaveApplication(p)
        BY <2>2 DEF SaveApplication, screening
    <2>3. CASE EnqueueScreen(p)
        BY <2>3 DEF EnqueueScreen, recruiting
    <2>4. CASE SaveStatus(p)
        BY <2>4 DEF SaveStatus, screening
    <2>5. CASE DeleteApplications(p)
        BY <2>5 DEF DeleteApplications, screening
    <2>6. CASE DeleteCandidate(p)
        BY <2>6 DEF DeleteCandidate, screening
    <2> QED BY <2>1, <2>2, <2>3, <2>4, <2>5, <2>6
<1>3. Shelf' /\ Indexing' /\ Settings' /\ made' = made
    BY <1>1, <1>2, SameShelf, SameIndexing DEF Settings, library, indexing
<1>4. PICK s \in {"candidate", "application", "screen", "decide", "applications", "erase"} :
          At(p, s) /\ (Put(p, Rest(p)) \/ Abort(p))
    BY DEF FindCandidate, SaveApplication, EnqueueScreen, SaveStatus, DeleteApplications, DeleteCandidate
<1>5. Requests'
    BY <1>3, <1>4, RequestsGoOn
<1>6. Hiring'
    <2>1. queue \in Seq(Entry) /\ screeners' \in [Screeners -> Slot]
        BY <1>1, <1>2 DEF Hiring
    <2>2. queue' \in Seq(Entry)
        <3>1. queue' = queue \/ queue' = Append(queue, [attempt |-> 0, stalled |-> 0])
            BY DEF FindCandidate, SaveApplication, EnqueueScreen, Enqueue, SaveStatus, DeleteApplications,
                   DeleteCandidate, screening
        <3>2. [attempt |-> 0, stalled |-> 0] \in Entry
            BY DEF Entry
        <3> QED BY <2>1, <3>1, <3>2, AppendProperties
    <2>3. candidate' \in BOOLEAN
        BY <1>1 DEF FindCandidate, SaveApplication, EnqueueScreen, SaveStatus, DeleteApplications,
                   DeleteCandidate, recruiting, Hiring
    <2>4. GoodApp(app')
        <3>0. Handler(procs[p], Len(made))
            BY <1>1 DEF Requests
        <3>1. CASE app' = app
            BY <1>1, <3>1, HiringIs
        <3>2. CASE app' = NoApp
            BY <3>2, GoodApps
        <3>3. CASE SaveApplication(p) /\ app' # app
            <4>1. Step(procs[p]) = "application"
                BY <3>3 DEF SaveApplication, At, Step
            <4>2. procs[p].doc \in Docs
                BY <3>0, <4>1 DEF Handler, DocSteps
            <4> QED BY <3>3, <4>2, GoodApps DEF SaveApplication
        <3>4. CASE SaveStatus(p) /\ app' # app
            <4>1. procs[p].todo # <<>> /\ Head(procs[p].todo) = "decide"
                BY <3>4 DEF SaveStatus, At
            <4>2. procs[p].kind = "decide"
                BY <3>0, <4>1, TailOf DEF Handler, Leads
            <4>3. GoodApp(procs[p].row)
                BY <3>0, <4>2 DEF Handler, GoodApp
            <4> QED BY <3>4, <4>3 DEF SaveStatus
        <3> QED BY <3>1, <3>2, <3>3, <3>4
                DEF FindCandidate, EnqueueScreen, DeleteApplications, DeleteCandidate, recruiting
    <2> QED BY <1>1, <1>2, <2>1, <2>2, <2>3, <2>4, HiringStays
<1> QED BY <1>3, <1>5, <1>6 DEF Typed

LEMMA TypedResume ==
    ASSUME Typed, NEW p \in Procs, CreateSystemDocument(p)
    PROVE  Typed'
<1>1. Shelf /\ Indexing /\ Requests /\ Hiring /\ Settings
    BY DEF Typed
<1>2. UNCHANGED <<versions, files, chunks, made, indexing, scenario, left, opening, candidate, app, screening>>
    BY DEF CreateSystemDocument
<1> DEFINE row == [NoDoc EXCEPT !.category = "RESUME", !.visibility = "RESTRICTED"]
<1>3. PICK d \in Docs : /\ created' = created \cup {d} /\ docs' = [docs EXCEPT ![d] = row]
                        /\ resumes' = resumes \cup {d} /\ Put(p, [Rest(p) EXCEPT !.doc = d])
    BY DEF CreateSystemDocument
<1>4. row \in Document /\ row.current = 0
    BY BlankRow DEF Document, Categories, Visibilities
<1> HIDE DEF row
<1>5. docs' \in [Docs -> Document] /\ \A x \in Docs : docs'[x].current <= Len(made)
    BY <1>1, <1>3, <1>4 DEF Shelf
<1>6. Shelf'
    BY <1>1, <1>2, <1>3, <1>5 DEF Shelf
<1>7. Requests'
    <2>1. Len(made) \in Nat /\ Handler(procs[p], Len(made)) /\ At(p, "resume")
        BY <1>1 DEF Requests, Shelf, CreateSystemDocument
    <2>2. PICK k : procs' = [procs EXCEPT ![p] = k] /\ Handler(k, Len(made))
        BY <1>3, <2>1, Resumes
    <2>3. Len(made') \in Nat /\ Len(made) <= Len(made') /\ Handler(k, Len(made'))
        BY <1>2, <2>1, <2>2
    <2> QED BY <1>1, <2>1, <2>2, <2>3, RequestsStay
<1>8. Indexing' /\ Hiring' /\ Settings'
    <2>1. Indexing' /\ Settings'
        BY <1>1, <1>2, SameIndexing DEF Settings, indexing
    <2>2. Hiring'
        BY <1>1, <1>2, <1>3 DEF Hiring, Applied, screening
    <2> QED BY <2>1, <2>2
<1> QED BY <1>6, <1>7, <1>8 DEF Typed

LEMMA TypedRescreen ==
    ASSUME Typed, NEW p \in Procs, Rescreen(p)
    PROVE  Typed'
<1>1. Shelf /\ Indexing /\ Requests /\ Hiring /\ Settings
    BY DEF Typed
<1>2. /\ UNCHANGED <<library, indexing, procs, scenario, recruiting, screeners>>
      /\ left > 0 /\ left' = left - 1 /\ queue' = Append(queue, [attempt |-> 0, stalled |-> 0])
    BY DEF Rescreen, MayStart, Enqueue
<1>3. Shelf' /\ Indexing' /\ Requests' /\ Settings'
    BY <1>1, <1>2, SameShelf, SameIndexing, SameRequests DEF Settings, library, indexing
<1>4. queue' \in Seq(Entry)
    BY <1>1, <1>2 DEF Hiring, Entry
<1>5. Hiring'
    BY <1>1, <1>2, <1>4 DEF Hiring, Applied, recruiting
<1> QED BY <1>3, <1>5 DEF Typed

LEMMA TypedScreening ==
    ASSUME Typed, NEW s \in Screeners, ScreeningJob(s)
    PROVE  Typed'
<1>1. Shelf /\ Indexing /\ Requests /\ Hiring /\ Settings
    BY DEF Typed
<1>2. /\ UNCHANGED <<library, jobs, workers, procs, scenario, left, opening, candidate, resumes>>
      /\ outages' \in {outages, outages + 1}
    <2>1. CASE Screen(s)
        BY <2>1 DEF Screen, indexing
    <2>2. CASE ScreenFails(s)
        BY <2>2 DEF ScreenFails
    <2>3. CASE ScreenDone(s)
        BY <2>3 DEF ScreenDone, indexing
    <2>4. CASE ScreenStalls(s)
        BY <2>4 DEF ScreenStalls, recruiting
    <2> QED BY <2>1, <2>2, <2>3, <2>4 DEF ScreeningJob
<1>3. Shelf' /\ Indexing' /\ Requests' /\ Settings'
    BY <1>1, <1>2, SameShelf, SameIndexing, SameRequests DEF Settings, library
<1>4. queue \in Seq(Entry) /\ screeners \in [Screeners -> Slot]
    BY <1>1 DEF Hiring
<1>5. /\ screeners[s].attempt \in Int /\ screeners[s].attempt - 1 \in Int
      /\ screeners[s].stalled \in Int /\ screeners[s].stalled + 1 \in Int
    BY <1>4 DEF Slot
<1>6. NoScreening \in Slot
    BY DEF NoScreening, Slot
<1>7. queue' \in Seq(Entry)
    <2>1. CASE Screen(s)
        BY <1>4, <2>1 DEF Screen
    <2>2. CASE ~Screen(s)
        <3>1. queue' = queue \/ \E a, b \in Int : queue' = Requeue(a, b)
            BY <1>5, <2>2 DEF ScreeningJob, ScreenFails, ScreenDone, ScreenStalls, Retry
        <3>2. ASSUME NEW a \in Int, NEW b \in Int PROVE Requeue(a, b) \in Seq(Entry)
            BY <1>4, AppendProperties DEF Requeue, Entry
        <3> QED BY <1>4, <3>1, <3>2
    <2> QED BY <2>1, <2>2
<1>8. screeners' \in [Screeners -> Slot]
    <2>1. CASE Screen(s)
        <3> DEFINE f == IF Found(app.resume) THEN docs[app.resume].current ELSE 0
                   slot == [running |-> TRUE, attempt |-> Head(queue).attempt + 1,
                            stalled |-> Head(queue).stalled, file |-> f]
        <3>1. screeners' = screeners \/ (Applied /\ screeners' = [screeners EXCEPT ![s] = slot])
            BY <2>1 DEF Screen
        <3>2. ASSUME Applied PROVE slot \in Slot
            <4>0. Head(queue) \in Entry
                BY <1>4, <2>1 DEF Screen
            <4>1. Head(queue).attempt \in Int /\ Head(queue).stalled \in Int
                BY <4>0 DEF Entry
            <4>2. app.resume \in Docs
                BY <1>1, <3>2 DEF Hiring
            <4>3. f \in Nat
                BY <1>1, <4>2, DocumentsAssumption DEF Shelf, Document
            <4> HIDE DEF f
            <4> QED BY <4>1, <4>3 DEF Slot
        <3> HIDE DEF slot
        <3> QED BY <1>4, <3>1, <3>2
    <2>2. CASE ~Screen(s)
        <3>1. screeners' = [screeners EXCEPT ![s] = NoScreening]
            BY <2>2 DEF ScreeningJob, ScreenFails, ScreenDone, ScreenStalls
        <3> QED BY <1>4, <1>6, <3>1
    <2> QED BY <2>1, <2>2
<1>9. GoodApp(app')
    <2>0. /\ GoodApp(app) /\ app \in Application /\ app.scored \in BOOLEAN
        BY <1>1, HiringIs
    <2>1. CASE app' = app
        BY <2>0, <2>1
    <2>2. CASE app' # app
        <3>1. /\ app # NoApp
              /\ \/ app' = [app EXCEPT !.screening = "RUNNING", !.old = FALSE]
                 \/ app' = [app EXCEPT !.screening = "FAILED", !.old = FALSE]
                 \/ app' = [app EXCEPT !.screening = "DONE", !.scored = TRUE, !.old = FALSE]
            BY <2>2 DEF ScreeningJob, Screen, ScreenFails, ScreenDone, ScreenStalls, recruiting, Applied
        <3>2. \/ app' = Screened(app, "RUNNING", app.scored) \/ app' = Screened(app, "FAILED", app.scored)
              \/ app' = Screened(app, "DONE", TRUE)
            BY <2>0, <3>1 DEF Application, Screened
        <3>3. GoodApp(Screened(app, "RUNNING", app.scored)) /\ GoodApp(Screened(app, "FAILED", app.scored))
            BY <2>0, <3>1, GoodApps
        <3>4. GoodApp(Screened(app, "DONE", TRUE))
            BY <2>0, <3>1, GoodApps
        <3> QED BY <3>2, <3>3, <3>4
    <2> QED BY <2>1, <2>2
<1>10. Hiring'
    <2>1. candidate' \in BOOLEAN
        BY <1>1, <1>2 DEF Hiring
    <2> QED BY <1>1, <1>2, <1>7, <1>8, <1>9, <2>1, HiringStays
<1> QED BY <1>3, <1>10 DEF Typed

LEMMA TypedErasing ==
    ASSUME Typed, NEW p \in Procs, Purge(p) \/ DeleteFiles(p) \/ DeleteDocument(p)
    PROVE  Typed'
<1>1. Shelf /\ Indexing /\ Requests /\ Hiring /\ Settings
    BY DEF Typed
<1>2. /\ UNCHANGED <<made, created, jobs, workers, scenario, left, recruiting, screening>>
      /\ outages' \in {outages, outages + 1}
    <2>1. CASE Purge(p)
        BY <2>1 DEF Purge, library, indexing
    <2>2. CASE DeleteFiles(p)
        BY <2>2 DEF DeleteFiles
    <2>3. CASE DeleteDocument(p)
        BY <2>3 DEF DeleteDocument, indexing
    <2> QED BY <2>1, <2>2, <2>3
<1>3. Indexing' /\ Hiring' /\ Settings'
    BY <1>1, <1>2, SameIndexing, SameHiring DEF Settings
<1>4. Handler(procs[p], Len(made)) /\ Len(made) \in Nat
    BY <1>1 DEF Requests, Shelf
<1>5. Requests'
    <2>1. CASE Purge(p)
        <3>1. PICK k : procs' = [procs EXCEPT ![p] = k] /\ Handler(k, Len(made))
            BY <1>4, <2>1, Purges
        <3>2. Len(made') \in Nat /\ Len(made) <= Len(made') /\ Handler(k, Len(made'))
            BY <1>2, <1>4, <3>1
        <3> QED BY <1>1, <1>4, <3>1, <3>2, RequestsStay
    <2>2. ASSUME NEW key, Wipe(p, key) PROVE Requests'
        <3>1. PICK k : procs' = [procs EXCEPT ![p] = k] /\ Handler(k, Len(made))
            BY <1>1, <1>4, <2>2, Wipes
        <3>2. Len(made') \in Nat /\ Len(made) <= Len(made') /\ Handler(k, Len(made'))
            BY <1>2, <1>4, <3>1
        <3> QED BY <1>1, <1>4, <3>1, <3>2, RequestsStay
    <2>3. CASE ~Purge(p) /\ ~\E key : Wipe(p, key)
        <3>1. PICK s \in {"files", "document"} : At(p, s) /\ (Put(p, Rest(p)) \/ Abort(p))
            BY <2>3 DEF DeleteFiles, DeleteDocument, Wipe
        <3> QED BY <1>2, <3>1, RequestsGoOn
    <2> QED BY <2>1, <2>2, <2>3
<1>6. Shelf'
    <2>1. CASE Purge(p)
        BY <1>1, <2>1, SameShelf DEF Purge
    <2>2. CASE DeleteFiles(p)
        <3>1. files' \subseteq files /\ UNCHANGED <<docs, versions, chunks, made, created>>
            BY <2>2 DEF DeleteFiles
        <3> QED BY <1>1, <3>1 DEF Shelf
    <2>3. CASE DeleteDocument(p)
        <3> DEFINE d == procs[p].doc
                   blank == [n \in Keys |-> 0]
        <3>1. \/ UNCHANGED <<docs, versions, chunks>>
              \/ /\ docs' = [docs EXCEPT ![d] = NoDoc] /\ versions' = [versions EXCEPT ![d] = blank]
                 /\ chunks' = [chunks EXCEPT ![d] = {}]
            BY <2>3 DEF DeleteDocument
        <3>2. files' = files /\ made' = made /\ created' = created
            BY <2>3 DEF DeleteDocument
        <3>3. blank \in DocumentVersion /\ \A n \in Keys : blank[n] = 0
            BY DocumentsAssumption DEF DocumentVersion, Keys
        <3> HIDE DEF d, blank
        <3>4. docs' \in [Docs -> Document] /\ \A x \in Docs : docs'[x].current <= Len(made)
            BY <1>1, <1>4, <3>1, BlankRow DEF Shelf
        <3>5. versions' \in [Docs -> DocumentVersion] /\ chunks' \in [Docs -> SUBSET Keys]
            BY <1>1, <3>1, <3>3 DEF Shelf
        <3>6. \A x \in Docs, n \in Keys : versions'[x][n] # 0 => versions'[x][n] = versions[x][n]
            BY <1>1, <3>1, <3>3 DEF Shelf
        <3>7. \A x \in Docs, n \in Keys :
                  versions'[x][n] # 0 => n <= Len(made') /\ versions'[x][n] <= Len(made')
            BY <1>1, <3>2, <3>6 DEF Shelf
        <3> QED BY <1>1, <3>2, <3>4, <3>5, <3>7 DEF Shelf
    <2> QED BY <2>1, <2>2, <2>3
<1> QED BY <1>3, <1>5, <1>6 DEF Typed

LEMMA TypedNext == Typed /\ [Next]_vars => Typed'
<1> SUFFICES ASSUME Typed, [Next]_vars PROVE Typed'
    OBVIOUS
<1>1. CASE UNCHANGED vars
    <2>1. UNCHANGED <<library, procs, made, jobs, workers, recruiting, screening, scenario, left, outages>>
        BY <1>1 DEF vars, library, indexing
    <2> QED BY <2>1, SameShelf, SameIndexing, SameRequests, SameHiring DEF Typed, Settings
<1>2. CASE Stored(DocumentsNext)
    <2>1. UNCHANGED <<recruiting, screening>>
        BY <1>2 DEF Stored
    <2>2. ASSUME NEW p \in Procs, NEW d \in Docs, Create(p, d) PROVE Typed'
        BY <2>1, <2>2, TypedCreate
    <2>3. ASSUME NEW p \in Procs, NEW d \in Docs, AddVersion(p, d) \/ Update(p, d) \/ Remove(p, d) PROVE Typed'
        <3>1. PICK k : Started(p, k, "document")
            BY <2>3, AddVersionStarts, UpdateStarts, RemoveStarts DEF Typed, Settings
        <3>2. MayStart(p, "document", "document") /\ UNCHANGED <<library, indexing, scenario>>
            BY <2>3 DEF AddVersion, Update, Remove
        <3> QED BY <2>1, <3>1, <3>2, TypedStart
    <2>4. ASSUME NEW p \in Procs, Upload(p) PROVE Typed'
        BY <2>1, <2>4, TypedUpload
    <2>5. ASSUME NEW p \in Procs, SaveVersion(p) \/ SetCurrent(p) \/ SaveRow(p) \/ SoftDelete(p) \/ Emit(p)
          PROVE  Typed'
        BY <2>1, <2>5, TypedSteps
    <2>6. CASE Reindex \/ \E w \in Workers : IndexJob(w)
        BY <2>1, <2>6, TypedIndexing
    <2> QED BY <1>2, <2>2, <2>3, <2>4, <2>5, <2>6 DEF Stored, DocumentsNext, DocumentRequest
<1>3. CASE Stored(\E p \in Procs : Die(p))
    BY <1>3, TypedSteps DEF Stored
<1>4. CASE CreateOpening \/ UpdateOpening \/ GrowOld
    BY <1>4, TypedOpenings
<1>5. ASSUME NEW p \in Procs, RecruitingRequest(p) \/ Erasure(p) PROVE Typed'
    <2>1. CASE Apply(p) \/ UpdateStatus(p) \/ EraseCandidate(p) \/ Retention(p)
        <3>1. PICK kind, k : Started(p, k, kind) /\ \E op : MayStart(p, op, kind)
            <4>1. Shelf /\ Hiring
                BY DEF Typed
            <4>2. CASE Apply(p)
                BY <4>1, <4>2, ApplyStarts DEF Apply
            <4>3. CASE UpdateStatus(p)
                BY <4>1, <4>3, UpdateStatusStarts DEF UpdateStatus
            <4>4. CASE EraseCandidate(p) \/ Retention(p)
                BY <4>1, <4>4, EraseStarts DEF EraseCandidate, Retention
            <4> QED BY <2>1, <4>2, <4>3, <4>4
        <3>2. UNCHANGED <<library, indexing, scenario, recruiting, screening>>
            <4>1. CASE Apply(p)
                BY <4>1 DEF Apply
            <4>2. CASE UpdateStatus(p)
                BY <4>2 DEF UpdateStatus
            <4>3. CASE EraseCandidate(p)
                BY <4>3 DEF EraseCandidate
            <4>4. CASE Retention(p)
                BY <4>4 DEF Retention
            <4> QED BY <2>1, <4>1, <4>2, <4>3, <4>4
        <3> QED BY <3>1, <3>2, TypedStart
    <2>2. CASE FindCandidate(p) \/ SaveApplication(p) \/ EnqueueScreen(p) \/ SaveStatus(p)
               \/ DeleteApplications(p) \/ DeleteCandidate(p)
        BY <2>2, TypedApplying
    <2>3. CASE CreateSystemDocument(p)
        BY <2>3, TypedResume
    <2>4. CASE Rescreen(p)
        BY <2>4, TypedRescreen
    <2>5. CASE Purge(p) \/ DeleteFiles(p) \/ DeleteDocument(p)
        BY <2>5, TypedErasing
    <2> QED BY <1>5, <2>1, <2>2, <2>3, <2>4, <2>5 DEF RecruitingRequest, Erasure
<1>6. ASSUME NEW s \in Screeners, ScreeningJob(s) PROVE Typed'
    BY <1>6, TypedScreening
<1> QED BY <1>1, <1>2, <1>3, <1>4, <1>5, <1>6 DEF Next

LEMMA AlwaysTyped == Spec => []Typed
    BY TypedInit, TypedNext, PTL DEF Spec

(* Documents, versions, files, jobs and applications have their types,     *)
(* whatever requests, index jobs and screenings interleave.                *)
THEOREM RecruitingTyped == Spec => []TypeOK
<1>1. Typed => TypeOK
    <2> SUFFICES ASSUME Typed PROVE TypeOK
        OBVIOUS
    <2>1. files \subseteq Keys
        BY DocumentsAssumption DEF Typed, Shelf, Keys
    <2> QED BY <2>1 DEF Typed, Shelf, Indexing, Hiring, TypeOK, DocumentsTypeOK
<1> QED BY <1>1, AlwaysTyped, PTL

-----------------------------------------------------------------------------
(* Requests that are in flight together are recorded: what the exceptions  *)
(* of the properties speak of.                                             *)
Overlaps == \A p, q \in Procs : p # q /\ procs[p] # Idle /\ procs[q] # Idle =>
                {procs[p].kind, procs[q].kind} \in faults

(* A request in flight moves on; a decision has one step.                  *)
Moved(p, k) ==
    /\ p \in Procs /\ procs[p] # Idle /\ procs' = [procs EXCEPT ![p] = k]
    /\ k = Idle \/ (k.kind = procs[p].kind /\ k.kind # "decide" /\ Step(k) # "save")

LEMMA MovesOn ==
    ASSUME Requests, Len(made) \in Nat, NEW p \in Procs, NEW s, At(p, s), s \notin {"upload", "resume"},
           Put(p, Rest(p)) \/ Abort(p)
    PROVE  \E k : Moved(p, k) /\ (k = Idle \/ Went(p, k, Rest(p), s))
<1>1. Handler(procs[p], Len(made)) /\ procs[p].todo # <<>>
    BY DEF Requests, At
<1>2. procs[p] # Idle
    BY <1>1, IdleHas
<1>3. CASE Put(p, Rest(p))
    <2>1. PICK k : Went(p, k, Rest(p), s)
        BY <1>1, <1>3, GoesOnFine
    <2>2. k = Idle \/ (k.kind = procs[p].kind /\ k.kind # "decide" /\ Step(k) # "save")
        BY <2>1 DEF Went, Leads, Uploading
    <2>3. procs' = [procs EXCEPT ![p] = k]
        BY <2>1 DEF Went
    <2> QED BY <1>2, <2>1, <2>2, <2>3 DEF Moved
<1>4. CASE Abort(p)
    BY <1>2, <1>4 DEF Abort, Moved
<1> QED BY <1>3, <1>4

LEMMA LearningMoves ==
    ASSUME Requests, Len(made) \in Nat, NEW p \in Procs,
           Upload(p) \/ CreateSystemDocument(p) \/ Purge(p) \/ DeleteFiles(p)
    PROVE  (\E k : Moved(p, k)) /\ Step(procs[p]) # "screen"
<1>1. Handler(procs[p], Len(made)) /\ procs[p] # Idle /\ Step(procs[p]) # "screen"
    BY IdleHas DEF Requests, Upload, CreateSystemDocument, Purge, DeleteFiles, At, Step
<1>2. CASE Upload(p)
    <2>1. CASE Abort(p)
        BY <1>1, <2>1 DEF Abort, Moved
    <2>2. CASE ~Abort(p)
        <3> DEFINE n == Len(made)
        <3>1. Put(p, [Rest(p) EXCEPT !.file = n + 1]) /\ At(p, "upload")
            BY <1>2, <2>2 DEF Upload
        <3>2. n \in Nat /\ Handler(procs[p], n)
            BY <1>1
        <3> HIDE DEF n
        <3>3. PICK k : /\ procs' = [procs EXCEPT ![p] = k]
                       /\ k.kind = procs[p].kind /\ k.kind \in Uploading /\ Step(k) = "version"
            BY <3>1, <3>2, Uploads
        <3> QED BY <1>1, <3>3 DEF Moved, Uploading
    <2> QED BY <2>1, <2>2
<1>3. CASE CreateSystemDocument(p)
    <2>1. PICK d \in Docs : Put(p, [Rest(p) EXCEPT !.doc = d]) /\ At(p, "resume")
        BY <1>3 DEF CreateSystemDocument
    <2>2. PICK k : procs' = [procs EXCEPT ![p] = k] /\ procs[p].kind = "apply" /\ k.kind = "apply"
                   /\ Step(k) = "upload"
        BY <1>1, <2>1, Resumes
    <2> QED BY <1>1, <2>2 DEF Moved
<1>4. CASE Purge(p)
    <2>1. PICK k : procs' = [procs EXCEPT ![p] = k] /\ procs[p].kind = "erase" /\ k.kind = "erase"
                   /\ Step(k) # "save"
        BY <1>1, <1>4, Purges
    <2> QED BY <1>1, <2>1 DEF Moved
<1>5. CASE DeleteFiles(p)
    <2>1. ASSUME NEW key, Wipe(p, key) PROVE \E k : Moved(p, k)
        <3> DEFINE n == Len(made)
        <3>a. Handler(procs[p], n)
            BY <1>1
        <3> HIDE DEF n
        <3>1. PICK k : /\ procs' = [procs EXCEPT ![p] = k] /\ Handler(k, n) /\ k.kind = procs[p].kind
                       /\ Step(k) = "files" /\ procs[p].kind = "erase"
            BY <2>1, <3>a, Wipes
        <3>2. k.kind # "decide" /\ Step(k) # "save"
            BY <3>1
        <3>3. Moved(p, k)
            BY <1>1, <3>1, <3>2 DEF Moved
        <3> QED BY <3>3
    <2>2. CASE Put(p, Rest(p)) \/ Abort(p)
        <3>1. At(p, "files")
            BY <1>5 DEF DeleteFiles
        <3>2. \E k : Moved(p, k)
            BY <2>2, <3>1, MovesOn
        <3> QED BY <1>1, <3>2
    <2> QED BY <1>1, <1>5, <2>1, <2>2, DeletesFiles
<1> QED BY <1>2, <1>3, <1>4, <1>5

(* What a step does to the requests in flight.                             *)
Flow ==
    /\ faults \subseteq faults'
    /\ \/ procs' = procs
       \/ \E p, k, kind : Started(p, k, kind)
       \/ \E p, k : Moved(p, k)

LEMMA Flows == Typed /\ [Next]_vars => Flow
<1> SUFFICES ASSUME Typed, [Next]_vars PROVE Flow
    OBVIOUS
<1>0. Shelf /\ Hiring /\ Requests /\ Settings /\ Len(made) \in Nat
    BY DEF Typed, Shelf
<1>1. CASE UNCHANGED vars
    BY <1>1 DEF vars, Flow
<1>2. ASSUME NEW p \in Procs, NEW d \in Docs,
             Create(p, d) \/ AddVersion(p, d) \/ Update(p, d) \/ Remove(p, d)
      PROVE  Flow
    <2>1. PICK k : Started(p, k, "document")
        BY <1>0, <1>2, CreateStarts, AddVersionStarts, UpdateStarts, RemoveStarts DEF Settings
    <2> QED BY <2>1 DEF Flow, Started
<1>3. ASSUME NEW p \in Procs, Upload(p) \/ CreateSystemDocument(p) \/ Purge(p) \/ DeleteFiles(p) PROVE Flow
    <2>1. faults \subseteq faults'
        BY <1>3 DEF Upload, CreateSystemDocument, Purge, DeleteFiles
    <2> QED BY <1>0, <1>3, <2>1, LearningMoves DEF Flow
<1>4. ASSUME NEW p \in Procs,
             SaveVersion(p) \/ SetCurrent(p) \/ SaveRow(p) \/ SoftDelete(p) \/ Emit(p)
      PROVE  Flow
    <2>1. PICK s : At(p, s) /\ s \notin {"upload", "resume"} /\ (Put(p, Rest(p)) \/ Abort(p))
        BY <1>4 DEF SaveVersion, SetCurrent, SaveRow, SoftDelete, Emit
    <2>2. faults \subseteq faults'
        BY <1>4 DEF SaveVersion, SetCurrent, SaveRow, SoftDelete, Emit
    <2> QED BY <1>0, <2>1, <2>2, MovesOn DEF Flow
<1>5. ASSUME NEW p \in Procs, Die(p) PROVE Flow
    BY <1>5 DEF Die, Abort, Moved, Flow
<1>6. CASE Reindex
    BY <1>6 DEF Reindex, Flow
<1>7. ASSUME NEW w \in Workers, IndexJob(w) PROVE Flow
    <2>1. IndexFails(w) \/ IndexStalls(w) => Again(w)
        BY FailsAgain DEF Typed
    <2> QED BY <1>7, <2>1 DEF IndexJob, Take, IndexDocument, Again, Flow
<1>8. CASE CreateOpening
    BY <1>8 DEF CreateOpening, Flow
<1>9. CASE UpdateOpening
    BY <1>9 DEF UpdateOpening, Flow
<1>10. CASE GrowOld
    BY <1>10 DEF GrowOld, Flow
<1>11. ASSUME NEW p \in Procs, Apply(p) \/ UpdateStatus(p) \/ EraseCandidate(p) \/ Retention(p) PROVE Flow
    <2>1. PICK kind, k : Started(p, k, kind)
        BY <1>0, <1>11, ApplyStarts, UpdateStatusStarts, EraseStarts
    <2> QED BY <2>1 DEF Flow, Started
<1>12. ASSUME NEW p \in Procs, FindCandidate(p) \/ SaveApplication(p) \/ EnqueueScreen(p) \/ SaveStatus(p)
                               \/ DeleteApplications(p) \/ DeleteDocument(p) \/ DeleteCandidate(p)
       PROVE  Flow
    <2>1. PICK s : At(p, s) /\ s \notin {"upload", "resume"} /\ (Put(p, Rest(p)) \/ Abort(p))
        BY <1>12 DEF FindCandidate, SaveApplication, EnqueueScreen, SaveStatus, DeleteApplications,
                    DeleteDocument, DeleteCandidate
    <2>2. faults \subseteq faults'
        BY <1>12 DEF FindCandidate, SaveApplication, EnqueueScreen, SaveStatus, DeleteApplications,
                    DeleteDocument, DeleteCandidate
    <2> QED BY <1>0, <2>1, <2>2, MovesOn DEF Flow
<1>13. ASSUME NEW p \in Procs, Rescreen(p) PROVE Flow
    BY <1>13 DEF Rescreen, MayStart, Flow
<1>14. ASSUME NEW s \in Screeners, ScreeningJob(s) PROVE Flow
    BY <1>14 DEF ScreeningJob, Screen, ScreenFails, ScreenDone, ScreenStalls, Flow
<1> QED BY <1>1, <1>2, <1>3, <1>4, <1>5, <1>6, <1>7, <1>8, <1>9, <1>10, <1>11, <1>12, <1>13, <1>14
        DEF Next, Stored, DocumentsNext, DocumentRequest, RecruitingRequest, Erasure

LEMMA OverlapsStep == ASSUME Requests, Overlaps, Flow PROVE Overlaps'
<1>0. faults \subseteq faults' /\ DOMAIN procs = Procs
    BY DEF Flow, Requests
<1>1. CASE procs' = procs
    BY <1>0, <1>1 DEF Overlaps
<1>2. ASSUME NEW p, NEW k, NEW kind, Started(p, k, kind) PROVE Overlaps'
    <2>1. /\ p \in Procs /\ procs' = [procs EXCEPT ![p] = k] /\ k.kind = kind
          /\ \A q \in Procs : procs[q] # Idle => {kind, procs[q].kind} \in faults'
        BY <1>2 DEF Started
    <2> SUFFICES ASSUME NEW a \in Procs, NEW b \in Procs, a # b, procs'[a] # Idle, procs'[b] # Idle
                 PROVE  {procs'[a].kind, procs'[b].kind} \in faults'
        BY DEF Overlaps
    <2>2. CASE a = p
        <3>1. procs'[a] = k /\ procs'[b] = procs[b]
            BY <1>0, <2>1, <2>2
        <3> QED BY <2>1, <3>1
    <2>3. CASE b = p
        <3>1. procs'[b] = k /\ procs'[a] = procs[a]
            BY <1>0, <2>1, <2>3
        <3>2. {kind, procs[a].kind} = {procs[a].kind, kind}
            OBVIOUS
        <3> QED BY <2>1, <3>1, <3>2
    <2>4. CASE a # p /\ b # p
        <3>1. procs'[b] = procs[b] /\ procs'[a] = procs[a]
            BY <1>0, <2>1, <2>4
        <3> QED BY <1>0, <3>1 DEF Overlaps
    <2> QED BY <2>2, <2>3, <2>4
<1>3. ASSUME NEW p, NEW k, Moved(p, k) PROVE Overlaps'
    <2>1. /\ p \in Procs /\ procs[p] # Idle /\ procs' = [procs EXCEPT ![p] = k]
          /\ k = Idle \/ k.kind = procs[p].kind
        BY <1>3 DEF Moved
    <2>2. \A a \in Procs : procs'[a] # Idle => procs[a] # Idle /\ procs'[a].kind = procs[a].kind
        BY <1>0, <2>1
    <2> QED BY <1>0, <2>2 DEF Overlaps
<1> QED BY <1>1, <1>2, <1>3 DEF Flow

LEMMA AlwaysOverlaps == Spec => []Overlaps
<1>1. Init => Overlaps
    BY DEF Init, DocumentsInit, Overlaps
<1>2. Typed /\ Overlaps /\ [Next]_vars => Overlaps'
    BY Flows, OverlapsStep DEF Typed
<1> QED BY <1>1, <1>2, AlwaysTyped, PTL DEF Spec

-----------------------------------------------------------------------------
(* Screening.  Somebody will still settle the status of an application.    *)
Waiting ==
    \/ queue # <<>>
    \/ \E s \in Screeners : screeners[s].running
    \/ \E p \in Procs : Step(procs[p]) = "screen"
Scored ==
    /\ app.screening = "DONE" => app.scored
    /\ \A p \in Procs : procs[p].kind = "decide" /\ procs[p].row.screening = "DONE" => procs[p].row.scored
Decided ==
    {"decide", "erase"} \notin faults => \A p \in Procs : procs[p].kind = "decide" => Applied
Settling ==
    faults \cap {{"died"}, {"stalled"}, {"decide", "screening"}, {"decide", "erase"}} = {} =>
        (Applied /\ app.screening \in {"PENDING", "RUNNING"} => Waiting)
Screens == Scored /\ Decided /\ Settling

(* A step of one request that leaves the application and the screening     *)
(* jobs alone.                                                             *)
LEMMA WaitingStays ==
    ASSUME DOMAIN procs = Procs, NEW p, Step(procs[p]) # "screen", NEW k, procs' = [procs EXCEPT ![p] = k],
           UNCHANGED <<queue, screeners>>, Waiting
    PROVE  Waiting'
<1>1. CASE queue # <<>> \/ \E s \in Screeners : screeners[s].running
    BY <1>1 DEF Waiting
<1>2. CASE \E q \in Procs : Step(procs[q]) = "screen"
    <2>1. PICK q \in Procs : Step(procs[q]) = "screen"
        BY <1>2
    <2>2. q # p /\ procs'[q] = procs[q]
        BY <2>1
    <2>3. Step(procs'[q]) = "screen"
        BY <2>1, <2>2
    <2> QED BY <2>3 DEF Waiting
<1> QED BY <1>1, <1>2 DEF Waiting

LEMMA ScreensStarted ==
    ASSUME Typed, Screens, NEW p, NEW k, NEW kind, Started(p, k, kind), UNCHANGED <<app, queue, screeners>>,
           kind = "decide" => Applied /\ (k.row.screening = "DONE" => k.row.scored)
    PROVE  Screens'
<1>1. /\ p \in Procs /\ procs[p] = Idle /\ procs' = [procs EXCEPT ![p] = k] /\ k.kind = kind
      /\ faults \subseteq faults' /\ DOMAIN procs = Procs
    BY DEF Started, Typed, Requests
<1>2. \A q \in Procs : procs'[q] = IF q = p THEN k ELSE procs[q]
    BY <1>1
<1>3. Scored' /\ Decided'
    BY <1>1, <1>2 DEF Screens, Scored, Decided, Applied
<1>4. Waiting => Waiting'
    BY <1>1, IdleHas, WaitingStays
<1> QED BY <1>1, <1>3, <1>4 DEF Screens, Settling, Applied

LEMMA ScreensMoved ==
    ASSUME Typed, Screens, Flow, NEW p, NEW k, Moved(p, k), UNCHANGED <<app, queue, screeners>>,
           Step(procs[p]) # "screen" \/ {"died"} \in faults'
    PROVE  Screens'
<1>1. /\ p \in Procs /\ procs' = [procs EXCEPT ![p] = k] /\ k.kind # "decide"
      /\ faults \subseteq faults' /\ DOMAIN procs = Procs
    BY IdleHas DEF Moved, Flow, Typed, Requests
<1>2. \A q \in Procs : procs'[q] = IF q = p THEN k ELSE procs[q]
    BY <1>1
<1>3. Scored' /\ Decided'
    BY <1>1, <1>2 DEF Screens, Scored, Decided, Applied
<1>4. CASE Step(procs[p]) # "screen"
    <2>1. Waiting => Waiting'
        BY <1>1, <1>4, WaitingStays
    <2> QED BY <1>1, <1>3, <2>1 DEF Screens, Settling, Applied
<1>5. CASE {"died"} \in faults'
    BY <1>3, <1>5 DEF Screens, Settling
<1> QED BY <1>4, <1>5

LEMMA ScreensSame ==
    ASSUME Screens, UNCHANGED <<procs, app, queue, screeners>>, faults \subseteq faults'
    PROVE  Screens'
    BY DEF Screens, Scored, Decided, Settling, Waiting, Applied

LEMMA ScreensApplying ==
    ASSUME Typed, Screens, Overlaps, Flow, NEW p \in Procs,
           FindCandidate(p) \/ SaveApplication(p) \/ EnqueueScreen(p) \/ SaveStatus(p)
           \/ DeleteApplications(p) \/ DeleteCandidate(p)
    PROVE  Screens'
<1>0. /\ Requests /\ Len(made) \in Nat /\ DOMAIN procs = Procs /\ faults \subseteq faults' /\ Hiring
      /\ Handler(procs[p], Len(made))
    BY DEF Typed, Shelf, Requests, Flow
<1>1. PICK s : /\ At(p, s) /\ s \notin {"upload", "resume"} /\ (Put(p, Rest(p)) \/ Abort(p))
               /\ FindCandidate(p) => s = "candidate"
               /\ SaveApplication(p) => s = "application"
               /\ EnqueueScreen(p) => s = "screen"
               /\ SaveStatus(p) => s = "decide"
               /\ DeleteApplications(p) => s = "applications"
               /\ DeleteCandidate(p) => s = "erase"
    <2>1. CASE FindCandidate(p)
        BY <2>1 DEF FindCandidate, SaveApplication, EnqueueScreen, SaveStatus, DeleteApplications, DeleteCandidate, At
    <2>2. CASE SaveApplication(p)
        BY <2>2 DEF FindCandidate, SaveApplication, EnqueueScreen, SaveStatus, DeleteApplications, DeleteCandidate, At
    <2>3. CASE EnqueueScreen(p)
        BY <2>3 DEF FindCandidate, SaveApplication, EnqueueScreen, SaveStatus, DeleteApplications, DeleteCandidate, At
    <2>4. CASE SaveStatus(p)
        BY <2>4 DEF FindCandidate, SaveApplication, EnqueueScreen, SaveStatus, DeleteApplications, DeleteCandidate, At
    <2>5. CASE DeleteApplications(p)
        BY <2>5 DEF FindCandidate, SaveApplication, EnqueueScreen, SaveStatus, DeleteApplications, DeleteCandidate, At
    <2>6. CASE DeleteCandidate(p)
        BY <2>6 DEF FindCandidate, SaveApplication, EnqueueScreen, SaveStatus, DeleteApplications, DeleteCandidate, At
    <2> QED BY <2>1, <2>2, <2>3, <2>4, <2>5, <2>6
<1>2. PICK k : Moved(p, k) /\ (k = Idle \/ Went(p, k, Rest(p), s))
    BY <1>0, <1>1, MovesOn
<1>3. Step(procs[p]) = s
    BY <1>1 DEF At, Step
<1>4. procs' = [procs EXCEPT ![p] = k] /\ k.kind # "decide" /\ procs[p] # Idle
    BY <1>2, IdleHas DEF Moved
<1>5. \A q \in Procs : procs'[q] = IF q = p THEN k ELSE procs[q]
    BY <1>0, <1>4
<1>6. CASE FindCandidate(p)
    <2>1. UNCHANGED <<app, queue, screeners>> /\ s = "candidate"
        BY <1>1, <1>6 DEF FindCandidate, screening
    <2> QED BY <1>2, <1>3, <2>1, ScreensMoved
<1>7. CASE SaveApplication(p)
    <2>1. UNCHANGED <<queue, screeners>> /\ s = "application" /\ faults' = faults
        BY <1>1, <1>7 DEF SaveApplication, screening
    <2>2. CASE app' = app
        BY <1>2, <1>3, <2>1, <2>2, ScreensMoved
    <2>3. CASE app' # app
        <3>1. Put(p, Rest(p)) /\ app' = [NoApp EXCEPT !.status = "APPLIED", !.resume = procs[p].doc]
            BY <1>7, <2>3 DEF SaveApplication
        <3>2. app'.status = "APPLIED" /\ app'.screening = "PENDING" /\ Applied'
            BY <3>1 DEF NoApp, Applied
        <3>3. PICK j : Went(p, j, Rest(p), s)
            BY <1>0, <1>1, <3>1, GoesOnFine
        <3>4. procs'[p] = j /\ Step(j) = "screen"
            BY <1>0, <2>1, <3>3 DEF Went, Leads
        <3>5. Waiting'
            BY <3>4 DEF Waiting
        <3> QED BY <1>4, <1>5, <2>1, <3>2, <3>5 DEF Screens, Scored, Decided, Settling
    <2> QED BY <2>2, <2>3
<1>8. CASE EnqueueScreen(p)
    <2>1. app' = app /\ queue' = Append(queue, [attempt |-> 0, stalled |-> 0]) /\ queue \in Seq(Entry)
        BY <1>0, <1>8 DEF EnqueueScreen, Enqueue, recruiting, Hiring
    <2>2. queue' # <<>>
        BY <2>1
    <2> QED BY <1>0, <1>4, <1>5, <2>1, <2>2 DEF Screens, Scored, Decided, Settling, Applied, Waiting
<1>9. CASE SaveStatus(p)
    <2>0. s = "decide" /\ UNCHANGED <<queue, screeners>>
        BY <1>1, <1>9 DEF SaveStatus, screening
    <2>1. CASE app' = app
        BY <1>2, <1>3, <2>0, <2>1, ScreensMoved
    <2>2. CASE app' # app
        <3>1. /\ app' = procs[p].row
              /\ app.screening # app'.screening => {"decide", "screening"} \in faults'
            BY <1>9, <2>2 DEF SaveStatus
        <3>2. procs[p].kind = "decide"
            BY <1>0, <1>1, <2>0, TailOf DEF Handler, Leads, At
        <3>3. app'.screening = "DONE" => app'.scored
            BY <3>1, <3>2 DEF Screens, Scored
        <3>4. Scored'
            BY <1>4, <1>5, <3>3 DEF Screens, Scored
        <3>5. Applied'
            <4>1. app'.status \in AppStatus
                BY <1>0, <3>1, <3>2 DEF Handler
            <4> QED BY <4>1, BlankRow DEF Applied, AppStatus
        <3>6. Decided'
            BY <3>5 DEF Decided
        <3>7. Settling'
            <4> SUFFICES ASSUME faults' \cap {{"died"}, {"stalled"}, {"decide", "screening"}, {"decide", "erase"}} = {},
                                app'.screening \in {"PENDING", "RUNNING"}
                         PROVE  Waiting'
                BY DEF Settling
            <4>1. app.screening = app'.screening
                BY <3>1
            <4>2. Applied
                BY <1>0, <3>2 DEF Screens, Decided
            <4>3. Waiting
                BY <1>0, <4>1, <4>2 DEF Screens, Settling
            <4> QED BY <1>0, <1>3, <1>4, <2>0, <4>3, WaitingStays
        <3> QED BY <3>4, <3>6, <3>7 DEF Screens
    <2> QED BY <2>1, <2>2
<1>10. CASE DeleteApplications(p) \/ DeleteCandidate(p)
    <2>1. app' = NoApp /\ ~Applied' /\ faults' = faults /\ app'.screening = "PENDING"
        BY <1>10 DEF DeleteApplications, DeleteCandidate, Applied, NoApp
    <2>2. procs[p].kind = "erase"
        BY <1>0, <1>1, <1>10, TailOf DEF Handler, Leads, At
    <2>3. Scored' /\ Settling'
        BY <1>4, <1>5, <2>1 DEF Screens, Scored, Settling
    <2>4. Decided'
        <3> SUFFICES ASSUME {"decide", "erase"} \notin faults, NEW q \in Procs, procs'[q].kind = "decide"
                     PROVE  FALSE
            BY <2>1 DEF Decided
        <3>1. q # p /\ procs[q].kind = "decide" /\ procs[q] # Idle
            BY <1>4, <1>5, IdleHas
        <3>2. {procs[q].kind, procs[p].kind} \in faults
            BY <1>4, <3>1 DEF Overlaps
        <3> QED BY <2>2, <3>1, <3>2
    <2> QED BY <2>3, <2>4 DEF Screens
<1> QED BY <1>6, <1>7, <1>8, <1>9, <1>10

LEMMA ScreensJobs ==
    ASSUME Typed, Screens, NEW s \in Screeners, ScreeningJob(s)
    PROVE  Screens'
<1>0. app \in Application /\ queue \in Seq(Entry) /\ screeners \in [Screeners -> Slot]
    BY DEF Typed, Hiring
<1>1. procs' = procs
    BY DEF ScreeningJob, Screen, ScreenFails, ScreenDone, ScreenStalls
<1>2. CASE Screen(s)
    <2>0. faults' = faults
        BY <1>2 DEF Screen
    <2>1. CASE ~Applied
        BY <1>1, <1>2, <2>0, <2>1 DEF Screen, Screens, Scored, Decided, Settling, Applied
    <2>2. CASE Applied
        <3>1. /\ app' = [app EXCEPT !.screening = "RUNNING", !.old = FALSE]
              /\ \E a, b, f : screeners' =
                     [screeners EXCEPT ![s] = [running |-> TRUE, attempt |-> a, stalled |-> b, file |-> f]]
            BY <1>2, <2>2 DEF Screen
        <3>2. screeners'[s].running
            BY <1>0, <3>1
        <3>3. app'.screening = "RUNNING" /\ app'.status = app.status
            BY <1>0, <3>1 DEF Application
        <3>4. Applied'
            <4>1. app.status \in AppStatus
                BY <2>2 DEF Typed, Hiring
            <4> QED BY <3>3, <4>1, BlankRow DEF Applied, AppStatus
        <3> QED BY <1>1, <2>0, <3>2, <3>3, <3>4 DEF Screens, Scored, Decided, Settling, Waiting
    <2> QED BY <2>1, <2>2
<1>3. CASE ScreenFails(s) \/ ScreenDone(s)
    <2>0. faults' = faults
        BY <1>3 DEF ScreenFails, ScreenDone
    <2>1. CASE ~Applied
        BY <1>1, <1>3, <2>0, <2>1 DEF ScreenFails, ScreenDone, Screens, Scored, Decided, Settling, Applied
    <2>2. CASE Applied
        <3>1. app.status \in AppStatus
            BY <2>2 DEF Typed, Hiring
        <3>2. /\ app'.screening \in {"DONE", "FAILED"} /\ app'.status = app.status
              /\ app'.screening = "DONE" => app'.scored
            BY <1>0, <1>3, <2>2 DEF ScreenFails, ScreenDone, Application
        <3>3. Applied'
            BY <3>1, <3>2, BlankRow DEF Applied, AppStatus
        <3> QED BY <1>1, <2>0, <3>2, <3>3 DEF Screens, Scored, Decided, Settling
    <2> QED BY <2>1, <2>2
<1>4. CASE ScreenStalls(s)
    <2>1. app' = app /\ faults \subseteq faults'
        BY <1>4 DEF ScreenStalls, recruiting
    <2>2. Scored' /\ Decided'
        BY <1>1, <2>1 DEF Screens, Scored, Decided, Applied
    <2>3. CASE {"stalled"} \in faults'
        BY <2>2, <2>3 DEF Screens, Settling
    <2>4. CASE {"stalled"} \notin faults'
        <3> DEFINE e == [attempt |-> screeners[s].attempt - 1, stalled |-> screeners[s].stalled + 1]
        <3>1. queue' = Append(queue, e)
            BY <1>4, <2>4 DEF ScreenStalls, Requeue
        <3> HIDE DEF e
        <3>2. queue' # <<>>
            BY <1>0, <3>1
        <3> QED BY <2>2, <3>2 DEF Screens, Settling, Waiting
    <2> QED BY <2>3, <2>4
<1> QED BY <1>2, <1>3, <1>4 DEF ScreeningJob

LEMMA ScreensNext == Typed /\ Overlaps /\ Screens /\ [Next]_vars => Screens'
<1> SUFFICES ASSUME Typed, Overlaps, Screens, [Next]_vars PROVE Screens'
    OBVIOUS
<1>0. /\ Shelf /\ Hiring /\ Requests /\ Settings /\ Len(made) \in Nat
      /\ Flow /\ faults \subseteq faults'
    BY Flows DEF Typed, Shelf, Flow
<1>1. CASE UNCHANGED vars
    BY <1>0, <1>1, ScreensSame DEF vars, recruiting, screening
<1>2. CASE Stored(DocumentsNext)
    <2>0. UNCHANGED <<app, queue, screeners>>
        BY <1>2 DEF Stored, recruiting, screening
    <2>1. ASSUME NEW p \in Procs, NEW d \in Docs,
                 Create(p, d) \/ AddVersion(p, d) \/ Update(p, d) \/ Remove(p, d)
          PROVE  Screens'
        <3>1. PICK k : Started(p, k, "document")
            BY <1>0, <2>1, CreateStarts, AddVersionStarts, UpdateStarts, RemoveStarts DEF Settings
        <3> QED BY <2>0, <3>1, ScreensStarted
    <2>2. ASSUME NEW p \in Procs, Upload(p) PROVE Screens'
        BY <1>0, <2>0, <2>2, LearningMoves, ScreensMoved
    <2>3. ASSUME NEW p \in Procs, SaveVersion(p) \/ SetCurrent(p) \/ SaveRow(p) \/ SoftDelete(p) \/ Emit(p)
          PROVE  Screens'
        <3>1. PICK s : /\ At(p, s) /\ s \notin {"upload", "resume", "screen"}
                       /\ Put(p, Rest(p)) \/ Abort(p)
            BY <2>3 DEF SaveVersion, SetCurrent, SaveRow, SoftDelete, Emit
        <3>2. PICK k : Moved(p, k)
            BY <1>0, <3>1, MovesOn
        <3>3. Step(procs[p]) # "screen"
            BY <3>1 DEF At, Step
        <3> QED BY <1>0, <2>0, <3>2, <3>3, ScreensMoved
    <2>4. CASE Reindex \/ \E w \in Workers : IndexJob(w)
        <3>1. procs' = procs
            BY <2>4, FailsAgain DEF Typed, Again, Reindex, IndexJob, Take, IndexDocument
        <3> QED BY <1>0, <2>0, <3>1, ScreensSame
    <2> QED BY <1>2, <2>1, <2>2, <2>3, <2>4 DEF Stored, DocumentsNext, DocumentRequest
<1>3. CASE Stored(\E p \in Procs : Die(p))
    <2>1. PICK p \in Procs : Die(p)
        BY <1>3 DEF Stored
    <2>2. UNCHANGED <<app, queue, screeners>> /\ {"died"} \in faults' /\ Moved(p, Idle)
        BY <1>3, <2>1 DEF Stored, recruiting, screening, Die, Abort, Moved
    <2> HIDE DEF Idle
    <2> QED BY <1>0, <2>2, ScreensMoved
<1>4. CASE CreateOpening \/ UpdateOpening
    <2>1. UNCHANGED <<procs, app, queue, screeners>>
        BY <1>4 DEF CreateOpening, UpdateOpening, screening
    <2> QED BY <1>0, <2>1, ScreensSame
<1>5. CASE GrowOld
    <2>1. UNCHANGED <<procs, faults, queue, screeners>> /\ Applied /\ app' = [app EXCEPT !.old = TRUE]
        BY <1>5 DEF GrowOld, screening
    <2>2. app'.screening = app.screening /\ app'.scored = app.scored /\ app'.status = app.status
        BY <1>0, <2>1 DEF Hiring, Application
    <2>3. Applied'
        <3>1. app.status \in AppStatus
            BY <1>0, <2>1 DEF Hiring
        <3> QED BY <2>2, <3>1, BlankRow DEF Applied, AppStatus
    <2> QED BY <2>1, <2>2, <2>3 DEF Screens, Scored, Decided, Settling, Waiting
<1>6. ASSUME NEW p \in Procs, RecruitingRequest(p) \/ Erasure(p) PROVE Screens'
    <2>1. CASE Apply(p) \/ EraseCandidate(p) \/ Retention(p)
        <3>1. PICK kind, k : Started(p, k, kind) /\ kind # "decide"
            BY <1>0, <2>1, ApplyStarts, EraseStarts
        <3>2. UNCHANGED <<app, queue, screeners>>
            BY <2>1 DEF Apply, EraseCandidate, Retention, recruiting, screening
        <3> QED BY <3>1, <3>2, ScreensStarted
    <2>2. CASE UpdateStatus(p)
        <3>1. PICK k : /\ Started(p, k, "decide") /\ k.row.screening = app.screening /\ k.row.scored = app.scored
            BY <1>0, <2>2, UpdateStatusStarts
        <3>2. UNCHANGED <<app, queue, screeners>> /\ Applied
            BY <2>2 DEF UpdateStatus, recruiting, screening
        <3>3. k.row.screening = "DONE" => k.row.scored
            BY <3>1 DEF Screens, Scored
        <3> QED BY <3>1, <3>2, <3>3, ScreensStarted
    <2>3. CASE FindCandidate(p) \/ SaveApplication(p) \/ EnqueueScreen(p) \/ SaveStatus(p)
               \/ DeleteApplications(p) \/ DeleteCandidate(p)
        BY <1>0, <2>3, ScreensApplying
    <2>4. CASE CreateSystemDocument(p) \/ Purge(p) \/ DeleteFiles(p)
        <3>1. UNCHANGED <<app, queue, screeners>>
            BY <2>4 DEF CreateSystemDocument, Purge, DeleteFiles, recruiting, screening
        <3> QED BY <1>0, <2>4, <3>1, LearningMoves, ScreensMoved
    <2>5. CASE Rescreen(p)
        <3>1. /\ UNCHANGED <<procs, app>> /\ queue \in Seq(Entry)
              /\ queue' = Append(queue, [attempt |-> 0, stalled |-> 0])
            BY <1>0, <2>5 DEF Rescreen, Enqueue, recruiting, Hiring
        <3>2. queue' # <<>>
            BY <3>1
        <3> QED BY <1>0, <3>1, <3>2 DEF Screens, Scored, Decided, Settling, Applied, Waiting
    <2>6. CASE DeleteDocument(p)
        <3>1. PICK s : /\ At(p, s) /\ s \notin {"upload", "resume", "screen"}
                       /\ Put(p, Rest(p)) \/ Abort(p)
            BY <2>6 DEF DeleteDocument
        <3>2. PICK k : Moved(p, k)
            BY <1>0, <3>1, MovesOn
        <3>3. Step(procs[p]) # "screen"
            BY <3>1 DEF At, Step
        <3>4. UNCHANGED <<app, queue, screeners>>
            BY <2>6 DEF DeleteDocument, recruiting, screening
        <3> QED BY <1>0, <3>2, <3>3, <3>4, ScreensMoved
    <2> QED BY <1>6, <2>1, <2>2, <2>3, <2>4, <2>5, <2>6 DEF RecruitingRequest, Erasure
<1>7. ASSUME NEW s \in Screeners, ScreeningJob(s) PROVE Screens'
    BY <1>7, ScreensJobs
<1> QED BY <1>1, <1>2, <1>3, <1>4, <1>5, <1>6, <1>7 DEF Next

(* Every application ends up screened or marked as failed, however many    *)
(* screenings are enqueued, retried or stall beside each other, and with   *)
(* any number of requests in flight: an unsettled status always has a job, *)
(* a worker or a request that is about to enqueue one.                     *)
THEOREM ScreeningsSettle == Spec => []ScreeningSettles
<1>1. Init => Screens
    <2> SUFFICES ASSUME Init PROVE Screens
        OBVIOUS
    <2>1. app = NoApp /\ \A p \in Procs : procs[p].kind = "none"
        BY IdleHas DEF Init, DocumentsInit
    <2>2. NoApp.screening = "PENDING" /\ ~Applied
        BY <2>1 DEF NoApp, Applied
    <2> QED BY <2>1, <2>2 DEF Screens, Scored, Decided, Settling
<1>2. Typed /\ Screens => ScreeningSettles
    <2> SUFFICES ASSUME Typed, Screens, AllQuiet, Applied,
                        faults \cap {{"died"}, {"stalled"}, {"decide", "screening"}, {"decide", "erase"}} = {}
                 PROVE  app.screening \in {"DONE", "FAILED"} /\ (app.screening = "DONE" => app.scored)
        BY DEF ScreeningSettles
    <2>1. ~Waiting
        BY IdleHas DEF AllQuiet, Quiet, Waiting
    <2>2. app.screening \in {"PENDING", "RUNNING", "DONE", "FAILED"}
        BY DEF Typed, Hiring, Application
    <2> QED BY <2>1, <2>2 DEF Screens, Settling, Scored
<1> QED BY <1>1, <1>2, ScreensNext, AlwaysTyped, AlwaysOverlaps, PTL DEF Spec

-----------------------------------------------------------------------------
(* Documents exist from their creation to their deletion: a row is never   *)
(* blank, and versions and chunks go with it.                              *)
Rows ==
    /\ \A d \in Docs : d \notin created => docs[d] = NoDoc
    /\ \A d \in Docs : Exists(d) => docs[d].category # "NONE"
    /\ \A d \in Docs : ~Exists(d) => chunks[d] = {} /\ \A n \in Keys : versions[d][n] = 0
Saves(h) == Step(h) = "save" => h.row.category # "NONE" /\ h.doc \in created
Catalogue == Rows /\ \A p \in Procs : Saves(procs[p])

LEMMA SameRows == ASSUME Rows, UNCHANGED <<docs, versions, chunks, created>> PROVE Rows'
    BY DEF Rows, Exists

LEMMA SavesStay ==
    ASSUME DOMAIN procs = Procs, \A q \in Procs : Saves(procs[q]), created \subseteq created',
           NEW p, NEW k, procs' = [procs EXCEPT ![p] = k],
           Step(k) = "save" => k.row.category # "NONE" /\ k.doc \in created'
    PROVE  \A q \in Procs : Saves(procs[q])'
<1> SUFFICES ASSUME NEW q \in Procs PROVE Saves(procs[q])'
    OBVIOUS
<1>1. CASE q = p
    <2>1. procs'[q] = k
        BY <1>1
    <2> QED BY <2>1 DEF Saves
<1>2. CASE q # p
    <2>1. procs'[q] = procs[q] /\ Saves(procs[q])
        BY <1>2
    <2> QED BY <2>1 DEF Saves
<1> QED BY <1>1, <1>2

LEMMA BlankIs == NoDoc.category = "NONE" /\ \A row : row.category # "NONE" => row # NoDoc
    BY DEF NoDoc

(* One row is written, and it is not blank.                                *)
LEMMA RowsWritten ==
    ASSUME docs \in [Docs -> Document], Rows, NEW d \in Docs, NEW row, docs' = [docs EXCEPT ![d] = row],
           row.category # "NONE", created \subseteq created', d \in created', UNCHANGED <<versions, chunks>>
    PROVE  Rows'
<1>1. \A x \in Docs : docs'[x] = IF x = d THEN row ELSE docs[x]
    OBVIOUS
<1>2. \A x \in Docs : Exists(x)' <=> x = d \/ Exists(x)
    BY <1>1, BlankIs DEF Exists
<1> QED BY <1>1, <1>2 DEF Rows

LEMMA CatalogueCreate ==
    ASSUME Typed, Catalogue, NEW p \in Procs, NEW d \in Docs, Create(p, d)
    PROVE  Catalogue'
<1>0. docs \in [Docs -> Document] /\ DOMAIN procs = Procs
    BY DEF Typed, Shelf, Requests
<1>1. PICK cat \in scenario.categories, vis \in scenario.visibilities,
           owner \in scenario.owners, actor \in scenario.owners \cup {Nobody} :
        docs' = [docs EXCEPT ![d] = [NoDoc EXCEPT !.owner = owner, !.category = cat,
                                                  !.visibility = vis, !.uploader = actor]]
    BY DEF Create
<1> DEFINE row == [NoDoc EXCEPT !.owner = owner, !.category = cat, !.visibility = vis, !.uploader = actor]
<1>2. row.category # "NONE"
    <2>1. cat \in Categories
        BY ScenariosAssumption DEF Typed, Settings
    <2> QED BY <2>1 DEF Categories, NoDoc
<1> HIDE DEF row
<1>3. Rows'
    <2>1. docs' = [docs EXCEPT ![d] = row] /\ created' = created \cup {d} /\ UNCHANGED <<versions, chunks>>
        BY <1>1 DEF row, Create
    <2> QED BY <1>0, <1>2, <2>1, RowsWritten DEF Catalogue
<1>4. PICK k : Started(p, k, "document") /\ Step(k) = "upload"
    BY CreateStarts DEF Typed
<1>5. \A q \in Procs : Saves(procs[q])'
    BY <1>0, <1>4, SavesStay DEF Catalogue, Started, Create
<1> QED BY <1>3, <1>5 DEF Catalogue

LEMMA CatalogueResume ==
    ASSUME Typed, Catalogue, NEW p \in Procs, CreateSystemDocument(p)
    PROVE  Catalogue'
<1>0. /\ docs \in [Docs -> Document] /\ DOMAIN procs = Procs /\ Requests /\ Len(made) \in Nat
    BY DEF Typed, Shelf, Requests
<1> DEFINE row == [NoDoc EXCEPT !.category = "RESUME", !.visibility = "RESTRICTED"]
<1>1. PICK d \in Docs : /\ created' = created \cup {d} /\ docs' = [docs EXCEPT ![d] = row]
                        /\ Put(p, [Rest(p) EXCEPT !.doc = d])
    BY DEF CreateSystemDocument
<1>2. row.category # "NONE"
    BY DEF NoDoc
<1> HIDE DEF row
<1>3. Rows'
    <2>1. UNCHANGED <<versions, chunks>>
        BY DEF CreateSystemDocument
    <2> QED BY <1>0, <1>1, <1>2, <2>1, RowsWritten DEF Catalogue
<1>4. PICK k : procs' = [procs EXCEPT ![p] = k] /\ Step(k) = "upload"
    BY <1>0, <1>1, Resumes DEF Requests, CreateSystemDocument
<1>5. \A q \in Procs : Saves(procs[q])'
    BY <1>0, <1>1, <1>4, SavesStay DEF Catalogue
<1> QED BY <1>3, <1>5 DEF Catalogue

LEMMA CatalogueMoved ==
    ASSUME Typed, Catalogue, NEW p, NEW k, Moved(p, k), created' = created, Rows'
    PROVE  Catalogue'
<1>1. DOMAIN procs = Procs /\ procs' = [procs EXCEPT ![p] = k] /\ Step(k) # "save"
    BY IdleHas DEF Typed, Requests, Moved
<1>2. \A q \in Procs : Saves(procs[q])'
    BY <1>1, SavesStay DEF Catalogue
<1> QED BY <1>2 DEF Catalogue

LEMMA RowsSteps ==
    ASSUME Typed, Catalogue, NEW p \in Procs,
           SaveVersion(p) \/ SetCurrent(p) \/ SaveRow(p) \/ SoftDelete(p)
    PROVE  Rows' /\ created' = created
<1>0. /\ docs \in [Docs -> Document] /\ Handler(procs[p], Len(made)) /\ Rows
      /\ versions \in [Docs -> DocumentVersion] /\ Saves(procs[p])
    BY DEF Typed, Shelf, Requests, Catalogue
<1>1. created' = created /\ chunks' = chunks
    BY DEF SaveVersion, SetCurrent, SaveRow, SoftDelete
<1> DEFINE d == procs[p].doc
<1>2. d \in Docs
    <2>1. Step(procs[p]) \in DocSteps
        BY DEF SaveVersion, SetCurrent, SaveRow, SoftDelete, At, Step, DocSteps
    <2> QED BY <1>0, <2>1 DEF Handler
<1>3. CASE SaveVersion(p)
    <2>1. docs' = docs /\ \A x \in Docs : ~Exists(x) => versions'[x] = versions[x]
        BY <1>0, <1>2, <1>3 DEF SaveVersion
    <2>2. Rows'
        BY <1>0, <1>1, <2>1 DEF Rows, Exists
    <2> QED BY <1>1, <2>2
<1>4. CASE SetCurrent(p) \/ SaveRow(p) \/ SoftDelete(p)
    <2>1. versions' = versions
        BY <1>4 DEF SetCurrent, SaveRow, SoftDelete
    <2>2. CASE docs' = docs
        BY <1>0, <1>1, <2>1, <2>2, SameRows
    <2>3. CASE docs' # docs
        <3>1. \E row : docs' = [docs EXCEPT ![d] = row] /\ row.category # "NONE" /\ d \in created
            <4>1. CASE SaveRow(p)
                <5>1. Step(procs[p]) = "save" /\ docs' = [docs EXCEPT ![d] = procs[p].row]
                    BY <2>3, <4>1 DEF SaveRow, At, Step
                <5> QED BY <1>0, <5>1 DEF Saves
            <4>2. CASE SetCurrent(p)
                <5> DEFINE row == [docs[d] EXCEPT !.current = procs[p].file, !.indexed = FALSE]
                <5>1. Exists(d) /\ docs' = [docs EXCEPT ![d] = row]
                    BY <1>0, <1>2, <2>3, <4>2 DEF SetCurrent
                <5>2. row.category = docs[d].category
                    BY <1>0, <1>2 DEF Document
                <5> QED BY <1>0, <1>2, <5>1, <5>2 DEF Rows, Exists
            <4>3. CASE SoftDelete(p)
                <5> DEFINE row == [docs[d] EXCEPT !.deleted = TRUE]
                <5>1. Exists(d) /\ docs' = [docs EXCEPT ![d] = row]
                    BY <1>0, <1>2, <2>3, <4>3 DEF SoftDelete
                <5>2. row.category = docs[d].category
                    BY <1>0, <1>2 DEF Document
                <5> QED BY <1>0, <1>2, <5>1, <5>2 DEF Rows, Exists
            <4> QED BY <1>4, <4>1, <4>2, <4>3
        <3> HIDE DEF d
        <3> QED BY <1>0, <1>1, <1>2, <2>1, <3>1, RowsWritten
    <2> QED BY <1>1, <2>2, <2>3
<1> QED BY <1>3, <1>4

LEMMA RowsIndexed ==
    ASSUME Typed, Catalogue, NEW w \in Workers, IndexJob(w)
    PROVE  Catalogue'
<1>0. /\ docs \in [Docs -> Document] /\ chunks \in [Docs -> SUBSET Keys] /\ Rows
      /\ workers[w].job.doc \in Docs \cup {Nobody}
    BY JobIs, IdlingTyped DEF Typed, Shelf, Indexing, Catalogue
<1>a. IndexFails(w) \/ IndexStalls(w) => UNCHANGED <<library, procs>>
    BY FailsAgain DEF Typed, Again
<1>1. UNCHANGED <<procs, created, versions>>
    BY <1>a DEF IndexJob, Take, IndexDocument, library
<1>2. Rows'
    <2>1. CASE UNCHANGED <<docs, chunks>>
        BY <1>0, <1>1, <2>1, SameRows
    <2>2. CASE ~UNCHANGED <<docs, chunks>>
        <3> DEFINE d == workers[w].job.doc
                   key == workers[w].file
        <3>1. IndexDocument(w) /\ d # Nobody
            BY <1>a, <2>2 DEF IndexJob, Take, IndexDocument, library
        <3>2. d \in Docs
            BY <1>0, <3>1
        <3>3. CASE docs' = docs
            <4>1. chunks' = [chunks EXCEPT ![d] = {}] \/ (Exists(d) /\ chunks' = [chunks EXCEPT ![d] = {key}])
                BY <2>2, <3>1, <3>3 DEF IndexDocument
            <4> HIDE DEF d, key
            <4>2. \A x \in Docs : ~Exists(x) => chunks'[x] = chunks[x] \/ chunks'[x] = {}
                BY <1>0, <3>2, <4>1
            <4> QED BY <1>0, <1>1, <3>3, <4>2 DEF Rows, Exists
        <3>4. CASE docs' # docs
            <4> DEFINE row == [docs[d] EXCEPT !.indexed = TRUE]
            <4>1. Exists(d) /\ docs' = [docs EXCEPT ![d].indexed = TRUE] /\ chunks' = [chunks EXCEPT ![d] = {key}]
                BY <3>1, <3>4 DEF IndexDocument
            <4>2. row.category = docs[d].category /\ docs' = [docs EXCEPT ![d] = row]
                BY <1>0, <3>2, <4>1 DEF Document
            <4>3. row.category # "NONE"
                BY <1>0, <3>2, <4>1, <4>2 DEF Rows
            <4> HIDE DEF d, key, row
            <4>4. \A x \in Docs : docs'[x] = IF x = d THEN row ELSE docs[x]
                BY <1>0, <3>2, <4>2
            <4>5. \A x \in Docs : Exists(x)' <=> Exists(x)
                BY <4>1, <4>3, <4>4, BlankIs DEF Exists
            <4>6. \A x \in Docs : ~Exists(x) => chunks'[x] = chunks[x]
                BY <1>0, <3>2, <4>1
            <4> QED BY <1>0, <1>1, <4>1, <4>3, <4>4, <4>5, <4>6 DEF Rows, Exists
        <3> QED BY <3>3, <3>4
    <2> QED BY <2>1, <2>2
<1> QED BY <1>1, <1>2 DEF Catalogue, Saves

LEMMA RowsDeleted ==
    ASSUME Typed, Catalogue, NEW p \in Procs, DeleteDocument(p)
    PROVE  Rows' /\ created' = created
<1>0. /\ docs \in [Docs -> Document] /\ chunks \in [Docs -> SUBSET Keys] /\ Rows
      /\ versions \in [Docs -> DocumentVersion]
    BY DEF Typed, Shelf, Catalogue
<1> DEFINE d == procs[p].doc
           blank == [n \in Keys |-> 0]
<1>1. created' = created
    BY DEF DeleteDocument
<1>2. CASE UNCHANGED <<docs, versions, chunks>>
    BY <1>0, <1>1, <1>2, SameRows
<1>3. CASE ~UNCHANGED <<docs, versions, chunks>>
    <2>1. /\ docs' = [docs EXCEPT ![d] = NoDoc] /\ versions' = [versions EXCEPT ![d] = blank]
          /\ chunks' = [chunks EXCEPT ![d] = {}]
        BY <1>3 DEF DeleteDocument
    <2>2. \A n \in Keys : blank[n] = 0
        OBVIOUS
    <2> HIDE DEF d, blank
    <2>3. \A x \in Docs : \/ docs'[x] = docs[x] /\ versions'[x] = versions[x] /\ chunks'[x] = chunks[x]
                          \/ docs'[x] = NoDoc /\ versions'[x] = blank /\ chunks'[x] = {}
        <3> SUFFICES ASSUME NEW x \in Docs
                     PROVE  \/ docs'[x] = docs[x] /\ versions'[x] = versions[x] /\ chunks'[x] = chunks[x]
                            \/ docs'[x] = NoDoc /\ versions'[x] = blank /\ chunks'[x] = {}
            OBVIOUS
        <3>1. CASE x = d
            <4>1. docs'[x] = NoDoc
                BY <1>0, <2>1, <3>1
            <4>2. versions'[x] = blank /\ chunks'[x] = {}
                BY <1>0, <2>1, <3>1
            <4> QED BY <4>1, <4>2
        <3>2. CASE x # d
            BY <1>0, <2>1, <3>2
        <3> QED BY <3>1, <3>2
    <2> QED BY <1>0, <1>1, <2>2, <2>3 DEF Rows, Exists
<1> QED BY <1>1, <1>2, <1>3

LEMMA CatalogueNext == Typed /\ Catalogue /\ [Next]_vars => Catalogue'
<1> SUFFICES ASSUME Typed, Catalogue, [Next]_vars PROVE Catalogue'
    OBVIOUS
<1>0. /\ Shelf /\ Hiring /\ Requests /\ Settings /\ Len(made) \in Nat /\ Rows
      /\ DOMAIN procs = Procs /\ \A q \in Procs : Saves(procs[q])
    BY DEF Typed, Shelf, Requests, Catalogue
<1>a. ASSUME UNCHANGED <<procs, docs, versions, chunks, created>> PROVE Catalogue'
    BY <1>0, <1>a, SameRows DEF Catalogue, Saves
<1>b. ASSUME NEW p, NEW k, NEW kind, Started(p, k, kind), Step(k) # "save",
             UNCHANGED <<docs, versions, chunks, created>>
      PROVE  Catalogue'
    <2>1. procs' = [procs EXCEPT ![p] = k]
        BY <1>b DEF Started
    <2>2. \A q \in Procs : Saves(procs[q])'
        BY <1>0, <1>b, <2>1, SavesStay
    <2> QED BY <1>0, <1>b, <2>2, SameRows DEF Catalogue
<1>c. ASSUME NEW p \in Procs, NEW s, At(p, s), s \notin {"upload", "resume"}, Put(p, Rest(p)) \/ Abort(p),
             Rows', created' = created
      PROVE  Catalogue'
    BY <1>0, <1>c, MovesOn, CatalogueMoved
<1>1. CASE UNCHANGED vars
    BY <1>1, <1>a DEF vars, library
<1>2. ASSUME NEW p \in Procs, NEW d \in Docs, Create(p, d) PROVE Catalogue'
    BY <1>2, CatalogueCreate
<1>3. ASSUME NEW p \in Procs, NEW d \in Docs, AddVersion(p, d) \/ Remove(p, d) PROVE Catalogue'
    <2>1. PICK k : Started(p, k, "document") /\ Step(k) # "save"
        BY <1>0, <1>3, AddVersionStarts, RemoveStarts
    <2> QED BY <1>3, <1>b, <2>1 DEF AddVersion, Remove, library
<1>4. ASSUME NEW p \in Procs, NEW d \in Docs, Update(p, d) PROVE Catalogue'
    <2>1. PICK k : Started(p, k, "document") /\ k.doc = d /\ k.row.category # "NONE"
        <3>1. PICK k : Started(p, k, "document") /\ k.doc = d
            BY <1>0, <1>4, UpdateStarts DEF Settings
        <3>2. PICK cat \in scenario.categories \cup {docs[d].category},
                   vis \in scenario.visibilities \cup {docs[d].visibility} :
              Put(p, [Begin("document", <<"save", "emit">>) EXCEPT !.doc = d, !.seen = Numbers(d),
                       !.row = [docs[d] EXCEPT !.category = cat, !.visibility = vis, !.indexed = FALSE]])
            BY <1>4 DEF Update
        <3> DEFINE row == [docs[d] EXCEPT !.category = cat, !.visibility = vis, !.indexed = FALSE]
                   plan == <<"save", "emit">>
                   j == [Begin("document", plan) EXCEPT !.doc = d, !.seen = Numbers(d), !.row = row]
        <3>3. cat # "NONE"
            BY <1>0, <1>4, ScenariosAssumption DEF Rows, Update, Found, Settings, Categories
        <3>4. row.category = cat
            BY <1>0 DEF Shelf, Document
        <3>5. Put(p, j) /\ plan # <<>>
            BY <3>2
        <3> HIDE DEF row, plan
        <3>6. j.row = row /\ j.todo = plan
            BY Beginning DEF Fields
        <3> HIDE DEF j
        <3>7. procs' = [procs EXCEPT ![p] = j]
            BY <3>5, <3>6 DEF Put
        <3>8. procs'[p] = j /\ procs'[p] = k
            BY <1>0, <3>1, <3>7 DEF Started
        <3> QED BY <3>1, <3>3, <3>4, <3>6, <3>8
    <2>2. d \in created
        BY <1>0, <1>4 DEF Rows, Update, Found, Exists
    <2>3. procs' = [procs EXCEPT ![p] = k] /\ UNCHANGED <<docs, versions, chunks, created>>
        BY <1>4, <2>1 DEF Started, Update, library
    <2>4. \A q \in Procs : Saves(procs[q])'
        BY <1>0, <2>1, <2>2, <2>3, SavesStay
    <2> QED BY <1>0, <2>3, <2>4, SameRows DEF Catalogue
<1>5. ASSUME NEW p \in Procs, Upload(p) \/ Purge(p) \/ DeleteFiles(p) PROVE Catalogue'
    <2>1. UNCHANGED <<docs, versions, chunks, created>>
        BY <1>5 DEF Upload, Purge, DeleteFiles, library
    <2> QED BY <1>0, <1>5, <2>1, LearningMoves, CatalogueMoved, SameRows
<1>6. ASSUME NEW p \in Procs, SaveVersion(p) \/ SetCurrent(p) \/ SaveRow(p) \/ SoftDelete(p) PROVE Catalogue'
    <2>1. Rows' /\ created' = created
        BY <1>6, RowsSteps
    <2>2. PICK s : At(p, s) /\ s \notin {"upload", "resume"} /\ (Put(p, Rest(p)) \/ Abort(p))
        BY <1>6 DEF SaveVersion, SetCurrent, SaveRow, SoftDelete
    <2> QED BY <1>c, <2>1, <2>2
<1>7. ASSUME NEW p \in Procs, Emit(p) PROVE Catalogue'
    <2>1. UNCHANGED <<docs, versions, chunks, created>> /\ At(p, "emit") /\ Put(p, Rest(p))
        BY <1>7 DEF Emit, library
    <2> QED BY <1>0, <1>c, <2>1, SameRows
<1>8. ASSUME NEW p \in Procs, Die(p) PROVE Catalogue'
    <2>1. UNCHANGED <<docs, versions, chunks, created>> /\ Moved(p, Idle)
        BY <1>8 DEF Die, library, Moved, Abort
    <2> QED BY <1>0, <2>1, SameRows, CatalogueMoved
<1>9. CASE Reindex
    BY <1>9, <1>a DEF Reindex, library
<1>10. ASSUME NEW w \in Workers, IndexJob(w) PROVE Catalogue'
    BY <1>10, RowsIndexed
<1>11. CASE CreateOpening \/ UpdateOpening \/ GrowOld
    BY <1>11, <1>a DEF CreateOpening, UpdateOpening, GrowOld, library
<1>12. ASSUME NEW p \in Procs, Apply(p) \/ UpdateStatus(p) \/ EraseCandidate(p) \/ Retention(p)
       PROVE  Catalogue'
    <2>1. PICK kind, k : Started(p, k, kind) /\ Step(k) # "save"
        BY <1>0, <1>12, ApplyStarts, UpdateStatusStarts, EraseStarts
    <2> QED BY <1>12, <1>b, <2>1 DEF Apply, UpdateStatus, EraseCandidate, Retention, library
<1>13. ASSUME NEW p \in Procs, FindCandidate(p) \/ SaveApplication(p) \/ EnqueueScreen(p) \/ SaveStatus(p)
                               \/ DeleteApplications(p) \/ DeleteCandidate(p)
       PROVE  Catalogue'
    <2>1. PICK s : At(p, s) /\ s \notin {"upload", "resume"} /\ (Put(p, Rest(p)) \/ Abort(p))
        BY <1>13 DEF FindCandidate, SaveApplication, EnqueueScreen, SaveStatus, DeleteApplications,
                     DeleteCandidate
    <2>2. UNCHANGED <<docs, versions, chunks, created>>
        BY <1>13 DEF FindCandidate, SaveApplication, EnqueueScreen, SaveStatus, DeleteApplications,
                     DeleteCandidate, library
    <2> QED BY <1>0, <1>c, <2>1, <2>2, SameRows
<1>14. ASSUME NEW p \in Procs, CreateSystemDocument(p) PROVE Catalogue'
    BY <1>14, CatalogueResume
<1>15. ASSUME NEW p \in Procs, Rescreen(p) PROVE Catalogue'
    BY <1>15, <1>a DEF Rescreen, library
<1>16. ASSUME NEW p \in Procs, DeleteDocument(p) PROVE Catalogue'
    <2>1. Rows' /\ created' = created
        BY <1>16, RowsDeleted
    <2>2. At(p, "document") /\ (Put(p, Rest(p)) \/ Abort(p))
        BY <1>16 DEF DeleteDocument
    <2> QED BY <1>c, <2>1, <2>2
<1>17. ASSUME NEW s \in Screeners, ScreeningJob(s) PROVE Catalogue'
    BY <1>17, <1>a DEF ScreeningJob, Screen, ScreenFails, ScreenDone, ScreenStalls, library
<1> QED BY <1>1, <1>2, <1>3, <1>4, <1>5, <1>6, <1>7, <1>8, <1>9, <1>10, <1>11, <1>12, <1>13, <1>14, <1>15,
           <1>16, <1>17
        DEF Next, Stored, DocumentsNext, DocumentRequest, RecruitingRequest, Erasure

LEMMA AlwaysCatalogue == Spec => []Catalogue
<1>1. Init => Catalogue
    <2> SUFFICES ASSUME Init PROVE Catalogue
        OBVIOUS
    <2>1. \A p \in Procs : Step(procs[p]) = "none"
        BY IdleHas DEF Init, DocumentsInit
    <2> QED BY <2>1 DEF Init, DocumentsInit, Catalogue, Rows, Saves, Exists
<1> QED BY <1>1, CatalogueNext, AlwaysTyped, PTL DEF Spec

-----------------------------------------------------------------------------
(* The knowledge base.  A document whose index may be out of date has a    *)
(* job or a request that is about to enqueue one; otherwise the job that   *)
(* runs has read the row as it is, or the index is settled.                *)
Want(d) == IF IsEligible(d) THEN docs[d].current ELSE 0
Settled(d) ==
    IF ~IsEligible(d) THEN chunks[d] = {}
    ELSE Readable(docs[d].current) => chunks[d] = {docs[d].current} /\ docs[d].indexed
Announced(d) == Pending(d) \/ \E p \in Procs : Step(procs[p]) = "emit" /\ procs[p].doc = d
Fresh(d) ==
    /\ \A w \in Workers : workers[w].job.doc = d => workers[w].file = Want(d)
    /\ Settled(d) \/ \E w \in Workers : workers[w].job.doc = d
Tracked(d) == Announced(d) \/ Fresh(d)
Smooth == faults \cap {{"overlap"}, {"lost"}, {"dropped"}, {"died"}} = {}
Current == Smooth => \A d \in Docs : Tracked(d)

LEMMA AnnouncedStays ==
    ASSUME DOMAIN procs = Procs, NEW p, Step(procs[p]) # "emit", NEW k, procs' = [procs EXCEPT ![p] = k],
           NEW x, Pending(x) => Pending(x)', Announced(x)
    PROVE  Announced(x)'
<1>1. CASE Pending(x)
    BY <1>1 DEF Announced
<1>2. CASE \E q \in Procs : Step(procs[q]) = "emit" /\ procs[q].doc = x
    <2>1. PICK q \in Procs : Step(procs[q]) = "emit" /\ procs[q].doc = x
        BY <1>2
    <2>2. procs'[q] = procs[q]
        BY <2>1
    <2>3. Step(procs'[q]) = "emit" /\ procs'[q].doc = x
        BY <2>1, <2>2
    <2> QED BY <2>3 DEF Announced
<1> QED BY <1>1, <1>2 DEF Announced

LEMMA FreshStays ==
    ASSUME NEW x, docs'[x] = docs[x], chunks'[x] = chunks[x], workers' = workers,
           IsEligible(x) => made'[docs[x].current] = made[docs[x].current], Fresh(x)
    PROVE  Fresh(x)'
<1>1. IsEligible(x)' <=> IsEligible(x)
    BY DEF IsEligible, Found, Exists
<1>2. Want(x)' = Want(x)
    BY <1>1 DEF Want
<1>3. Settled(x) => Settled(x)'
    BY <1>1 DEF Settled, Readable
<1> QED BY <1>2, <1>3 DEF Fresh

(* The request that changed a row announces it next.                       *)
LEMMA ToEmit ==
    ASSUME Requests, Len(made) \in Nat, NEW p \in Procs, NEW s \in {"current", "save", "softDelete", "document"},
           At(p, s), Put(p, Rest(p))
    PROVE  /\ \E k : procs' = [procs EXCEPT ![p] = k] /\ Step(k) = "emit" /\ k.doc = procs[p].doc
                     /\ k.kind = procs[p].kind
           /\ Step(procs[p]) = s
           /\ Announced(procs[p].doc)'
<1>1. Handler(procs[p], Len(made)) /\ DOMAIN procs[p] = Fields /\ DOMAIN procs = Procs
    BY DEF Requests, Handler
<1>2. PICK k : Went(p, k, Rest(p), s)
    BY <1>1, GoesOnFine
<1>3. Step(k) = "emit" /\ k = Rest(p) /\ procs' = [procs EXCEPT ![p] = k] /\ k.kind = procs[p].kind
    BY <1>2 DEF Went, Leads
<1>4. k.doc = procs[p].doc
    BY <1>1, <1>3, RestIs
<1>5. procs'[p] = k
    BY <1>1, <1>3
<1>6. Step(procs[p]) = s
    BY DEF At, Step
<1>7. Announced(procs[p].doc)'
    BY <1>3, <1>4, <1>5 DEF Announced
<1> QED BY <1>3, <1>4, <1>6, <1>7

(* A new row is as little a policy to index as no row.                     *)
LEMMA TrackedCreated ==
    ASSUME DOMAIN procs = Procs, docs \in [Docs -> Document], Rows, NEW d \in Docs, d \notin created,
           NEW row, row.current = 0, docs' = [docs EXCEPT ![d] = row],
           UNCHANGED <<chunks, workers, jobs, made>>,
           NEW p, Step(procs[p]) # "emit", NEW k, procs' = [procs EXCEPT ![p] = k],
           NEW x \in Docs, Tracked(x)
    PROVE  Tracked(x)'
<1>1. CASE Announced(x)
    BY <1>1, AnnouncedStays DEF Tracked, Pending
<1>2. CASE Fresh(x) /\ x # d
    <2>1. docs'[x] = docs[x]
        BY <1>2
    <2> QED BY <1>2, <2>1, FreshStays DEF Tracked
<1>3. CASE Fresh(x) /\ x = d
    <2>1. ~IsEligible(x)
        BY <1>3 DEF Rows, IsEligible, Found, Exists
    <2>2. docs'[x] = row
        BY <1>3
    <2>3. ~IsEligible(x)'
        BY <2>2 DEF IsEligible
    <2>4. Want(x) = 0 /\ Want(x)' = 0 /\ (Settled(x) <=> Settled(x)')
        BY <2>1, <2>3 DEF Want, Settled
    <2> QED BY <1>3, <2>4 DEF Fresh, Tracked
<1> QED BY <1>1, <1>2, <1>3 DEF Tracked

LEMMA TrackedJobs ==
    ASSUME Typed, Smooth, Smooth', NEW w \in Workers, IndexJob(w), NEW x \in Docs, Tracked(x)
    PROVE  Tracked(x)'
<1>0. /\ docs \in [Docs -> Document] /\ chunks \in [Docs -> SUBSET Keys] /\ jobs \in [Jobs -> Nat]
      /\ workers \in [Workers -> [job : Jobs \cup {NoJob}, file : 0..MaxFiles]]
      /\ Nobody \notin Docs
    BY DocumentsAssumption DEF Typed, Shelf, Indexing
<1>a. IndexFails(w) \/ IndexStalls(w) => Again(w)
    BY FailsAgain DEF Typed
<1>1. UNCHANGED <<procs, made>>
    BY <1>a DEF IndexJob, Take, IndexDocument, Again, library
<1>b. Idling.job.doc # x
    BY <1>0, IdlingTyped
<1>2. ASSUME NEW j \in Jobs, Take(w, j) PROVE Tracked(x)'
    <2> DEFINE d == j.doc
               job == [job |-> j, file |-> Want(d)]
    <2>1. /\ UNCHANGED <<docs, chunks>> /\ jobs' = [jobs EXCEPT ![j] = @ - 1] /\ workers[w] = Idling
          /\ workers' = [workers EXCEPT ![w] = job]
        BY <1>2 DEF Take, Want, library
    <2>2. Running(d) = {}
        BY <1>2 DEF Take, Smooth
    <2>3. job.job.doc = d /\ job.file = Want(d)
        OBVIOUS
    <2> HIDE DEF job
    <2>x. d = j.doc
        OBVIOUS
    <2> HIDE DEF d
    <2>4. \A v \in Workers : workers'[v] = IF v = w THEN job ELSE workers[v]
        BY <1>0, <2>1
    <2>5. Want(x)' = Want(x) /\ (Settled(x)' <=> Settled(x))
        BY <1>1, <2>1 DEF Want, Settled, IsEligible, Found, Exists, Readable
    <2>6. CASE x = d
        <3>1. \A v \in Workers : workers[v].job.doc # d
            BY <2>2 DEF Running
        <3>2. Fresh(x)'
            BY <2>3, <2>4, <2>5, <2>6, <3>1 DEF Fresh
        <3> QED BY <3>2 DEF Tracked
    <2>7. CASE x # d
        <3>1. \A i \in Jobs : i.doc = x => jobs'[i] = jobs[i]
            BY <1>0, <2>1, <2>x, <2>7
        <3>2. Announced(x) => Announced(x)'
            BY <1>1, <3>1 DEF Announced, Pending
        <3>3. workers[w].job.doc # x
            BY <1>b, <2>1
        <3>4. Fresh(x) => Fresh(x)'
            BY <2>3, <2>4, <2>5, <2>7, <3>3 DEF Fresh
        <3> QED BY <3>2, <3>4 DEF Tracked
    <2> QED BY <2>6, <2>7
<1>3. ASSUME IndexDocument(w) PROVE Tracked(x)'
    <2> DEFINE d == workers[w].job.doc
               key == workers[w].file
    <2>0. workers[w].job \in Jobs
        <3>1. d # Nobody
            BY <1>3 DEF IndexDocument
        <3> QED BY <1>0, <3>1, IdlingTyped
    <2>1. d \in Docs /\ jobs' = jobs /\ workers' = [workers EXCEPT ![w] = Idling]
        BY <1>3, <2>0, JobIs DEF IndexDocument
    <2>2. \A v \in Workers : workers'[v] = IF v = w THEN Idling ELSE workers[v]
        BY <1>0, <2>1
    <2>3. Announced(x) => Announced(x)'
        BY <1>1, <2>1 DEF Announced, Pending
    <2>4. docs'[d] = docs[d] \/ docs'[d] = [docs[d] EXCEPT !.indexed = TRUE]
        BY <1>0, <1>3, <2>1 DEF IndexDocument
    <2>5. \A y \in Docs : y # d => docs'[y] = docs[y] /\ chunks'[y] = chunks[y]
        BY <1>0, <1>3, <2>1 DEF IndexDocument
    <2>6. ASSUME Fresh(x), x # d PROVE Fresh(x)'
        <3>1. Want(x)' = Want(x) /\ (Settled(x)' <=> Settled(x))
            BY <1>1, <2>5, <2>6 DEF Want, Settled, IsEligible, Found, Exists, Readable
        <3>2. \A v \in Workers : workers'[v].job.doc = x => workers'[v] = workers[v]
            BY <1>b, <2>2
        <3>3. workers[w].job.doc # x
            BY <2>6
        <3> QED BY <2>2, <2>6, <3>1, <3>2, <3>3 DEF Fresh
    <2>7. ASSUME Fresh(x), x = d PROVE Fresh(x)'
        <3>1. key = Want(x)
            BY <2>7 DEF Fresh
        <3>2. docs[x] \in Document /\ docs[x].current \in 0..MaxFiles
            BY <1>0, <2>1 DEF Document
        <3>3. /\ docs'[x].current = docs[x].current /\ docs'[x].category = docs[x].category
              /\ docs'[x].visibility = docs[x].visibility /\ docs'[x].deleted = docs[x].deleted
            BY <2>4, <2>7, <3>2 DEF Document
        <3>4. Settled(x)' /\ Want(x)' = Want(x)
            <4>1. CASE ~IsEligible(x)
                <5>1. key = 0
                    BY <2>7, <3>1, <4>1 DEF Want
                <5>2. 0 \notin files
                    BY DEF Typed, Shelf
                <5>3. chunks' = [chunks EXCEPT ![x] = {}] /\ docs' = docs
                    BY <1>3, <2>7, <5>1, <5>2 DEF IndexDocument
                <5>4. chunks'[x] = {} /\ ~IsEligible(x)'
                    BY <1>0, <2>1, <4>1, <5>3 DEF IsEligible, Found, Exists
                <5> QED BY <2>7, <4>1, <5>4 DEF Settled, Want
            <4>2. CASE IsEligible(x)
                <5>1. key = docs[x].current /\ key # 0
                    BY <2>7, <3>1, <4>2 DEF Want, IsEligible
                <5>2. CASE ~Readable(key)
                    <6>1. docs' = docs
                        BY <1>3, <2>7, <5>1, <5>2 DEF IndexDocument
                    <6>2. IsEligible(x)' /\ ~Readable(docs[x].current)'
                        BY <1>1, <4>2, <5>1, <5>2, <6>1 DEF IsEligible, Found, Exists, Readable
                    <6> QED BY <2>7, <4>2, <6>1, <6>2 DEF Settled, Want
                <5>3. CASE Readable(key)
                    <6>1. chunks' = [chunks EXCEPT ![x] = {key}] /\ docs' = [docs EXCEPT ![x].indexed = TRUE]
                        BY <1>3, <2>7, <5>1, <5>3 DEF IndexDocument
                    <6>2. chunks'[x] = {key} /\ docs'[x] = [docs[x] EXCEPT !.indexed = TRUE]
                        BY <1>0, <2>1, <6>1
                    <6>3. docs'[x].indexed
                        BY <3>2, <6>2 DEF Document
                    <6>4. docs'[x] # NoDoc
                        BY <6>3 DEF NoDoc
                    <6>5. IsEligible(x)'
                        BY <3>3, <4>2, <6>4 DEF IsEligible, Found, Exists
                    <6> QED BY <2>7, <3>3, <4>2, <5>1, <6>2, <6>3, <6>5 DEF Settled, Want
                <5> QED BY <5>2, <5>3
            <4> QED BY <4>1, <4>2
        <3>5. \A v \in Workers : workers'[v].job.doc = x => workers'[v] = workers[v]
            BY <1>b, <2>2
        <3> QED BY <2>7, <3>4, <3>5 DEF Fresh
    <2> QED BY <2>3, <2>6, <2>7 DEF Tracked
<1>4. ASSUME Again(w) PROVE Tracked(x)'
    <2> DEFINE d == workers[w].job.doc
    <2>1. PICK job \in Jobs : job.doc = d /\ jobs' = [jobs EXCEPT ![job] = @ + 1]
        BY <1>4 DEF Again, Smooth
    <2>2. workers' = [workers EXCEPT ![w] = Idling] /\ UNCHANGED <<docs, chunks>>
        BY <1>4 DEF Again, library
    <2>3. CASE x = d
        <3>1. jobs'[job] = jobs[job] + 1 /\ jobs[job] \in Nat
            BY <1>0, <2>1
        <3>2. jobs'[job] > 0
            BY <3>1
        <3> QED BY <2>1, <2>3, <3>2 DEF Tracked, Announced, Pending
    <2>4. CASE x # d
        <3>1. \A i \in Jobs : i.doc = x => jobs'[i] = jobs[i]
            BY <1>0, <2>1, <2>4
        <3>2. Announced(x) => Announced(x)'
            BY <1>1, <3>1 DEF Announced, Pending
        <3>3. Want(x)' = Want(x) /\ (Settled(x)' <=> Settled(x))
            BY <1>1, <2>2 DEF Want, Settled, IsEligible, Found, Exists, Readable
        <3>4. \A v \in Workers : workers'[v] = IF v = w THEN Idling ELSE workers[v]
            BY <1>0, <2>2
        <3>5. \A v \in Workers : workers'[v].job.doc = x => workers'[v] = workers[v]
            BY <1>b, <3>4
        <3>6. Fresh(x) => Fresh(x)'
            BY <2>4, <3>3, <3>4, <3>5 DEF Fresh
        <3> QED BY <3>2, <3>6 DEF Tracked
    <2> QED BY <2>3, <2>4
<1> QED BY <1>a, <1>2, <1>3, <1>4 DEF IndexJob

LEMMA CurrentNext == Typed /\ Catalogue /\ Current /\ [Next]_vars => Current'
<1> SUFFICES ASSUME Typed, Catalogue, Current, [Next]_vars, Smooth', NEW x \in Docs PROVE Tracked(x)'
    BY DEF Current
<1>0. /\ Shelf /\ Hiring /\ Requests /\ Settings /\ Len(made) \in Nat /\ Rows
      /\ DOMAIN procs = Procs /\ docs \in [Docs -> Document] /\ jobs \in [Jobs -> Nat]
    BY DEF Typed, Shelf, Requests, Catalogue, Indexing
<1>00. Smooth /\ Tracked(x)
    <2>1. faults \subseteq faults'
        BY Flows DEF Flow
    <2> QED BY <2>1 DEF Smooth, Current
<1>a. ASSUME UNCHANGED <<procs, docs, chunks, workers, made, jobs>> PROVE Tracked(x)'
    <2>1. Announced(x) => Announced(x)'
        BY <1>a DEF Announced, Pending
    <2>2. Fresh(x) => Fresh(x)'
        BY <1>a, FreshStays
    <2> QED BY <1>00, <2>1, <2>2 DEF Tracked
<1>b. ASSUME NEW p, NEW k, procs' = [procs EXCEPT ![p] = k], Step(procs[p]) # "emit",
             UNCHANGED <<docs, chunks, workers, jobs>>,
             IsEligible(x) => made'[docs[x].current] = made[docs[x].current]
      PROVE  Tracked(x)'
    <2>1. Announced(x) => Announced(x)'
        BY <1>0, <1>b, AnnouncedStays DEF Pending
    <2>2. Fresh(x) => Fresh(x)'
        BY <1>b, FreshStays
    <2> QED BY <1>00, <2>1, <2>2 DEF Tracked
<1>c. ASSUME NEW p, NEW k, NEW kind, Started(p, k, kind), UNCHANGED <<docs, chunks, workers, made, jobs>>
      PROVE  Tracked(x)'
    BY <1>b, <1>c, IdleHas DEF Started
<1>d. ASSUME NEW p \in Procs, NEW s, At(p, s), s \notin {"upload", "resume", "emit"}, Put(p, Rest(p)) \/ Abort(p),
             UNCHANGED <<docs, chunks, workers, made, jobs>>
      PROVE  Tracked(x)'
    <2>1. PICK k : procs' = [procs EXCEPT ![p] = k]
        BY <1>d DEF Put, Abort
    <2>2. Step(procs[p]) # "emit"
        BY <1>d DEF At, Step
    <2> QED BY <1>b, <1>d, <2>1, <2>2
(* A row changes and its request goes on to announce it.                   *)
<1>e. ASSUME NEW p \in Procs, NEW s \in {"current", "save", "softDelete", "document"}, At(p, s), Put(p, Rest(p)),
             UNCHANGED <<workers, made, jobs>>,
             \A y \in Docs : y # procs[p].doc => docs'[y] = docs[y] /\ chunks'[y] = chunks[y]
      PROVE  Tracked(x)'
    <2>1. PICK k : procs' = [procs EXCEPT ![p] = k]
        BY <1>e DEF Put
    <2>2. Step(procs[p]) # "emit" /\ Announced(procs[p].doc)'
        BY <1>0, <1>e, ToEmit
    <2>3. CASE x = procs[p].doc
        <3>1. PICK k2 : procs' = [procs EXCEPT ![p] = k2] /\ Step(k2) = "emit" /\ k2.doc = procs[p].doc
            BY <1>0, <1>e, ToEmit
        <3>2. Step(procs'[p]) = "emit" /\ procs'[p].doc = x
            BY <1>0, <2>3, <3>1
        <3> QED BY <3>2 DEF Tracked, Announced
    <2>4. CASE x # procs[p].doc
        <3>1. Announced(x) => Announced(x)'
            BY <1>0, <1>e, <2>1, <2>2, AnnouncedStays DEF Pending
        <3>2. Fresh(x) => Fresh(x)'
            BY <1>e, <2>4, FreshStays
        <3> QED BY <1>00, <3>1, <3>2 DEF Tracked
    <2> QED BY <2>3, <2>4
<1>1. CASE UNCHANGED vars
    BY <1>1, <1>a DEF vars, library, indexing
<1>2. ASSUME NEW p \in Procs, NEW d \in Docs, Create(p, d) PROVE Tracked(x)'
    <2>1. PICK k : Started(p, k, "document")
        BY <1>0, <1>2, CreateStarts
    <2>2. procs' = [procs EXCEPT ![p] = k] /\ Step(procs[p]) # "emit"
        BY <2>1, IdleHas DEF Started
    <2>3. PICK cat \in scenario.categories, vis \in scenario.visibilities,
               owner \in scenario.owners, actor \in scenario.owners \cup {Nobody} :
            docs' = [docs EXCEPT ![d] = [NoDoc EXCEPT !.owner = owner, !.category = cat,
                                                      !.visibility = vis, !.uploader = actor]]
        BY <1>2 DEF Create
    <2> DEFINE row == [NoDoc EXCEPT !.owner = owner, !.category = cat, !.visibility = vis, !.uploader = actor]
    <2>4. row.current = 0
        BY DEF NoDoc
    <2> HIDE DEF row
    <2>5. /\ docs' = [docs EXCEPT ![d] = row] /\ d \notin created
          /\ UNCHANGED <<chunks, workers, jobs, made>>
        BY <1>2, <2>3 DEF row, Create, indexing
    <2> QED BY <1>0, <1>00, <2>2, <2>4, <2>5, TrackedCreated
<1>3. ASSUME NEW p \in Procs, NEW d \in Docs, AddVersion(p, d) \/ Update(p, d) \/ Remove(p, d)
      PROVE  Tracked(x)'
    <2>1. PICK k : Started(p, k, "document")
        BY <1>0, <1>3, AddVersionStarts, UpdateStarts, RemoveStarts DEF Settings
    <2> QED BY <1>3, <1>c, <2>1 DEF AddVersion, Update, Remove, library, indexing
<1>4. ASSUME NEW p \in Procs, Upload(p) PROVE Tracked(x)'
    <2>1. UNCHANGED <<docs, chunks, workers, jobs>>
        BY <1>4 DEF Upload
    <2>2. PICK k : procs' = [procs EXCEPT ![p] = k]
        BY <1>4 DEF Upload, Put, Abort
    <2>3. Step(procs[p]) # "emit"
        BY <1>4 DEF Upload, At, Step
    <2>4. ASSUME IsEligible(x) PROVE made'[docs[x].current] = made[docs[x].current]
        <3> DEFINE c == docs[x].current
                   r == [content |-> procs[p].content, doc |-> procs[p].doc]
        <3>1. c \in 1..Len(made)
            <4>1. docs[x] \in Document /\ c <= Len(made) /\ c # 0 /\ MaxFiles \in Nat
                BY <1>0, <2>4, DocumentsAssumption DEF Shelf, IsEligible
            <4>2. c \in 0..MaxFiles
                BY <4>1 DEF Document
            <4> HIDE DEF c
            <4> QED BY <1>0, <4>1, <4>2
        <3>2. made' = made \/ made' = Append(made, r)
            BY <1>4 DEF Upload
        <3> HIDE DEF c, r
        <3>3. made \in Seq([content : {"text", "image"}, doc : Docs])
            BY <1>0 DEF Shelf
        <3>4. made'[c] = made[c]
            BY <3>1, <3>2, <3>3
        <3> QED BY <3>4 DEF c
    <2> QED BY <1>b, <2>1, <2>2, <2>3, <2>4
<1>5. ASSUME NEW p \in Procs, SaveVersion(p) PROVE Tracked(x)'
    <2>1. /\ UNCHANGED <<docs, chunks, workers, made, jobs>> /\ At(p, "version")
          /\ Put(p, Rest(p)) \/ Abort(p)
        BY <1>5 DEF SaveVersion, indexing
    <2> QED BY <1>d, <2>1
<1>6. ASSUME NEW p \in Procs, SetCurrent(p) \/ SaveRow(p) \/ SoftDelete(p) PROVE Tracked(x)'
    <2>1. UNCHANGED <<chunks, workers, made, jobs>>
        BY <1>6 DEF SetCurrent, SaveRow, SoftDelete, indexing
    <2>2. PICK s \in {"current", "save", "softDelete"} : At(p, s) /\ (Put(p, Rest(p)) \/ (Abort(p) /\ docs' = docs))
        BY <1>6 DEF SetCurrent, SaveRow, SoftDelete
    <2>3. \A y \in Docs : y # procs[p].doc => docs'[y] = docs[y]
        BY <1>0, <1>6 DEF SetCurrent, SaveRow, SoftDelete
    <2>4. CASE Put(p, Rest(p))
        BY <1>e, <2>1, <2>2, <2>3, <2>4
    <2>5. CASE Abort(p) /\ docs' = docs
        BY <1>d, <2>1, <2>2, <2>5
    <2> QED BY <2>2, <2>4, <2>5
<1>7. ASSUME NEW p \in Procs, Emit(p) PROVE Tracked(x)'
    <2> DEFINE d == procs[p].doc
    <2>1. UNCHANGED <<docs, chunks, made, workers>> /\ At(p, "emit") /\ Put(p, Rest(p))
        BY <1>7 DEF Emit, library
    <2>2. jobs' = [jobs EXCEPT ![NewJob(d)] = @ + 1]
        <3>1. {"lost"} \notin faults'
            BY DEF Smooth
        <3> QED BY <1>7, <3>1 DEF Emit
    <2>3. Step(procs[p]) = "emit" /\ Handler(procs[p], Len(made))
        BY <1>0, <2>1 DEF At, Step, Requests
    <2>4. d \in Docs
        BY <2>3 DEF Handler, DocSteps
    <2>5. CASE x = d
        <3> DEFINE job == NewJob(d)
        <3>0. job \in Jobs /\ job.doc = x
            BY <2>4, <2>5, JobIs
        <3> HIDE DEF job
        <3>1. jobs'[job] = jobs[job] + 1 /\ jobs[job] \in Nat
            BY <1>0, <2>2, <3>0 DEF job
        <3>2. jobs'[job] > 0
            BY <3>1
        <3> QED BY <3>0, <3>2 DEF Tracked, Announced, Pending
    <2>6. CASE x # d
        <3>1. Pending(x) => Pending(x)'
            <4>1. \A i \in Jobs : i.doc = x => jobs'[i] = jobs[i]
                BY <1>0, <2>2, <2>4, <2>6, JobIs
            <4> QED BY <4>1 DEF Pending
        <3>2. Fresh(x) => Fresh(x)'
            BY <2>1, FreshStays
        <3>3. Announced(x) => Announced(x)'
            <4>1. CASE Pending(x)
                BY <3>1, <4>1 DEF Announced
            <4>2. ASSUME NEW q \in Procs, Step(procs[q]) = "emit", procs[q].doc = x PROVE Announced(x)'
                <5>1. q # p
                    BY <2>6, <4>2
                <5>2. procs'[q] = procs[q]
                    BY <1>0, <2>1, <5>1 DEF Put
                <5>3. Step(procs'[q]) = "emit" /\ procs'[q].doc = x
                    BY <4>2, <5>2
                <5> QED BY <5>3 DEF Announced
            <4> QED BY <4>1, <4>2 DEF Announced
        <3> QED BY <1>00, <3>2, <3>3 DEF Tracked
    <2> QED BY <2>5, <2>6
<1>8. ASSUME NEW p \in Procs, Die(p) PROVE Tracked(x)'
    BY <1>8 DEF Die, Smooth
<1>9. CASE Reindex
    <2>1. UNCHANGED <<procs, docs, chunks, workers, made>>
        BY <1>9 DEF Reindex, library
    <2>2. Pending(x) => Pending(x)'
        <3>1. ASSUME NEW job \in Jobs, jobs[job] > 0 PROVE jobs'[job] > 0
            BY <1>0, <1>9, <3>1 DEF Reindex
        <3> QED BY <3>1 DEF Pending
    <2>3. Announced(x) => Announced(x)'
        BY <2>1, <2>2 DEF Announced
    <2>4. Fresh(x) => Fresh(x)'
        BY <2>1, FreshStays
    <2> QED BY <1>00, <2>3, <2>4 DEF Tracked
<1>10. ASSUME NEW w \in Workers, IndexJob(w) PROVE Tracked(x)'
    BY <1>00, <1>10, TrackedJobs
<1>11. CASE CreateOpening \/ UpdateOpening \/ GrowOld
    BY <1>11, <1>a DEF CreateOpening, UpdateOpening, GrowOld, library, indexing
<1>12. ASSUME NEW p \in Procs, Apply(p) \/ UpdateStatus(p) \/ EraseCandidate(p) \/ Retention(p)
       PROVE  Tracked(x)'
    <2>1. PICK kind, k : Started(p, k, kind)
        BY <1>0, <1>12, ApplyStarts, UpdateStatusStarts, EraseStarts
    <2> QED BY <1>12, <1>c, <2>1 DEF Apply, UpdateStatus, EraseCandidate, Retention, library, indexing
<1>13. ASSUME NEW p \in Procs, FindCandidate(p) \/ SaveApplication(p) \/ EnqueueScreen(p) \/ SaveStatus(p)
                               \/ DeleteApplications(p) \/ DeleteCandidate(p)
       PROVE  Tracked(x)'
    <2>1. PICK s : At(p, s) /\ s \notin {"upload", "resume", "emit"} /\ (Put(p, Rest(p)) \/ Abort(p))
        BY <1>13 DEF FindCandidate, SaveApplication, EnqueueScreen, SaveStatus, DeleteApplications,
                     DeleteCandidate
    <2>2. UNCHANGED <<docs, chunks, workers, made, jobs>>
        BY <1>13 DEF FindCandidate, SaveApplication, EnqueueScreen, SaveStatus, DeleteApplications,
                     DeleteCandidate, library, indexing
    <2> QED BY <1>d, <2>1, <2>2
<1>14. ASSUME NEW p \in Procs, CreateSystemDocument(p) PROVE Tracked(x)'
    <2> DEFINE row == [NoDoc EXCEPT !.category = "RESUME", !.visibility = "RESTRICTED"]
    <2>1. PICK d \in Docs : /\ d \notin created /\ docs' = [docs EXCEPT ![d] = row]
                            /\ Put(p, [Rest(p) EXCEPT !.doc = d])
        BY <1>14 DEF CreateSystemDocument
    <2>2. row.current = 0
        BY DEF NoDoc
    <2> HIDE DEF row
    <2>3. UNCHANGED <<chunks, workers, jobs, made>>
        BY <1>14 DEF CreateSystemDocument, indexing
    <2>4. PICK k : procs' = [procs EXCEPT ![p] = k]
        BY <2>1 DEF Put
    <2>5. Step(procs[p]) # "emit"
        BY <1>14 DEF CreateSystemDocument, At, Step
    <2> QED BY <1>0, <1>00, <2>1, <2>2, <2>3, <2>4, <2>5, TrackedCreated
<1>15. ASSUME NEW p \in Procs, Rescreen(p) PROVE Tracked(x)'
    BY <1>15, <1>a DEF Rescreen, library, indexing
<1>16. ASSUME NEW p \in Procs, Purge(p) \/ DeleteFiles(p) PROVE Tracked(x)'
    <2>1. PICK k : procs' = [procs EXCEPT ![p] = k]
        BY <1>16 DEF Purge, DeleteFiles, Put, Abort
    <2>2. Step(procs[p]) # "emit" /\ UNCHANGED <<docs, chunks, workers, made, jobs>>
        BY <1>16 DEF Purge, DeleteFiles, At, Step, library, indexing
    <2> QED BY <1>b, <2>1, <2>2
<1>17. ASSUME NEW p \in Procs, DeleteDocument(p) PROVE Tracked(x)'
    <2>1. UNCHANGED <<workers, made, jobs>> /\ At(p, "document")
        BY <1>17 DEF DeleteDocument, indexing
    <2>2. CASE Abort(p) /\ UNCHANGED <<docs, chunks>>
        BY <1>d, <2>1, <2>2
    <2>3. CASE Put(p, Rest(p)) /\ ~(Abort(p) /\ UNCHANGED <<docs, chunks>>)
        <3>1. \A y \in Docs : y # procs[p].doc => docs'[y] = docs[y] /\ chunks'[y] = chunks[y]
            <4>1. docs' = [docs EXCEPT ![procs[p].doc] = NoDoc] /\ chunks' = [chunks EXCEPT ![procs[p].doc] = {}]
                BY <1>17, <2>3 DEF DeleteDocument
            <4> QED BY <1>0, <4>1 DEF Shelf
        <3> QED BY <1>e, <2>1, <2>3, <3>1
    <2> QED BY <1>17, <2>2, <2>3 DEF DeleteDocument
<1>18. ASSUME NEW s \in Screeners, ScreeningJob(s) PROVE Tracked(x)'
    BY <1>18, <1>a DEF ScreeningJob, Screen, ScreenFails, ScreenDone, ScreenStalls, library, indexing
<1> QED BY <1>1, <1>2, <1>3, <1>4, <1>5, <1>6, <1>7, <1>8, <1>9, <1>10, <1>11, <1>12, <1>13, <1>14, <1>15,
           <1>16, <1>17, <1>18
        DEF Next, Stored, DocumentsNext, DocumentRequest, RecruitingRequest, Erasure

(* The knowledge base holds the current text of every eligible policy and  *)
(* nothing else once nothing is in flight, for any number of documents,    *)
(* requests and index jobs: whoever changes a row announces it afterwards, *)
(* and a job reads the row when it starts, so a job that missed a change   *)
(* is followed by another one.                                             *)
THEOREM IndexIsCurrent == Spec => []StaleIndexNeedsFault
<1>1. Init => Current
    <2> SUFFICES ASSUME Init, NEW d \in Docs PROVE Fresh(d)
        BY DEF Current, Tracked
    <2>1. ~IsEligible(d) /\ chunks[d] = {} /\ \A w \in Workers : workers[w] = Idling
        BY DEF Init, DocumentsInit, IsEligible, Found, Exists
    <2>2. Nobody \notin Docs
        BY DocumentsAssumption
    <2> QED BY <2>1, <2>2, IdlingTyped DEF Fresh, Settled
<1>2. Typed /\ Current => StaleIndexNeedsFault
    <2> SUFFICES ASSUME Typed, Current, Quiet, Smooth, NEW d \in Docs PROVE Settled(d)
        BY DEF StaleIndexNeedsFault, Settled, Smooth
    <2>1. ~Announced(d)
        BY IdleHas DEF Quiet, Announced
    <2>2. \A w \in Workers : workers[w].job.doc # d
        BY IdlingTyped, DocumentsAssumption DEF Quiet
    <2> QED BY <2>1, <2>2 DEF Current, Tracked, Fresh
<1> QED BY <1>1, <1>2, CurrentNext, AlwaysTyped, AlwaysCatalogue, PTL DEF Spec

-----------------------------------------------------------------------------
(* Files and erasure.  What a step does to the rows, versions and files    *)
(* and to the requests in flight, in the terms of the invariants below.    *)
Kept == \A d \in Docs : Exists(d)' <=> Exists(d)
SameApp == app'.resume = app.resume /\ (Applied' <=> Applied) /\ candidate' = candidate
Untouched ==
    /\ Kept /\ SameApp /\ faults \subseteq faults'
    /\ UNCHANGED <<versions, files, made, created, resumes>>

(* A request goes on with what it has.                                     *)
Carries(h, k) ==
    /\ k.kind = h.kind /\ k.doc = h.doc /\ k.row = h.row
    /\ k.version = h.version /\ k.file = h.file /\ k.seen = h.seen
Pass(p, k, s) ==
    /\ p \in Procs /\ procs[p] # Idle /\ Step(procs[p]) = s /\ procs' = [procs EXCEPT ![p] = k]
    /\ k = Idle \/ (Carries(procs[p], k) /\ Step(k) # "none")
    /\ Leads(procs[p].kind, s, Step(k))
    /\ Deleting(k) <=> Deleting(procs[p]) /\ s # "document"
    /\ s \in {"purge", "files", "document"} => Deleting(procs[p])
Drop(p, s) ==
    /\ p \in Procs /\ procs[p] # Idle /\ Step(procs[p]) = s /\ procs' = [procs EXCEPT ![p] = Idle]
    /\ \E t : Leads(procs[p].kind, s, t)

LEMMA LateErasure ==
    ASSUME NEW h, Planned(h.todo, h.kind), Step(h) \in {"emit", "erase"}
    PROVE  ~Deleting(h)
<1>0. h.todo # <<>> /\ Head(h.todo) \in {"emit", "erase"}
    BY DEF Step
<1>a. ~Mentions(<<>>, "document")
    <2>1. 1..Len(<<>>) = {}
        OBVIOUS
    <2> QED BY <2>1 DEF Mentions
<1>1. ASSUME NEW s, Planned(s, "erase"), s # <<>>, Head(s) = "erase" PROVE ~Mentions(s, "document")
    <2>1. Leads("erase", "erase", IF Tail(s) = <<>> THEN "none" ELSE Head(Tail(s)))
        BY <1>1, TailOf
    <2>2. Tail(s) = <<>>
        <3>1. ASSUME Tail(s) # <<>> PROVE FALSE
            <4>1. Planned(Tail(s), "erase")
                BY <1>1, TailOf
            <4>2. Head(Tail(s)) \in Steps
                BY <3>1, <4>1, TailOf
            <4> QED BY <2>1, <3>1, <4>2 DEF Leads, Steps
        <3> QED BY <3>1
    <2>3. Mentions(s, "document") <=> Head(s) = "document" \/ Mentions(Tail(s), "document")
        BY <1>1, TailOf
    <2> QED BY <1>1, <1>a, <2>2, <2>3
<1>2. ASSUME NEW s, Planned(s, "erase"), s # <<>>, Head(s) = "emit" PROVE ~Mentions(s, "document")
    <2>1. Tail(s) # <<>> /\ Head(Tail(s)) = "erase" /\ Planned(Tail(s), "erase")
        BY <1>2, TailOf DEF Leads
    <2>2. ~Mentions(Tail(s), "document")
        BY <1>1, <2>1
    <2>3. Mentions(s, "document") <=> Head(s) = "document" \/ Mentions(Tail(s), "document")
        BY <1>2, TailOf
    <2> QED BY <1>2, <2>2, <2>3
<1> QED BY <1>0, <1>1, <1>2 DEF Deleting

LEMMA Passes ==
    ASSUME Requests, Len(made) \in Nat, NEW p \in Procs, NEW s, At(p, s), s \notin {"upload", "resume"},
           Put(p, Rest(p))
    PROVE  \E k : Pass(p, k, s)
<1> DEFINE h == procs[p]
           r == Rest(p)
<1>1. Handler(h, Len(made)) /\ DOMAIN h = Fields /\ Planned(h.todo, h.kind)
    BY DEF Requests, Handler
<1>2. PICK k : Went(p, k, Rest(p), s)
    BY <1>1, GoesOnFine
<1>3. Carries(h, r)
    BY <1>1, RestIs DEF Carries
<1> HIDE DEF h, r
<1>4. k = Idle \/ (Carries(h, k) /\ Step(k) # "none")
    BY <1>2, <1>3 DEF Went, r
<1>5. s = "document" => ~Deleting(k)
    <2> SUFFICES ASSUME s = "document" PROVE ~Deleting(k)
        OBVIOUS
    <2>1. Step(k) = "emit" /\ Planned(k.todo, k.kind)
        BY <1>2 DEF Went, Leads
    <2> QED BY <2>1, LateErasure
<1> QED BY <1>2, <1>4, <1>5 DEF Went, Pass, h

LEMMA Drops ==
    ASSUME Requests, NEW p \in Procs, NEW s, At(p, s), Abort(p)
    PROVE  Drop(p, s)
<1>1. procs[p].todo # <<>> /\ Planned(procs[p].todo, procs[p].kind) /\ Head(procs[p].todo) = s
    BY DEF Requests, Handler, At
<1>2. procs[p] # Idle /\ Step(procs[p]) = s
    BY <1>1, IdleHas DEF Step
<1>3. \E t : Leads(procs[p].kind, s, t)
    BY <1>1, TailOf
<1> QED BY <1>2, <1>3 DEF Drop, Abort

(* Applications that change without a request's help stay applications.    *)
LEMMA StillApplied ==
    ASSUME Hiring, Applied, NEW a, a.status = app.status PROVE a # NoApp
    BY BlankRow DEF Hiring, AppStatus

LEMMA Background ==
    ASSUME Typed, Catalogue,
           \/ UNCHANGED vars
           \/ Reindex /\ UNCHANGED <<recruiting, screening>>
           \/ \E w \in Workers : IndexJob(w) /\ UNCHANGED <<recruiting, screening>>
           \/ CreateOpening \/ UpdateOpening \/ GrowOld
           \/ \E p \in Procs : Rescreen(p)
           \/ \E s \in Screeners : ScreeningJob(s)
    PROVE  procs' = procs /\ Untouched
<1>0. /\ docs \in [Docs -> Document] /\ Hiring /\ Rows
    BY DEF Typed, Shelf, Catalogue
<1>a. ASSUME UNCHANGED <<docs, app, candidate>> PROVE Kept /\ SameApp
    BY <1>a DEF Kept, SameApp, Exists, Applied
<1>1. CASE UNCHANGED vars
    BY <1>1, <1>a DEF vars, library, recruiting, Untouched
<1>2. CASE Reindex /\ UNCHANGED <<recruiting, screening>>
    BY <1>2, <1>a DEF Reindex, library, recruiting, Untouched
<1>3. ASSUME NEW w \in Workers, IndexJob(w), UNCHANGED <<recruiting, screening>>
      PROVE  procs' = procs /\ Untouched
    <2>1. UNCHANGED <<procs, versions, files, made, created, resumes, app, candidate>> /\ faults \subseteq faults'
        BY <1>3 DEF IndexJob, Take, IndexDocument, IndexFails, IndexStalls, TryAgain, library, recruiting
    <2>2. CASE docs' = docs
        BY <1>a, <2>1, <2>2 DEF Untouched
    <2>3. CASE docs' # docs
        <3> DEFINE d == workers[w].job.doc
        <3>1. docs' = [docs EXCEPT ![d].indexed = TRUE] /\ Exists(d)
            BY <1>3, <2>3 DEF IndexJob, Take, IndexDocument, IndexFails, IndexStalls, TryAgain, library
        <3> HIDE DEF d
        <3>2. \A x \in Docs : docs'[x].category = docs[x].category /\ (x # d => docs'[x] = docs[x])
            BY <1>0, <3>1 DEF Document
        <3>3. Kept
            <4> SUFFICES ASSUME NEW x \in Docs PROVE Exists(x)' <=> Exists(x)
                BY DEF Kept
            <4>1. CASE x = d
                BY <1>0, <3>1, <3>2, <4>1, BlankIs DEF Rows, Exists
            <4>2. CASE x # d
                BY <3>2, <4>2 DEF Exists
            <4> QED BY <4>1, <4>2
        <3> QED BY <2>1, <3>3 DEF Untouched, SameApp, Applied
    <2> QED BY <2>2, <2>3
<1>4. CASE CreateOpening \/ UpdateOpening
    BY <1>4, <1>a DEF CreateOpening, UpdateOpening, library, Untouched
<1>5. CASE GrowOld
    <2>1. app'.resume = app.resume /\ app'.status = app.status
        BY <1>0, <1>5 DEF GrowOld, Hiring, Application
    <2>2. Applied /\ Applied'
        BY <1>0, <1>5, <2>1, StillApplied DEF GrowOld, Applied
    <2> QED BY <1>5, <2>1, <2>2 DEF GrowOld, library, Untouched, Kept, SameApp, Exists
<1>6. ASSUME NEW p \in Procs, Rescreen(p) PROVE procs' = procs /\ Untouched
    BY <1>6, <1>a DEF Rescreen, library, recruiting, MayStart, Untouched
<1>7. ASSUME NEW s \in Screeners, ScreeningJob(s) PROVE procs' = procs /\ Untouched
    <2>1. UNCHANGED <<procs, docs, versions, files, made, created, resumes, candidate>> /\ faults \subseteq faults'
        BY <1>7 DEF ScreeningJob, Screen, ScreenFails, ScreenDone, ScreenStalls, library, recruiting
    <2>2. CASE app' = app
        BY <1>a, <2>1, <2>2 DEF Untouched
    <2>3. CASE app' # app
        <3>1. Applied /\ app'.resume = app.resume /\ app'.status = app.status
            BY <1>0, <1>7, <2>3 DEF ScreeningJob, Screen, ScreenFails, ScreenDone, ScreenStalls, recruiting,
               Hiring, Application
        <3>2. Applied'
            BY <1>0, <3>1, StillApplied DEF Applied
        <3> QED BY <2>1, <3>1, <3>2 DEF Untouched, Kept, SameApp, Exists
    <2> QED BY <2>2, <2>3
<1> QED BY <1>1, <1>2, <1>3, <1>4, <1>5, <1>6, <1>7

(* The version number that an upload claims is free when it is read.       *)
LEMMA NextVersionFree ==
    ASSUME Shelf, NEW d \in Docs, NextVersion(d) \in Keys
    PROVE  versions[d][NextVersion(d)] = 0
<1> DEFINE T == Numbers(d)
           v == NextVersion(d)
<1>0. MaxFiles \in Nat /\ Keys \subseteq Nat
    BY DocumentsAssumption DEF Keys
<1>1. T \subseteq 0..MaxFiles
    BY <1>0 DEF Numbers, Keys
<1>2. CASE T = {}
    BY <1>2 DEF Numbers
<1>3. CASE T # {}
    <2> DEFINE g == CHOOSE i \in T : \A m \in T : m <= i
    <2>1. g \in T /\ \A m \in T : m <= g
        <3> HIDE DEF T
        <3>1. \E i \in T : \A m \in T : m <= i
            BY <1>0, <1>1, <1>3, GreatestNumber
        <3> QED BY <3>1
    <2>2. v = 1 + g
        BY <1>3 DEF NextVersion
    <2> HIDE DEF g
    <2>3. g \in Nat
        BY <1>0, <1>1, <2>1
    <2> HIDE DEF v
    <2>4. v \notin T
        <3> HIDE DEF T
        <3> QED BY <2>1, <2>2, <2>3
    <2>5. v \in Keys
        BY DEF v
    <2>6. versions[d][v] = 0
        BY <2>4, <2>5 DEF Numbers
    <2> QED BY <2>6 DEF v
<1> QED BY <1>2, <1>3

(* A request that starts knows of a document or an application that is     *)
(* there.                                                                  *)
NewRequest(k) ==
    \/ /\ k.kind = "document" /\ Step(k) \in {"upload", "save", "softDelete"} /\ k.doc \in Docs /\ Exists(k.doc)
       /\ Step(k) = "upload" => (k.version \in Keys => versions[k.doc][k.version] = 0)
    \/ k.kind = "apply" /\ Step(k) = "candidate"
    \/ k.kind = "decide" /\ Step(k) = "decide" /\ Applied /\ k.row.resume = app.resume
    \/ k.kind = "erase" /\ Step(k) = "applications" /\ k.doc = app.resume /\ (Deleting(k) <=> Applied)

LEMMA Starting ==
    ASSUME Typed, NEW p \in Procs,
           \/ (\E d \in Docs : AddVersion(p, d) \/ Update(p, d) \/ Remove(p, d)) /\ UNCHANGED <<recruiting, screening>>
           \/ Apply(p) \/ UpdateStatus(p) \/ EraseCandidate(p) \/ Retention(p)
    PROVE  \E k : Started(p, k, k.kind) /\ NewRequest(k) /\ Untouched
<1>0. Shelf /\ Hiring /\ Settings
    BY DEF Typed
<1>a. ASSUME UNCHANGED <<library, app, candidate, resumes>>, NEW k, Started(p, k, k.kind) PROVE Untouched
    <2>1. faults \subseteq faults'
        BY <1>a DEF Started
    <2> QED BY <1>a, <2>1 DEF library, Untouched, Kept, SameApp, Exists, Applied
<1>1. ASSUME NEW d \in Docs, AddVersion(p, d), UNCHANGED <<recruiting, screening>>
      PROVE  \E k : Started(p, k, k.kind) /\ NewRequest(k) /\ Untouched
    <2>1. PICK k : Started(p, k, "document") /\ Step(k) = "upload" /\ k.doc = d /\ k.version = NextVersion(d)
        BY <1>0, <1>1, AddVersionStarts
    <2>2. k.kind = "document"
        BY <2>1 DEF Started
    <2>3. NewRequest(k)
        BY <1>0, <1>1, <2>1, <2>2, NextVersionFree DEF NewRequest, AddVersion, Found
    <2>4. Untouched
        BY <1>1, <1>a, <2>1, <2>2 DEF AddVersion, recruiting
    <2> QED BY <2>1, <2>2, <2>3, <2>4
<1>2. ASSUME NEW d \in Docs, Update(p, d) \/ Remove(p, d), UNCHANGED <<recruiting, screening>>
      PROVE  \E k : Started(p, k, k.kind) /\ NewRequest(k) /\ Untouched
    <2>1. PICK k : Started(p, k, "document") /\ Step(k) \in {"save", "softDelete"} /\ k.doc = d
        BY <1>0, <1>2, UpdateStarts, RemoveStarts DEF Settings
    <2>2. k.kind = "document"
        BY <2>1 DEF Started
    <2>3. NewRequest(k)
        BY <1>2, <2>1, <2>2 DEF NewRequest, Update, Remove, Found
    <2>4. Untouched
        BY <1>2, <1>a, <2>1, <2>2 DEF Update, Remove, recruiting
    <2> QED BY <2>1, <2>2, <2>3, <2>4
<1>3. ASSUME Apply(p) PROVE \E k : Started(p, k, k.kind) /\ NewRequest(k) /\ Untouched
    <2>1. PICK k : Started(p, k, "apply") /\ Step(k) = "candidate"
        BY <1>0, <1>3, ApplyStarts
    <2>2. k.kind = "apply"
        BY <2>1 DEF Started
    <2> QED BY <1>3, <1>a, <2>1, <2>2 DEF Apply, recruiting, NewRequest
<1>4. ASSUME UpdateStatus(p) PROVE \E k : Started(p, k, k.kind) /\ NewRequest(k) /\ Untouched
    <2>1. PICK k : Started(p, k, "decide") /\ Step(k) = "decide" /\ k.row.resume = app.resume
        BY <1>0, <1>4, UpdateStatusStarts
    <2>2. k.kind = "decide"
        BY <2>1 DEF Started
    <2> QED BY <1>4, <1>a, <2>1, <2>2 DEF UpdateStatus, recruiting, NewRequest
<1>5. ASSUME EraseCandidate(p) \/ Retention(p) PROVE \E k : Started(p, k, k.kind) /\ NewRequest(k) /\ Untouched
    <2>1. PICK k : /\ Started(p, k, "erase") /\ Step(k) = "applications" /\ k.doc = app.resume
                   /\ Deleting(k) <=> Applied
        BY <1>0, <1>5, EraseStarts
    <2>2. k.kind = "erase"
        BY <2>1 DEF Started
    <2> QED BY <1>5, <1>a, <2>1, <2>2 DEF EraseCandidate, Retention, recruiting, NewRequest
<1> QED BY <1>1, <1>2, <1>3, <1>4, <1>5

(* Resumes.  A resume belongs to the application that is storing it and to *)
(* nobody else, until the application is saved.                            *)
Private(h) == h.kind = "apply" /\ Step(h) \in {"upload", "version", "current", "emit", "application"}
Holds(h, d) ==
    \/ (Deleting(h) \/ Private(h)) /\ h.doc = d
    \/ h.kind = "decide" /\ h.row.resume = d
KnownBy(h) ==
    /\ Step(h) = "upload" => h.doc \in created
    /\ Deleting(h) \/ Private(h) => h.doc \in resumes
    /\ h.kind = "decide" => h.row.resume \in resumes
    /\ Private(h) => Exists(h.doc) /\ h.doc # app.resume
Separate == \A p, q \in Procs : p # q /\ Private(procs[q]) => ~Holds(procs[p], procs[q].doc)
Filed ==
    /\ \A n \in 1..Len(made) : made[n].doc \in created
    /\ resumes \subseteq created
    /\ Applied => candidate /\ app.resume \in resumes /\ Exists(app.resume)
Known == Filed /\ Separate /\ \A p \in Procs : KnownBy(procs[p])

(* k does not hold more than h does.                                       *)
Heir(h, k) ==
    /\ \A d : Holds(k, d) => Holds(h, d)
    /\ Private(k) => Private(h) /\ k.doc = h.doc
    /\ Deleting(k) => Deleting(h) /\ k.doc = h.doc
    /\ k.kind # "decide" /\ Step(k) # "upload"

LEMMA IdleHolds == ~Private(Idle) /\ \A d : ~Holds(Idle, d)
    BY IdleHas DEF Private, Holds

LEMMA IdleHeir == ASSUME NEW h PROVE Heir(h, Idle)
    BY IdleHas, IdleHolds DEF Heir

LEMMA PassHeir ==
    ASSUME NEW p, NEW k, NEW s, Pass(p, k, s), s # "resume"
    PROVE  Heir(procs[p], k)
<1>1. CASE k = Idle
    BY <1>1, IdleHeir
<1>2. CASE k # Idle
    <2> DEFINE h == procs[p]
    <2>1. Carries(h, k) /\ Leads(h.kind, s, Step(k)) /\ (Deleting(k) => Deleting(h)) /\ Step(h) = s
        BY <1>2 DEF Pass
    <2> HIDE DEF h
    <2>2. Private(k) => Private(h) /\ k.doc = h.doc
        BY <2>1 DEF Carries, Private, Leads, Uploading
    <2>3. Step(k) # "upload"
        BY <2>1 DEF Leads
    <2>4. k.kind # "decide"
        BY <1>2, <2>1 DEF Pass, Carries, Leads, Uploading
    <2>5. k.kind = h.kind /\ k.doc = h.doc
        BY <2>1 DEF Carries
    <2>6. \A d : Holds(k, d) => Holds(h, d)
        BY <2>1, <2>2, <2>4, <2>5 DEF Holds
    <2> QED BY <2>1, <2>2, <2>3, <2>4, <2>5, <2>6 DEF Heir, h
<1> QED BY <1>1, <1>2

(* The invariant from one request's next state, others unchanged.          *)
LEMMA KnownStep ==
    ASSUME Typed, Known, NEW p \in Procs, NEW k, procs' = [procs EXCEPT ![p] = k], Filed',
           created \subseteq created', resumes \subseteq resumes',
           \A d \in Docs : Exists(d) => Exists(d)' \/ Holds(procs[p], d),
           app'.resume \in {app.resume, Nobody} \/ Holds(procs[p], app'.resume),
           Step(k) = "upload" => k.doc \in created',
           Deleting(k) \/ Private(k) => k.doc \in resumes',
           k.kind = "decide" => k.row.resume \in resumes',
           Private(k) => Exists(k.doc)' /\ k.doc # app'.resume,
           \A q \in Procs : q # p /\ Private(procs[q]) => ~Holds(k, procs[q].doc),
           \A q \in Procs : q # p /\ Private(k) => ~Holds(procs[q], k.doc)
    PROVE  Known'
<1>0. DOMAIN procs = Procs /\ resumes \subseteq Docs /\ Nobody \notin Docs
    BY DocumentsAssumption DEF Typed, Requests, Hiring
<1>1. procs'[p] = k /\ \A q \in Procs : q # p => procs'[q] = procs[q]
    BY <1>0
<1>2. KnownBy(k)'
    BY DEF KnownBy
<1>3. ASSUME NEW q \in Procs PROVE KnownBy(procs[q])'
    <2>1. CASE q = p
        <3>1. procs'[q] = k
            BY <1>1, <2>1
        <3> QED BY <1>2, <3>1 DEF KnownBy
    <2>2. CASE q # p
        <3>0. PICK h : h = procs[q]
            OBVIOUS
        <3>1. procs'[q] = h /\ KnownBy(h) /\ (Private(h) => ~Holds(procs[p], h.doc))
            BY <1>1, <2>2, <3>0 DEF Known, Separate
        <3>2. ASSUME Private(h) PROVE Exists(h.doc)' /\ h.doc # app'.resume
            <4>1. h.doc \in Docs /\ Exists(h.doc) /\ h.doc # app.resume /\ ~Holds(procs[p], h.doc)
                BY <1>0, <3>1, <3>2 DEF KnownBy
            <4>2. h.doc # Nobody
                BY <1>0, <4>1
            <4>3. h.doc # app'.resume
                BY <4>1, <4>2
            <4>4. Exists(h.doc)'
                BY <4>1
            <4> QED BY <4>3, <4>4
        <3>3. KnownBy(h)'
            BY <3>1, <3>2 DEF KnownBy
        <3> QED BY <3>1, <3>3 DEF KnownBy
    <2> QED BY <2>1, <2>2
<1>4. Separate'
    <2> SUFFICES ASSUME NEW a \in Procs, NEW b \in Procs, a # b, Private(procs'[b])
                 PROVE  ~Holds(procs'[a], procs'[b].doc)
        BY DEF Separate
    <2>1. CASE a = p
        <3>1. procs'[a] = k /\ procs'[b] = procs[b]
            BY <1>1, <2>1
        <3> QED BY <2>1, <3>1
    <2>2. CASE b = p
        <3>1. procs'[b] = k /\ procs'[a] = procs[a]
            BY <1>1, <2>2
        <3> QED BY <2>2, <3>1
    <2>3. CASE a # p /\ b # p
        <3>1. procs'[b] = procs[b] /\ procs'[a] = procs[a]
            BY <1>1, <2>3
        <3> QED BY <3>1 DEF Known, Separate
    <2> QED BY <2>1, <2>2, <2>3
<1> QED BY <1>3, <1>4 DEF Known

LEMMA KnownHeir ==
    ASSUME Typed, Known, NEW p \in Procs, NEW k, procs' = [procs EXCEPT ![p] = k], Filed', Heir(procs[p], k),
           created \subseteq created', resumes \subseteq resumes',
           \A d \in Docs : Exists(d) => Exists(d)' \/ (Holds(procs[p], d) /\ ~Private(k)),
           app'.resume \in {app.resume, Nobody} \/ (Holds(procs[p], app'.resume) /\ ~Private(k))
    PROVE  Known'
<1> DEFINE h == procs[p]
<1>0. resumes \subseteq Docs /\ Nobody \notin Docs
    BY DocumentsAssumption DEF Typed, Requests, Hiring
<1>1. /\ Private(k) => Private(h) /\ k.doc = h.doc
      /\ Deleting(k) => Deleting(h) /\ k.doc = h.doc
      /\ k.kind # "decide" /\ Step(k) # "upload" /\ KnownBy(h)
      /\ \A d : Holds(k, d) => Holds(h, d)
    BY DEF Heir, Known
<1>2. \A q \in Procs : q # p /\ Private(procs[q]) => ~Holds(h, procs[q].doc)
    BY DEF Known, Separate
<1>3. \A q \in Procs : q # p /\ Private(h) => ~Holds(procs[q], h.doc)
    BY DEF Known, Separate
<1> HIDE DEF h
<1>4. Deleting(k) \/ Private(k) => k.doc \in resumes'
    BY <1>1 DEF KnownBy
<1>5. ASSUME Private(k) PROVE Exists(k.doc)' /\ k.doc # app'.resume
    <2>1. k.doc \in Docs /\ Exists(k.doc) /\ k.doc # app.resume /\ k.doc # Nobody
        BY <1>0, <1>1, <1>5 DEF KnownBy
    <2>2. k.doc # app'.resume
        BY <1>5, <2>1
    <2>3. Exists(k.doc)'
        BY <1>5, <2>1
    <2> QED BY <2>2, <2>3
<1>6. \A q \in Procs : q # p /\ Private(procs[q]) => ~Holds(k, procs[q].doc)
    BY <1>1, <1>2
<1>7. \A q \in Procs : q # p /\ Private(k) => ~Holds(procs[q], k.doc)
    BY <1>1, <1>3
<1> QED BY <1>1, <1>4, <1>5, <1>6, <1>7, KnownStep DEF h

(* The steps by what they do.                                              *)
Begins(p, k) == Started(p, k, k.kind) /\ NewRequest(k) /\ Untouched
Creates(p, k) ==
    /\ Started(p, k, "document") /\ Step(k) = "upload" /\ k.version = 1
    /\ k.doc \in Docs \ created /\ created' = created \cup {k.doc}
    /\ \A d \in Docs : Exists(d)' <=> Exists(d) \/ d = k.doc
    /\ SameApp /\ UNCHANGED <<versions, files, made, resumes>>
Makes(p, k) ==
    /\ procs[p] # Idle /\ procs' = [procs EXCEPT ![p] = k] /\ Step(procs[p]) = "resume"
    /\ procs[p].kind = "apply" /\ k.kind = "apply" /\ Step(k) = "upload" /\ k.version = 1
    /\ k.doc \in Docs \ created /\ created' = created \cup {k.doc} /\ resumes' = resumes \cup {k.doc}
    /\ \A d \in Docs : Exists(d)' <=> Exists(d) \/ d = k.doc
    /\ SameApp /\ UNCHANGED <<versions, files, made, faults>>
Stores(p, k) ==
    /\ procs[p] # Idle /\ procs' = [procs EXCEPT ![p] = k] /\ Step(procs[p]) = "upload" /\ Step(k) = "version"
    /\ k.kind = procs[p].kind /\ k.kind \in Uploading
    /\ k.doc = procs[p].doc /\ k.version = procs[p].version /\ k.file = Len(made) + 1
    /\ Len(made') = Len(made) + 1 /\ \A n \in 1..Len(made) : made'[n] = made[n]
    /\ made'[Len(made) + 1].doc = k.doc /\ files' = files \cup {Len(made) + 1}
    /\ Kept /\ SameApp /\ UNCHANGED <<versions, created, resumes, faults>>
StoreFails(p) == Drop(p, "upload") /\ {"upload"} \in faults' /\ Untouched
Adds(p, k) ==
    LET h == procs[p] IN
    /\ Pass(p, k, "version") /\ Exists(h.doc) /\ versions[h.doc][h.version] = 0
    /\ versions' = [versions EXCEPT ![h.doc][h.version] = h.file]
    /\ Kept /\ SameApp /\ UNCHANGED <<files, made, created, resumes, faults>>
AddFails(p) ==
    /\ Drop(p, "version") /\ ~(Exists(procs[p].doc) /\ versions[procs[p].doc][procs[p].version] = 0)
    /\ Untouched
Writes(p, k, s) ==
    /\ s \in {"current", "save", "softDelete", "emit", "screen"} /\ Pass(p, k, s)
    /\ \A d \in Docs : Exists(d) => Exists(d)'
    /\ \A d \in Docs : Exists(d)' => Exists(d) \/ (s = "save" /\ d = procs[p].doc)
    /\ SameApp /\ faults \subseteq faults' /\ UNCHANGED <<versions, files, made, created, resumes>>
GivesUp(p, s) == s \in {"save", "candidate"} /\ Drop(p, s) /\ Untouched
Dies(p) == (\E s : Drop(p, s)) /\ {"died"} \in faults' /\ Untouched
Finds(p, k) ==
    /\ Pass(p, k, "candidate") /\ ~(candidate /\ Applied) /\ candidate' = TRUE
    /\ Kept /\ UNCHANGED <<app, versions, files, made, created, resumes, faults>>
Applies(p, k) ==
    /\ Pass(p, k, "application") /\ candidate /\ ~Applied /\ Exists(procs[p].doc)
    /\ Applied' /\ app'.resume = procs[p].doc
    /\ Kept /\ UNCHANGED <<candidate, versions, files, made, created, resumes, faults>>
ApplyFails(p) ==
    Drop(p, "application") /\ ~(candidate /\ ~Applied /\ Exists(procs[p].doc)) /\ Untouched
Decides(p, k) ==
    /\ Pass(p, k, "decide") /\ candidate /\ Exists(procs[p].row.resume)
    /\ Applied' /\ app'.resume = procs[p].row.resume
    /\ Kept /\ faults \subseteq faults' /\ UNCHANGED <<candidate, versions, files, made, created, resumes>>
DecidesNot(p, k) == Pass(p, k, "decide") /\ Untouched
Withdraws(p, k) ==
    /\ Pass(p, k, "applications") /\ app' = NoApp
    /\ Kept /\ UNCHANGED <<candidate, versions, files, made, created, resumes, faults>>
Looks(p, k) ==
    LET h == procs[p] IN
    /\ procs[p] # Idle /\ procs' = [procs EXCEPT ![p] = k] /\ Step(h) = "purge" /\ Deleting(h)
    /\ h.kind = "erase" /\ k.kind = "erase" /\ k.doc = h.doc /\ h.doc \in Docs
    /\ \/ Exists(h.doc) /\ Step(k) = "files" /\ Deleting(k) /\ k.seen = Listing(k.doc)
       \/ ~Exists(h.doc) /\ Step(k) = "erase" /\ ~Deleting(k)
    /\ Untouched
Wiped(p, k) ==
    /\ procs[p] # Idle /\ procs' = [procs EXCEPT ![p] = k]
    /\ Step(procs[p]) = "files" /\ Step(k) = "files" /\ Deleting(procs[p]) /\ Deleting(k)
    /\ procs[p].kind = "erase" /\ k.kind = "erase" /\ k.doc = procs[p].doc
    /\ \E key \in procs[p].seen : k.seen = procs[p].seen \ {key} /\ files' = files \ {key}
    /\ Kept /\ SameApp /\ UNCHANGED <<versions, made, created, resumes, faults>>
Rejected(p) ==
    /\ Drop(p, "files") /\ {"undeleted"} \in faults' /\ faults \subseteq faults'
    /\ files' \subseteq files /\ \E key \in procs[p].seen : files \ {key} \subseteq files'
    /\ Kept /\ SameApp /\ UNCHANGED <<versions, made, created, resumes>>
Clears(p, k) == Pass(p, k, "files") /\ procs[p].seen = {} /\ Untouched
Deletes(p, k) ==
    LET d == procs[p].doc IN
    /\ Pass(p, k, "document") /\ app.resume # d
    /\ \A x \in Docs : Exists(x)' <=> Exists(x) /\ x # d
    /\ \A x \in Docs, n \in Keys : versions'[x][n] = IF x = d THEN 0 ELSE versions[x][n]
    /\ SameApp /\ UNCHANGED <<files, made, created, resumes, faults>>
DeleteFails(p) == Drop(p, "document") /\ app.resume = procs[p].doc /\ Untouched
Forgets(p, k) ==
    /\ Pass(p, k, "erase") /\ app' = NoApp /\ candidate' = FALSE
    /\ Kept /\ UNCHANGED <<versions, files, made, created, resumes, faults>>

Uploaded(p) == (\E k : Creates(p, k) \/ Makes(p, k) \/ Stores(p, k) \/ Adds(p, k)) \/ StoreFails(p) \/ AddFails(p)
Written(p) == (\E k : Begins(p, k) \/ \E s : Writes(p, k, s)) \/ Dies(p) \/ \E s : GivesUp(p, s)
Hired(p) == (\E k : Finds(p, k) \/ Applies(p, k) \/ Decides(p, k) \/ DecidesNot(p, k)) \/ ApplyFails(p)
Erased(p) ==
    \/ \E k : Withdraws(p, k) \/ Looks(p, k) \/ Wiped(p, k) \/ Clears(p, k) \/ Deletes(p, k) \/ Forgets(p, k)
    \/ Rejected(p) \/ DeleteFails(p)
Turn ==
    \/ procs' = procs /\ Untouched
    \/ \E p \in Procs : Uploaded(p) \/ Written(p) \/ Hired(p) \/ Erased(p)

LEMMA TurnCreate ==
    ASSUME Typed, Catalogue, NEW p \in Procs, NEW d \in Docs, Create(p, d), UNCHANGED <<recruiting, screening>>
    PROVE  \E k : Creates(p, k)
<1>0. Shelf /\ docs \in [Docs -> Document]
    BY DEF Typed, Shelf
<1>1. PICK k : Started(p, k, "document") /\ Step(k) = "upload" /\ k.doc = d /\ k.version = 1
    BY <1>0, CreateStarts
<1>2. PICK cat \in scenario.categories, vis \in scenario.visibilities,
           owner \in scenario.owners, actor \in scenario.owners \cup {Nobody} :
        docs' = [docs EXCEPT ![d] = [NoDoc EXCEPT !.owner = owner, !.category = cat,
                                                  !.visibility = vis, !.uploader = actor]]
    BY DEF Create
<1> DEFINE row == [NoDoc EXCEPT !.owner = owner, !.category = cat, !.visibility = vis, !.uploader = actor]
<1>3. row.category = cat
    BY DEF NoDoc
<1>4. cat # "NONE"
    BY ScenariosAssumption DEF Typed, Settings, Categories
<1>5. docs' = [docs EXCEPT ![d] = row] /\ row # NoDoc
    BY <1>2, <1>3, <1>4, BlankIs
<1> HIDE DEF row
<1>6. \A x \in Docs : Exists(x)' <=> Exists(x) \/ x = d
    BY <1>0, <1>5 DEF Exists
<1>7. SameApp /\ UNCHANGED <<versions, files, made, resumes>>
    BY DEF Create, recruiting, SameApp, Applied
<1>8. d \in Docs \ created /\ created' = created \cup {d}
    BY DEF Create
<1> QED BY <1>1, <1>6, <1>7, <1>8 DEF Creates

LEMMA TurnResume ==
    ASSUME Typed, Catalogue, NEW p \in Procs, CreateSystemDocument(p)
    PROVE  \E k : Makes(p, k)
<1>0. Shelf /\ docs \in [Docs -> Document] /\ Handler(procs[p], Len(made)) /\ Len(made) \in Nat
    BY DEF Typed, Shelf, Requests
<1> DEFINE row == [NoDoc EXCEPT !.category = "RESUME", !.visibility = "RESTRICTED"]
<1>1. PICK d \in Docs : /\ d \notin created /\ created' = created \cup {d} /\ docs' = [docs EXCEPT ![d] = row]
                        /\ resumes' = resumes \cup {d} /\ Put(p, [Rest(p) EXCEPT !.doc = d])
    BY DEF CreateSystemDocument
<1>2. row # NoDoc
    BY DEF NoDoc
<1> HIDE DEF row
<1>3. \A x \in Docs : Exists(x)' <=> Exists(x) \/ x = d
    BY <1>0, <1>1, <1>2 DEF Exists
<1>4. At(p, "resume") /\ UNCHANGED <<versions, files, made, faults, app, candidate>>
    BY DEF CreateSystemDocument
<1>5. PICK k : /\ procs' = [procs EXCEPT ![p] = k]
               /\ Step(k) = "upload" /\ procs[p].kind = "apply" /\ k.kind = "apply" /\ k.doc = d /\ k.version = 1
    BY <1>0, <1>1, <1>4, Resumes
<1>6. procs[p] # Idle /\ Step(procs[p]) = "resume"
    BY <1>4, IdleHas DEF At, Step
<1> QED BY <1>1, <1>3, <1>4, <1>5, <1>6 DEF Makes, SameApp, Applied

LEMMA TurnUpload ==
    ASSUME Typed, NEW p \in Procs, Upload(p), UNCHANGED <<recruiting, screening>>
    PROVE  (\E k : Stores(p, k)) \/ StoreFails(p)
<1>0. Shelf /\ Requests /\ At(p, "upload") /\ Handler(procs[p], Len(made)) /\ Len(made) \in Nat
    BY DEF Typed, Shelf, Requests, Upload
<1>1. UNCHANGED <<docs, versions, created, app, candidate, resumes>>
    BY DEF Upload, recruiting
<1>2. Kept /\ SameApp
    BY <1>1 DEF Kept, SameApp, Exists, Applied
<1>3. CASE Abort(p) /\ faults' = faults \cup {{"upload"}} /\ UNCHANGED <<made, files>>
    BY <1>0, <1>1, <1>2, <1>3, Drops DEF StoreFails, Untouched
<1>4. CASE ~(Abort(p) /\ faults' = faults \cup {{"upload"}} /\ UNCHANGED <<made, files>>)
    <2> DEFINE n == Len(made)
               r == [content |-> procs[p].content, doc |-> procs[p].doc]
    <2>1. /\ made' = Append(made, r) /\ files' = files \cup {n + 1}
          /\ Put(p, [Rest(p) EXCEPT !.file = n + 1]) /\ UNCHANGED faults
        BY <1>4 DEF Upload
    <2>2. made \in Seq([content : {"text", "image"}, doc : Docs]) /\ n = Len(made) /\ n \in Nat
        BY <1>0 DEF Shelf
    <2>3. PICK k : /\ procs' = [procs EXCEPT ![p] = k]
                   /\ Step(k) = "version" /\ k.kind = procs[p].kind /\ k.file = n + 1
                   /\ k.doc = procs[p].doc /\ k.version = procs[p].version /\ k.kind \in Uploading /\ k.doc \in Docs
        <3>1. Handler(procs[p], n) /\ n \in Nat
            BY <1>0
        <3> HIDE DEF n
        <3> QED BY <1>0, <2>1, <3>1, Uploads
    <2>4. r.doc = k.doc /\ r \in [content : {"text", "image"}, doc : Docs]
        BY <1>0, <2>3 DEF Handler
    <2> HIDE DEF r
    <2>5. Len(made') = n + 1 /\ made'[n + 1] = r /\ \A i \in 1..n : made'[i] = made[i]
        BY <2>1, <2>2, <2>4, AppendProperties
    <2>6. procs[p] # Idle /\ Step(procs[p]) = "upload"
        BY <1>0, IdleHas DEF At, Step
    <2> QED BY <1>1, <1>2, <2>1, <2>3, <2>4, <2>5, <2>6 DEF Stores
<1> QED BY <1>3, <1>4

LEMMA TurnVersion ==
    ASSUME Typed, NEW p \in Procs, SaveVersion(p), UNCHANGED <<recruiting, screening>>
    PROVE  (\E k : Adds(p, k)) \/ AddFails(p)
<1>0. Requests /\ Len(made) \in Nat /\ At(p, "version")
    BY DEF Typed, Shelf, SaveVersion
<1>1. /\ UNCHANGED <<docs, files, made, created, resumes, faults, app, candidate>>
    BY DEF SaveVersion, recruiting
<1>2. Kept /\ SameApp
    BY <1>1 DEF Kept, SameApp, Exists, Applied
<1>3. CASE Exists(procs[p].doc) /\ versions[procs[p].doc][procs[p].version] = 0
    <2>1. /\ versions' = [versions EXCEPT ![procs[p].doc][procs[p].version] = procs[p].file]
          /\ Put(p, Rest(p))
        BY <1>3 DEF SaveVersion
    <2>2. PICK k : Pass(p, k, "version")
        BY <1>0, <2>1, Passes
    <2> QED BY <1>1, <1>2, <1>3, <2>1, <2>2 DEF Adds
<1>4. CASE ~(Exists(procs[p].doc) /\ versions[procs[p].doc][procs[p].version] = 0)
    <2>1. Abort(p) /\ UNCHANGED versions
        BY <1>4 DEF SaveVersion
    <2> QED BY <1>0, <1>1, <1>2, <1>4, <2>1, Drops DEF AddFails, Untouched
<1> QED BY <1>3, <1>4

LEMMA TurnWrite ==
    ASSUME Typed, Catalogue, NEW p \in Procs, UNCHANGED <<recruiting, screening>>,
           SetCurrent(p) \/ SaveRow(p) \/ SoftDelete(p) \/ Emit(p)
    PROVE  (\E k, s : Writes(p, k, s)) \/ GivesUp(p, "save")
<1>0. /\ Requests /\ Len(made) \in Nat /\ docs \in [Docs -> Document] /\ Rows
      /\ Handler(procs[p], Len(made)) /\ Saves(procs[p])
    BY DEF Typed, Shelf, Requests, Catalogue
<1>1. /\ UNCHANGED <<versions, files, made, created, resumes, app, candidate>> /\ faults \subseteq faults'
      /\ SameApp
    BY DEF SetCurrent, SaveRow, SoftDelete, Emit, library, recruiting, SameApp, Applied
<1>2. PICK s \in {"current", "save", "softDelete", "emit"} :
          /\ (At(p, s) /\ Put(p, Rest(p))) \/ (SaveRow(p) /\ Abort(p) /\ docs' = docs)
          /\ SaveRow(p) => s = "save"
          /\ Emit(p) => docs' = docs
    BY DEF SetCurrent, SaveRow, SoftDelete, Emit, At, library
<1>a. At(p, s)
    BY <1>2 DEF SaveRow, At
<1> DEFINE d == procs[p].doc
<1>b. d \in Docs
    <2>1. Step(procs[p]) \in DocSteps
        BY <1>a DEF At, Step, DocSteps
    <2> QED BY <1>0, <2>1 DEF Handler
<1>3. \/ docs' = docs
      \/ \E row : docs' = [docs EXCEPT ![d] = row] /\ row.category # "NONE" /\ (Exists(d) \/ s = "save")
    <2>1. CASE SaveRow(p)
        <3>1. docs' = docs \/ docs' = [docs EXCEPT ![d] = procs[p].row]
            BY <2>1 DEF SaveRow
        <3>2. s = "save" /\ Step(procs[p]) = "save"
            BY <1>2, <1>a, <2>1 DEF At, Step
        <3> QED BY <1>0, <3>1, <3>2 DEF Saves
    <2>2. CASE SetCurrent(p)
        <3> DEFINE row == [docs[d] EXCEPT !.current = procs[p].file, !.indexed = FALSE]
        <3>1. docs' = docs \/ (Exists(d) /\ docs' = [docs EXCEPT ![d] = row])
            BY <1>0, <1>b, <2>2 DEF SetCurrent
        <3>2. row.category = docs[d].category
            BY <1>0, <1>b DEF Document
        <3> QED BY <1>0, <1>b, <3>1, <3>2 DEF Rows, Exists
    <2>3. CASE SoftDelete(p)
        <3> DEFINE row == [docs[d] EXCEPT !.deleted = TRUE]
        <3>1. docs' = docs \/ (Exists(d) /\ docs' = [docs EXCEPT ![d] = row])
            BY <1>0, <1>b, <2>3 DEF SoftDelete
        <3>2. row.category = docs[d].category
            BY <1>0, <1>b DEF Document
        <3> QED BY <1>0, <1>b, <3>1, <3>2 DEF Rows, Exists
    <2>4. CASE Emit(p)
        BY <1>2, <2>4
    <2> QED BY <2>1, <2>2, <2>3, <2>4
<1> HIDE DEF d
<1>4. /\ \A x \in Docs : Exists(x) => Exists(x)'
      /\ \A x \in Docs : Exists(x)' => Exists(x) \/ (s = "save" /\ x = d)
    <2>1. CASE docs' = docs
        BY <2>1 DEF Exists
    <2>2. CASE docs' # docs
        <3>1. PICK row : docs' = [docs EXCEPT ![d] = row] /\ row.category # "NONE" /\ (Exists(d) \/ s = "save")
            BY <1>3, <2>2
        <3>2. row # NoDoc
            BY <3>1, BlankIs
        <3>3. \A x \in Docs : Exists(x)' <=> x = d \/ Exists(x)
            BY <1>0, <1>b, <3>1, <3>2 DEF Exists
        <3> QED BY <3>1, <3>3
    <2> QED BY <2>1, <2>2
<1>5. CASE Put(p, Rest(p))
    <2>1. PICK k : Pass(p, k, s)
        BY <1>0, <1>a, <1>5, Passes
    <2> QED BY <1>1, <1>4, <2>1 DEF Writes, d
<1>6. CASE SaveRow(p) /\ Abort(p) /\ docs' = docs
    <2>1. s = "save" /\ Drop(p, "save")
        BY <1>0, <1>2, <1>a, <1>6, Drops
    <2>2. Kept
        BY <1>6 DEF Kept, Exists
    <2> QED BY <1>1, <2>1, <2>2 DEF GivesUp, Untouched
<1> QED BY <1>2, <1>5, <1>6

LEMMA TurnDie ==
    ASSUME Typed, NEW p \in Procs, Die(p), UNCHANGED <<recruiting, screening>>
    PROVE  Dies(p)
<1>1. Requests /\ procs[p] # Idle /\ Abort(p) /\ {"died"} \in faults' /\ faults \subseteq faults'
    BY DEF Die, Typed
<1>2. UNCHANGED <<docs, versions, files, made, created, resumes, app, candidate>>
    BY DEF Die, library, recruiting
<1>3. Untouched
    BY <1>1, <1>2 DEF Untouched, Kept, SameApp, Exists, Applied
<1>4. procs[p].todo # <<>>
    BY <1>1 DEF Requests, Handler
<1>5. At(p, Head(procs[p].todo))
    BY <1>4 DEF At
<1>6. Drop(p, Head(procs[p].todo))
    BY <1>1, <1>5, Drops
<1> QED BY <1>1, <1>3, <1>6 DEF Dies

LEMMA TurnHire ==
    ASSUME Typed, NEW p \in Procs,
           FindCandidate(p) \/ SaveApplication(p) \/ EnqueueScreen(p) \/ SaveStatus(p)
    PROVE  Hired(p) \/ Written(p)
<1>0. Requests /\ Len(made) \in Nat /\ Handler(procs[p], Len(made)) /\ Hiring
    BY DEF Typed, Shelf, Requests
<1>1. CASE FindCandidate(p)
    <2>1. At(p, "candidate") /\ UNCHANGED <<docs, versions, files, made, created, resumes, faults, app>>
        BY <1>1 DEF FindCandidate, library
    <2>2. Kept
        BY <2>1 DEF Kept, Exists
    <2>3. CASE candidate /\ Applied
        <3>1. Abort(p) /\ UNCHANGED candidate
            BY <1>1, <2>3 DEF FindCandidate
        <3>2. SameApp
            BY <2>1, <3>1 DEF SameApp, Applied
        <3> QED BY <1>0, <2>1, <2>2, <3>1, <3>2, Drops DEF GivesUp, Untouched, Written
    <2>4. CASE ~(candidate /\ Applied)
        <3>1. Put(p, Rest(p)) /\ candidate' = TRUE
            BY <1>1, <2>4 DEF FindCandidate
        <3>2. PICK k : Pass(p, k, "candidate")
            BY <1>0, <2>1, <3>1, Passes
        <3> QED BY <2>1, <2>2, <2>4, <3>1, <3>2 DEF Finds, Hired
    <2> QED BY <2>3, <2>4
<1>2. CASE SaveApplication(p)
    <2>1. At(p, "application") /\ UNCHANGED <<docs, versions, files, made, created, resumes, faults, candidate>>
        BY <1>2 DEF SaveApplication, library
    <2>2. Kept
        BY <2>1 DEF Kept, Exists
    <2>3. CASE candidate /\ ~Applied /\ Exists(procs[p].doc)
        <3>1. Put(p, Rest(p)) /\ app' = [NoApp EXCEPT !.status = "APPLIED", !.resume = procs[p].doc]
            BY <1>2, <2>3 DEF SaveApplication
        <3>2. app'.resume = procs[p].doc /\ app'.status = "APPLIED"
            BY <3>1 DEF NoApp
        <3>3. Applied'
            BY <3>2, BlankRow DEF Applied
        <3>4. PICK k : Pass(p, k, "application")
            BY <1>0, <2>1, <3>1, Passes
        <3> QED BY <2>1, <2>2, <2>3, <3>2, <3>3, <3>4 DEF Applies, Hired
    <2>4. CASE ~(candidate /\ ~Applied /\ Exists(procs[p].doc))
        <3>1. Abort(p) /\ UNCHANGED app
            BY <1>2, <2>4 DEF SaveApplication
        <3>2. SameApp
            BY <2>1, <3>1 DEF SameApp, Applied
        <3> QED BY <1>0, <2>1, <2>2, <2>4, <3>1, <3>2, Drops DEF ApplyFails, Untouched, Hired
    <2> QED BY <2>3, <2>4
<1>3. CASE EnqueueScreen(p)
    <2>1. /\ At(p, "screen") /\ Put(p, Rest(p))
          /\ UNCHANGED <<docs, versions, files, made, created, resumes, faults, app, candidate>>
        BY <1>3 DEF EnqueueScreen, library, recruiting
    <2>2. PICK k : Pass(p, k, "screen")
        BY <1>0, <2>1, Passes
    <2> QED BY <2>1, <2>2 DEF Writes, Written, SameApp, Exists, Applied
<1>4. CASE SaveStatus(p)
    <2>1. /\ At(p, "decide") /\ Put(p, Rest(p)) /\ faults \subseteq faults'
          /\ UNCHANGED <<docs, versions, files, made, created, resumes, candidate>>
        BY <1>4 DEF SaveStatus, library
    <2>2. Kept
        BY <2>1 DEF Kept, Exists
    <2>3. PICK k : Pass(p, k, "decide")
        BY <1>0, <2>1, Passes
    <2>4. CASE candidate /\ Exists(procs[p].row.resume)
        <3>1. app' = procs[p].row
            BY <1>4, <2>4 DEF SaveStatus
        <3>2. procs[p].kind = "decide"
            BY <2>3 DEF Pass, Leads
        <3>3. Applied'
            BY <1>0, <3>1, <3>2, BlankRow DEF Handler, Applied, AppStatus
        <3> QED BY <2>1, <2>2, <2>3, <2>4, <3>1, <3>3 DEF Decides, Hired
    <2>5. CASE ~(candidate /\ Exists(procs[p].row.resume))
        <3>1. UNCHANGED <<app, faults>>
            BY <1>4, <2>5 DEF SaveStatus
        <3>2. SameApp
            BY <2>1, <3>1 DEF SameApp, Applied
        <3> QED BY <2>1, <2>2, <2>3, <3>2 DEF DecidesNot, Untouched, Hired
    <2> QED BY <2>4, <2>5
<1> QED BY <1>1, <1>2, <1>3, <1>4

LEMMA TurnErase ==
    ASSUME Typed, NEW p \in Procs,
           DeleteApplications(p) \/ Purge(p) \/ DeleteFiles(p) \/ DeleteDocument(p) \/ DeleteCandidate(p)
    PROVE  Erased(p)
<1>0. /\ Requests /\ Len(made) \in Nat /\ Handler(procs[p], Len(made)) /\ Shelf
      /\ docs \in [Docs -> Document] /\ versions \in [Docs -> DocumentVersion]
    BY DEF Typed, Shelf, Requests
<1>1. CASE DeleteApplications(p)
    <2>1. /\ At(p, "applications") /\ Put(p, Rest(p)) /\ app' = NoApp
          /\ UNCHANGED <<docs, versions, files, made, created, resumes, faults, candidate>>
        BY <1>1 DEF DeleteApplications, library
    <2>2. PICK k : Pass(p, k, "applications")
        BY <1>0, <2>1, Passes
    <2> QED BY <2>1, <2>2 DEF Withdraws, Kept, Exists, Erased
<1>2. CASE Purge(p)
    <2>1. UNCHANGED <<docs, versions, files, made, created, resumes, faults, app, candidate>>
        BY <1>2 DEF Purge, library, recruiting
    <2>2. Untouched
        BY <2>1 DEF Untouched, Kept, SameApp, Exists, Applied
    <2>3. PICK k : /\ procs' = [procs EXCEPT ![p] = k]
                   /\ procs[p].kind = "erase" /\ k.kind = "erase" /\ k.doc = procs[p].doc
                   /\ procs[p].doc \in Docs /\ Step(procs[p]) = "purge" /\ Deleting(procs[p])
                   /\ IF Exists(procs[p].doc)
                      THEN /\ Step(k) = "files" /\ Deleting(k) /\ k.seen = Listing(k.doc)
                      ELSE Step(k) = "erase" /\ ~Deleting(k)
        BY <1>0, <1>2, Purges
    <2>4. procs[p] # Idle
        BY <2>3, IdleHas
    <2> QED BY <2>2, <2>3, <2>4 DEF Looks, Erased
<1>3. CASE DeleteFiles(p)
    <2>1. At(p, "files") /\ UNCHANGED <<docs, versions, made, created, resumes, app, candidate>>
        BY <1>3 DEF DeleteFiles, recruiting
    <2>2. Kept /\ SameApp
        BY <2>1 DEF Kept, SameApp, Exists, Applied
    <2>3. CASE procs[p].seen = {} /\ Put(p, Rest(p)) /\ UNCHANGED <<files, faults>>
        <3>1. PICK k : Pass(p, k, "files")
            BY <1>0, <2>1, <2>3, Passes
        <3> QED BY <2>1, <2>2, <2>3, <3>1 DEF Clears, Untouched, Erased
    <2>4. ASSUME NEW key, Wipe(p, key), files' = files \ {key}, UNCHANGED faults PROVE Erased(p)
        <3> DEFINE h == procs[p]
                   n == Len(made)
        <3>1. Requests /\ Handler(procs[p], n) /\ key \in procs[p].seen
            BY <1>0, <2>4 DEF Wipe
        <3> HIDE DEF n
        <3>2. PICK k : /\ procs' = [procs EXCEPT ![p] = k] /\ Handler(k, n)
                       /\ k.seen = procs[p].seen \ {key}
                       /\ k.todo = procs[p].todo /\ k.kind = procs[p].kind /\ k.doc = procs[p].doc
                       /\ Step(k) = "files" /\ procs[p].kind = "erase" /\ procs[p] # Idle
            BY <2>4, <3>1, Wipes
        <3>3. Step(procs[p]) = "files"
            BY <3>2 DEF Step
        <3>a. h.kind = "erase" /\ Step(h) = "files" /\ Handler(h, n)
            BY <3>1, <3>2, <3>3
        <3>4. Deleting(procs[p])
            <4> HIDE DEF h
            <4>1. h.todo # <<>> /\ Head(h.todo) = "files" /\ Planned(h.todo, "erase")
                BY <3>a DEF Step, Handler
            <4>2. Deleting(h)
                BY <3>a, <4>1, PurgeDeletes DEF Deleting
            <4> QED BY <4>2 DEF h
        <3>5. Deleting(k)
            BY <3>2, <3>4 DEF Deleting
        <3> QED BY <2>1, <2>2, <2>4, <3>1, <3>2, <3>3, <3>4, <3>5 DEF Wiped, Erased
    <2>5. CASE Abort(p) /\ {"undeleted"} \in faults' /\ faults \subseteq faults' /\ files' \subseteq files
               /\ \E key \in procs[p].seen : files \ {key} \subseteq files'
        <3>1. Drop(p, "files")
            BY <1>0, <2>1, <2>5, Drops
        <3> QED BY <2>1, <2>2, <2>5, <3>1 DEF Rejected, Erased
    <2> QED BY <1>3, <2>3, <2>4, <2>5, DeletesFiles
<1>4. CASE DeleteDocument(p)
    <2>1. At(p, "document") /\ UNCHANGED <<files, made, created, resumes, faults, app, candidate>>
        BY <1>4 DEF DeleteDocument, recruiting
    <2>2. SameApp
        BY <2>1 DEF SameApp, Applied
    <2>3. CASE app.resume = procs[p].doc
        <3>1. Abort(p) /\ UNCHANGED <<docs, versions>>
            BY <1>4, <2>3 DEF DeleteDocument
        <3>2. Drop(p, "document")
            BY <1>0, <2>1, <3>1, Drops
        <3> QED BY <2>1, <2>2, <2>3, <3>1, <3>2 DEF DeleteFails, Untouched, Kept, Exists, Erased
    <2>4. CASE app.resume # procs[p].doc
        <3> DEFINE d == procs[p].doc
                   blank == [n \in Keys |-> 0]
        <3>1. docs' = [docs EXCEPT ![d] = NoDoc] /\ versions' = [versions EXCEPT ![d] = blank] /\ Put(p, Rest(p))
            BY <1>4, <2>4 DEF DeleteDocument
        <3>2. PICK k : Pass(p, k, "document")
            BY <1>0, <2>1, <3>1, Passes
        <3>3. d \in Docs
            BY <1>0, <3>2 DEF Pass, Handler
        <3>4. \A n \in Keys : blank[n] = 0
            OBVIOUS
        <3> HIDE DEF d, blank
        <3>5. \A x \in Docs : Exists(x)' <=> Exists(x) /\ x # d
            BY <1>0, <3>1, <3>3 DEF Exists
        <3>6. \A x \in Docs : versions'[x] = IF x = d THEN blank ELSE versions[x]
            BY <1>0, <3>1, <3>3
        <3>7. \A x \in Docs, n \in Keys : versions'[x][n] = IF x = d THEN 0 ELSE versions[x][n]
            BY <3>4, <3>6
        <3> QED BY <2>1, <2>2, <2>4, <3>2, <3>5, <3>7 DEF Deletes, d, Erased
    <2> QED BY <2>3, <2>4
<1>5. CASE DeleteCandidate(p)
    <2>1. /\ At(p, "erase") /\ Put(p, Rest(p)) /\ app' = NoApp /\ candidate' = FALSE
          /\ UNCHANGED <<docs, versions, files, made, created, resumes, faults>>
        BY <1>5 DEF DeleteCandidate, library
    <2>2. PICK k : Pass(p, k, "erase")
        BY <1>0, <2>1, Passes
    <2> QED BY <2>1, <2>2 DEF Forgets, Kept, Exists, Erased
<1> QED BY <1>1, <1>2, <1>3, <1>4, <1>5

LEMMA Turns == Typed /\ Catalogue /\ [Next]_vars => Turn
<1> SUFFICES ASSUME Typed, Catalogue, [Next]_vars PROVE Turn
    OBVIOUS
<1> DEFINE Rest_ == UNCHANGED <<recruiting, screening>>
<1>1. ASSUME \/ UNCHANGED vars
             \/ Reindex /\ Rest_
             \/ \E w \in Workers : IndexJob(w) /\ Rest_
             \/ CreateOpening \/ UpdateOpening \/ GrowOld
             \/ \E p \in Procs : Rescreen(p)
             \/ \E s \in Screeners : ScreeningJob(s)
      PROVE  Turn
    BY <1>1, Background DEF Turn
<1>2. ASSUME NEW p \in Procs, NEW d \in Docs, Create(p, d), Rest_ PROVE Turn
    BY <1>2, TurnCreate DEF Turn, Uploaded
<1>3. ASSUME NEW p \in Procs,
             \/ (\E d \in Docs : AddVersion(p, d) \/ Update(p, d) \/ Remove(p, d)) /\ Rest_
             \/ Apply(p) \/ UpdateStatus(p) \/ EraseCandidate(p) \/ Retention(p)
      PROVE  Turn
    <2>1. PICK k : Started(p, k, k.kind) /\ NewRequest(k) /\ Untouched
        BY <1>3, Starting
    <2> QED BY <2>1 DEF Begins, Written, Turn
<1>4. ASSUME NEW p \in Procs, Upload(p), Rest_ PROVE Turn
    BY <1>4, TurnUpload DEF Turn, Uploaded
<1>5. ASSUME NEW p \in Procs, SaveVersion(p), Rest_ PROVE Turn
    BY <1>5, TurnVersion DEF Turn, Uploaded
<1>6. ASSUME NEW p \in Procs, SetCurrent(p) \/ SaveRow(p) \/ SoftDelete(p) \/ Emit(p), Rest_ PROVE Turn
    BY <1>6, TurnWrite DEF Turn, Written
<1>7. ASSUME NEW p \in Procs, Die(p), Rest_ PROVE Turn
    BY <1>7, TurnDie DEF Turn, Written
<1>8. ASSUME NEW p \in Procs, CreateSystemDocument(p) PROVE Turn
    BY <1>8, TurnResume DEF Turn, Uploaded
<1>9. ASSUME NEW p \in Procs, FindCandidate(p) \/ SaveApplication(p) \/ EnqueueScreen(p) \/ SaveStatus(p) PROVE Turn
    BY <1>9, TurnHire DEF Turn
<1>10. ASSUME NEW p \in Procs,
              DeleteApplications(p) \/ Purge(p) \/ DeleteFiles(p) \/ DeleteDocument(p) \/ DeleteCandidate(p)
       PROVE  Turn
    BY <1>10, TurnErase DEF Turn
<1> QED
    BY <1>1, <1>2, <1>3, <1>4, <1>5, <1>6, <1>7, <1>8, <1>9, <1>10
    DEF Next, Stored, DocumentsNext, DocumentRequest, RecruitingRequest, Erasure

LEMMA FiledStays ==
    ASSUME Typed, Known, Kept, SameApp, UNCHANGED <<created, resumes>>,
           \A n \in 1..Len(made') : made'[n].doc \in created
    PROVE  Filed'
<1>1. resumes \subseteq Docs
    BY DEF Typed, Hiring
<1>2. Applied' => app'.resume = app.resume /\ app.resume \in Docs /\ Exists(app.resume) /\ candidate
    BY <1>1 DEF SameApp, Known, Filed
<1>3. Applied' => Exists(app.resume)'
    BY <1>2 DEF Kept, Exists
<1> QED BY <1>2, <1>3 DEF Filed, Known, SameApp

LEMMA KnownStill == ASSUME Typed, Known, procs' = procs, Untouched PROVE Known'
<1>1. Filed'
    BY FiledStays DEF Untouched, Known, Filed
<1>2. Separate'
    BY DEF Known, Separate
<1>3. ASSUME NEW q \in Procs PROVE KnownBy(procs[q])'
    <2>0. PICK h : h = procs[q]
        OBVIOUS
    <2>1. procs'[q] = h /\ KnownBy(h) /\ resumes \subseteq Docs
        BY <2>0 DEF Known, Typed, Hiring
    <2>2. Private(h) => Exists(h.doc)' /\ h.doc # app'.resume
        BY <2>1 DEF KnownBy, Untouched, Kept, SameApp
    <2> QED BY <2>1, <2>2 DEF KnownBy, Untouched
<1> QED BY <1>1, <1>2, <1>3 DEF Known

LEMMA KnownBegins ==
    ASSUME Typed, Catalogue, Known, NEW p \in Procs, NEW k, Begins(p, k)
    PROVE  Known'
<1>0. /\ procs[p] = Idle /\ procs' = [procs EXCEPT ![p] = k] /\ NewRequest(k)
      /\ Kept /\ SameApp /\ UNCHANGED <<made, created, resumes>>
    BY DEF Begins, Started, Untouched
<1>1. Filed'
    BY <1>0, FiledStays DEF Known, Filed
<1>2. \A d \in Docs : Exists(d) => d \in created
    BY DEF Catalogue, Rows, Exists
<1>3. Applied => app.resume \in resumes
    BY DEF Known, Filed
<1>4. /\ Step(k) = "upload" => k.doc \in created
      /\ Deleting(k) => k.doc \in resumes /\ k.doc = app.resume
      /\ k.kind = "decide" => k.row.resume \in resumes /\ k.row.resume = app.resume
      /\ ~Private(k)
    BY <1>0, <1>2, <1>3 DEF NewRequest, Deleting, Private
<1>5. \A d : Holds(k, d) => d = app.resume
    BY <1>4 DEF Holds
<1>6. \A q \in Procs : Private(procs[q]) => procs[q].doc # app.resume
    BY DEF Known, KnownBy
<1>7. app'.resume = app.resume /\ \A d \in Docs : Exists(d) => Exists(d)'
    BY <1>0 DEF SameApp, Kept
<1> QED BY <1>0, <1>1, <1>4, <1>5, <1>6, <1>7, KnownStep

LEMMA KnownCreates ==
    ASSUME Typed, Known, NEW p \in Procs, NEW k, Creates(p, k)
    PROVE  Known'
<1>0. /\ procs[p] = Idle /\ procs' = [procs EXCEPT ![p] = k] /\ k.kind = "document"
      /\ k.doc \in created' /\ created \subseteq created' /\ SameApp /\ UNCHANGED <<made, resumes>>
      /\ \A d \in Docs : Exists(d) => Exists(d)'
    BY DEF Creates, Started
<1>1. Filed'
    <2>1. resumes \subseteq Docs
        BY DEF Typed, Hiring
    <2>2. Applied' => app'.resume = app.resume /\ app.resume \in Docs /\ Exists(app.resume) /\ candidate
        BY <1>0, <2>1 DEF SameApp, Known, Filed
    <2>3. Applied' => Exists(app.resume)'
        BY <1>0, <2>2 DEF Exists
    <2> QED BY <1>0, <2>2, <2>3 DEF Filed, Known, SameApp
<1>2. ~Deleting(k) /\ ~Private(k) /\ k.kind # "decide" /\ \A d : ~Holds(k, d)
    BY <1>0 DEF Deleting, Private, Holds
<1>3. app'.resume = app.resume
    BY <1>0 DEF SameApp
<1> QED BY <1>0, <1>1, <1>2, <1>3, KnownStep

LEMMA KnownMakes ==
    ASSUME Typed, Known, NEW p \in Procs, NEW k, Makes(p, k)
    PROVE  Known'
<1>0. /\ procs' = [procs EXCEPT ![p] = k] /\ k.kind = "apply" /\ k.doc \in Docs \ created
      /\ created' = created \cup {k.doc} /\ resumes' = resumes \cup {k.doc} /\ SameApp /\ UNCHANGED made
      /\ \A d \in Docs : Exists(d)' <=> Exists(d) \/ d = k.doc
    BY DEF Makes
<1>a. resumes \subseteq Docs /\ resumes \subseteq created /\ Nobody \notin Docs
    BY DocumentsAssumption DEF Typed, Hiring, Known, Filed
<1>1. Filed'
    <2>2. Applied' => app'.resume = app.resume /\ app.resume \in Docs /\ Exists(app.resume) /\ candidate
        BY <1>0, <1>a DEF SameApp, Known, Filed
    <2>3. Applied' => Exists(app.resume)'
        BY <1>0, <2>2 DEF Exists
    <2> QED BY <1>0, <2>2, <2>3 DEF Filed, Known, SameApp
<1>2. ~Deleting(k) /\ \A d : Holds(k, d) => d = k.doc
    BY <1>0 DEF Deleting, Holds
<1>3. app.resume \in created \cup {Nobody}
    BY <1>a DEF Known, Filed, Applied, NoApp
<1>4. Exists(k.doc)' /\ k.doc # app'.resume
    BY <1>0, <1>a, <1>3 DEF SameApp
<1>5. \A q \in Procs : (Private(procs[q]) => procs[q].doc \in created) /\ \A d : Holds(procs[q], d) => d \in created
    BY <1>a DEF Known, KnownBy, Holds
<1>6. \A q \in Procs : Private(procs[q]) => ~Holds(k, procs[q].doc)
    BY <1>0, <1>2, <1>5
<1>7. \A q \in Procs : ~Holds(procs[q], k.doc)
    BY <1>0, <1>5
<1>8. app'.resume = app.resume
    BY <1>0 DEF SameApp
<1> QED BY <1>0, <1>1, <1>2, <1>4, <1>6, <1>7, <1>8, KnownStep

LEMMA KnownStores ==
    ASSUME Typed, Known, NEW p \in Procs, NEW k, Stores(p, k)
    PROVE  Known'
<1> DEFINE h == procs[p]
           n == Len(made)
<1>0. /\ procs' = [procs EXCEPT ![p] = k] /\ Step(h) = "upload" /\ Step(k) = "version"
      /\ k.kind = h.kind /\ k.kind \in Uploading /\ k.doc = h.doc
      /\ Kept /\ SameApp /\ UNCHANGED <<created, resumes>>
      /\ Len(made') = n + 1 /\ (\A i \in 1..n : made'[i] = made[i]) /\ made'[n + 1].doc = k.doc
    BY DEF Stores
<1>1. k.doc \in created
    BY <1>0 DEF Known, KnownBy
<1>2. Filed'
    <2>1. n \in Nat
        BY DEF Typed, Shelf
    <2>2. \A i \in 1..n : made[i].doc \in created
        BY DEF Known, Filed
    <2>3. \A i \in 1..Len(made') : made'[i].doc \in created
        <3> HIDE DEF n
        <3> QED BY <1>0, <1>1, <2>1, <2>2
    <2> QED BY <1>0, <2>3, FiledStays
<1>3. Heir(h, k)
    <2> HIDE DEF h
    <2>1. Private(k) <=> Private(h)
        BY <1>0 DEF Private, Uploading
    <2>2. ~Deleting(k) /\ k.kind # "decide"
        BY <1>0 DEF Deleting, Uploading
    <2> QED BY <1>0, <2>1, <2>2 DEF Heir, Holds
<1>4. app'.resume = app.resume /\ \A d \in Docs : Exists(d) => Exists(d)'
    BY <1>0 DEF SameApp, Kept
<1> QED BY <1>0, <1>2, <1>3, <1>4, KnownHeir

(* A request ends in the middle.                                           *)
LEMMA KnownDrops ==
    ASSUME Typed, Known, NEW p \in Procs, NEW s, Drop(p, s), Kept, SameApp, UNCHANGED <<made, created, resumes>>
    PROVE  Known'
<1>1. Filed'
    BY FiledStays DEF Known, Filed
<1>2. app'.resume = app.resume /\ (\A d \in Docs : Exists(d) => Exists(d)') /\ UNCHANGED <<created, resumes>>
    BY DEF SameApp, Kept
<1> QED BY <1>1, <1>2, IdleHeir, KnownHeir DEF Drop

(* A request goes on and neither rows nor the application go away.         *)
LEMMA KnownPasses ==
    ASSUME Typed, Known, NEW p \in Procs, NEW k, NEW s, Pass(p, k, s), s # "resume",
           \A d \in Docs : Exists(d) => Exists(d)', app'.resume = app.resume, Applied' <=> Applied,
           candidate => candidate', UNCHANGED <<made, created, resumes>>
    PROVE  Known'
<1>1. Filed'
    <2>1. resumes \subseteq Docs
        BY DEF Typed, Hiring
    <2>2. Applied' => app'.resume = app.resume /\ app.resume \in Docs /\ Exists(app.resume) /\ candidate
        BY <2>1 DEF Known, Filed
    <2>3. Applied' => Exists(app.resume)'
        BY <2>2 DEF Exists
    <2> QED BY <2>2, <2>3 DEF Filed, Known
<1> QED BY <1>1, PassHeir, KnownHeir DEF Pass

LEMMA KnownApplies ==
    ASSUME Typed, Known, NEW p \in Procs, NEW k, Applies(p, k) \/ Decides(p, k)
    PROVE  Known'
<1> DEFINE h == procs[p]
           d == IF Applies(p, k) THEN h.doc ELSE h.row.resume
<1>1. PICK s \in {"application", "decide"} :
          /\ Pass(p, k, s) /\ candidate /\ Exists(d) /\ app'.resume = d
          /\ Kept /\ UNCHANGED <<candidate, made, created, resumes>>
          /\ d = IF s = "application" THEN h.doc ELSE h.row.resume
    <2>1. CASE Applies(p, k)
        BY <2>1 DEF Applies
    <2>2. CASE ~Applies(p, k)
        BY <2>2 DEF Decides
    <2> QED BY <2>1, <2>2
<1> HIDE DEF d
<1>2. Holds(h, d) /\ ~Private(k) /\ d \in resumes
    <2>1. KnownBy(h) /\ Step(h) = s
        BY <1>1 DEF Known, Pass
    <2>2. CASE s = "application"
        <3>1. h.kind = "apply" /\ Step(k) = "screen"
            BY <1>1, <2>2 DEF Pass, Leads
        <3>2. Private(h) /\ ~Private(k)
            BY <2>1, <2>2, <3>1 DEF Private
        <3> QED BY <1>1, <2>1, <2>2, <3>2 DEF KnownBy, Holds
    <2>3. CASE s = "decide"
        <3>1. h.kind = "decide" /\ Step(k) = "none"
            BY <1>1, <2>3 DEF Pass, Leads
        <3>2. ~Private(k)
            BY <3>1 DEF Private
        <3> QED BY <1>1, <2>1, <2>3, <3>1, <3>2 DEF KnownBy, Holds
    <2> QED BY <1>1, <2>2, <2>3
<1>3. d \in Docs
    BY <1>2 DEF Typed, Hiring
<1>4. Filed'
    BY <1>1, <1>2, <1>3 DEF Filed, Known, Kept, Exists
<1>5. Heir(h, k) /\ procs' = [procs EXCEPT ![p] = k]
    BY <1>1, PassHeir DEF Pass
<1>6. \A x \in Docs : Exists(x) => Exists(x)'
    BY <1>1 DEF Kept
<1> QED BY <1>1, <1>2, <1>4, <1>5, <1>6, KnownHeir

LEMMA KnownEnds ==
    ASSUME Typed, Known, NEW p \in Procs, NEW k, Withdraws(p, k) \/ Forgets(p, k)
    PROVE  Known'
<1>1. PICK s \in {"applications", "erase"} :
          /\ Pass(p, k, s) /\ app' = NoApp /\ Kept /\ UNCHANGED <<made, created, resumes>>
    BY DEF Withdraws, Forgets
<1>2. Filed' /\ app'.resume = Nobody
    BY <1>1 DEF Known, Filed, Applied, NoApp
<1>3. \A d \in Docs : Exists(d) => Exists(d)'
    BY <1>1 DEF Kept
<1> QED BY <1>1, <1>2, <1>3, PassHeir, KnownHeir DEF Pass

LEMMA KnownLooks ==
    ASSUME Typed, Known, NEW p \in Procs, NEW k, Looks(p, k)
    PROVE  Known'
<1>0. /\ procs' = [procs EXCEPT ![p] = k] /\ Untouched
      /\ procs[p].kind = "erase" /\ k.kind = "erase" /\ k.doc = procs[p].doc /\ Deleting(procs[p])
      /\ Step(k) # "upload"
    BY DEF Looks
<1>1. Filed'
    BY <1>0, FiledStays DEF Untouched, Known, Filed
<1>2. Heir(procs[p], k)
    BY <1>0 DEF Heir, Holds, Private
<1>3. app'.resume = app.resume /\ (\A d \in Docs : Exists(d) => Exists(d)') /\ UNCHANGED <<created, resumes>>
    BY <1>0 DEF Untouched, SameApp, Kept
<1> QED BY <1>0, <1>1, <1>2, <1>3, KnownHeir

LEMMA KnownWiped ==
    ASSUME Typed, Known, NEW p \in Procs, NEW k, Wiped(p, k)
    PROVE  Known'
<1>0. /\ procs' = [procs EXCEPT ![p] = k] /\ Kept /\ SameApp /\ UNCHANGED <<made, created, resumes>>
      /\ procs[p].kind = "erase" /\ k.kind = "erase" /\ k.doc = procs[p].doc /\ Deleting(procs[p])
      /\ Step(k) # "upload"
    BY DEF Wiped
<1>1. Filed'
    BY <1>0, FiledStays DEF Known, Filed
<1>2. Heir(procs[p], k)
    BY <1>0 DEF Heir, Holds, Private
<1>3. app'.resume = app.resume /\ \A d \in Docs : Exists(d) => Exists(d)'
    BY <1>0 DEF SameApp, Kept
<1> QED BY <1>0, <1>1, <1>2, <1>3, KnownHeir

LEMMA KnownDeletes ==
    ASSUME Typed, Known, NEW p \in Procs, NEW k, Deletes(p, k)
    PROVE  Known'
<1> DEFINE d == procs[p].doc
<1>0. /\ Pass(p, k, "document") /\ app.resume # d
      /\ \A x \in Docs : Exists(x)' <=> Exists(x) /\ x # d
      /\ SameApp /\ UNCHANGED <<made, created, resumes>>
    BY DEF Deletes
<1>1. Holds(procs[p], d) /\ ~Private(k) /\ Heir(procs[p], k) /\ procs' = [procs EXCEPT ![p] = k]
    <2>1. Deleting(procs[p]) /\ Step(k) = "emit" /\ procs[p].kind = "erase"
        BY <1>0 DEF Pass, Leads
    <2>2. k.kind = "erase" \/ k = Idle
        BY <1>0, <2>1 DEF Pass, Carries
    <2> QED BY <1>0, <2>1, <2>2, PassHeir, IdleHolds DEF Holds, Private, Pass
<1>2. Filed'
    <2>1. Applied' => app'.resume = app.resume /\ app.resume \in resumes /\ Exists(app.resume) /\ candidate
        BY <1>0 DEF SameApp, Known, Filed
    <2>2. Applied' => app.resume \in Docs
        BY <2>1 DEF Typed, Hiring
    <2> HIDE DEF d
    <2>3. Applied' => Exists(app.resume)'
        BY <1>0, <2>1, <2>2 DEF Exists
    <2> QED BY <1>0, <2>1, <2>3 DEF Filed, Known, SameApp
<1>3. app'.resume = app.resume
    BY <1>0 DEF SameApp
<1> QED BY <1>0, <1>1, <1>2, <1>3, KnownHeir

LEMMA KnownNext == Typed /\ Catalogue /\ Known /\ [Next]_vars => Known'
<1> SUFFICES ASSUME Typed, Catalogue, Known, Turn PROVE Known'
    BY Turns
<1>1. CASE procs' = procs /\ Untouched
    BY <1>1, KnownStill
<1>2. ASSUME NEW p \in Procs, Uploaded(p) PROVE Known'
    <2>1. ASSUME NEW k, Adds(p, k) PROVE Known'
        <3>1. /\ Pass(p, k, "version") /\ (\A d \in Docs : Exists(d) => Exists(d)')
              /\ app'.resume = app.resume /\ (Applied' <=> Applied) /\ candidate' = candidate
              /\ UNCHANGED <<made, created, resumes>>
            BY <2>1 DEF Adds, Kept, SameApp
        <3> QED BY <3>1, KnownPasses
    <2> QED BY <1>2, <2>1, KnownCreates, KnownMakes, KnownStores, KnownDrops
        DEF Uploaded, StoreFails, AddFails, Untouched
<1>3. ASSUME NEW p \in Procs, Written(p) PROVE Known'
    <2>1. ASSUME NEW k, NEW s, Writes(p, k, s) PROVE Known'
        <3>1. /\ Pass(p, k, s) /\ s # "resume" /\ (\A d \in Docs : Exists(d) => Exists(d)')
              /\ app'.resume = app.resume /\ (Applied' <=> Applied) /\ candidate' = candidate
              /\ UNCHANGED <<made, created, resumes>>
            BY <2>1 DEF Writes, SameApp
        <3> QED BY <3>1, KnownPasses
    <2> QED BY <1>3, <2>1, KnownBegins, KnownDrops DEF Written, Dies, GivesUp, Untouched
<1>4. ASSUME NEW p \in Procs, Hired(p) PROVE Known'
    <2>1. ASSUME NEW k, Finds(p, k) PROVE Known'
        <3>1. /\ Pass(p, k, "candidate") /\ (\A d \in Docs : Exists(d) => Exists(d)')
              /\ app'.resume = app.resume /\ (Applied' <=> Applied) /\ (candidate => candidate')
              /\ UNCHANGED <<made, created, resumes>>
            BY <2>1 DEF Finds, Kept, Applied
        <3> QED BY <3>1, KnownPasses
    <2>2. ASSUME NEW k, DecidesNot(p, k) PROVE Known'
        <3>1. /\ Pass(p, k, "decide") /\ (\A d \in Docs : Exists(d) => Exists(d)')
              /\ app'.resume = app.resume /\ (Applied' <=> Applied) /\ candidate' = candidate
              /\ UNCHANGED <<made, created, resumes>>
            BY <2>2 DEF DecidesNot, Untouched, Kept, SameApp
        <3> QED BY <3>1, KnownPasses
    <2> QED BY <1>4, <2>1, <2>2, KnownApplies, KnownDrops DEF Hired, ApplyFails, Untouched
<1>5. ASSUME NEW p \in Procs, Erased(p) PROVE Known'
    <2>1. ASSUME NEW k, Clears(p, k) PROVE Known'
        <3>1. /\ Pass(p, k, "files") /\ (\A d \in Docs : Exists(d) => Exists(d)')
              /\ app'.resume = app.resume /\ (Applied' <=> Applied) /\ candidate' = candidate
              /\ UNCHANGED <<made, created, resumes>>
            BY <2>1 DEF Clears, Untouched, Kept, SameApp
        <3> QED BY <3>1, KnownPasses
    <2> QED BY <1>5, <2>1, KnownEnds, KnownLooks, KnownWiped, KnownDeletes, KnownDrops
        DEF Erased, Rejected, DeleteFails, Untouched
<1> QED BY <1>1, <1>2, <1>3, <1>4, <1>5 DEF Turn

LEMMA AlwaysKnown == Spec => []Known
<1>1. Init => Known
    <2> SUFFICES ASSUME Init PROVE Known
        OBVIOUS
    <2>1. \A p \in Procs : procs[p] = Idle
        BY DEF Init, DocumentsInit
    <2>2. made = <<>> /\ resumes = {} /\ ~Applied
        BY DEF Init, DocumentsInit, Applied
    <2>3. Filed
        BY <2>2 DEF Filed
    <2> QED BY <2>1, <2>3, IdleHas, IdleHolds DEF Known, Separate, KnownBy
<1>2. Spec => []Typed /\ []Catalogue
    BY AlwaysTyped, AlwaysCatalogue
<1> QED BY <1>1, <1>2, KnownNext, PTL DEF Spec

-----------------------------------------------------------------------------
(* Downloads.  A file that waits for its version is in storage, named by   *)
(* no version and no other request, and out of reach of every erasure; an  *)
(* erasure has read the versions of its own document only.                 *)
Held(h) == Step(h) = "version"
FileKnown(h) ==
    /\ Held(h) => /\ h.file \in files /\ made[h.file].doc = h.doc
                  /\ \A d \in Docs, n \in Keys : versions[d][n] # h.file
    /\ Step(h) = "files" => \A f \in h.seen : f \in 1..Len(made) /\ made[f].doc = h.doc
Apart(h, k) == Held(h) => (Held(k) => k.file # h.file) /\ (Step(k) = "files" => h.file \notin k.seen)
Stocked ==
    /\ \A d \in Docs, n \in Keys : versions[d][n] # 0 => made[versions[d][n]].doc = d
    /\ \A p \in Procs : FileKnown(procs[p])
    /\ \A p, q \in Procs : p # q => Apart(procs[p], procs[q])

LEMMA Files ==
    ASSUME Typed
    PROVE  /\ Len(made) \in Nat /\ files \subseteq 1..Len(made)
           /\ \A d \in Docs, n \in Keys : versions[d][n] \in 0..Len(made)
           /\ \A p \in Procs : Held(procs[p]) => /\ procs[p].file \in 1..Len(made) /\ procs[p].doc \in Docs
                                                 /\ procs[p].version \in Keys
<1>0. Shelf /\ MaxFiles \in Nat
    BY DocumentsAssumption DEF Typed
<1>1. Len(made) \in Nat /\ Len(made) <= MaxFiles /\ files \subseteq 1..Len(made)
    BY <1>0 DEF Shelf
<1>2. ASSUME NEW d \in Docs, NEW n \in Keys PROVE versions[d][n] \in 0..Len(made)
    <2>1. versions[d] \in DocumentVersion
        BY <1>0 DEF Shelf
    <2>2. versions[d][n] \in 0..MaxFiles
        BY <2>1 DEF DocumentVersion, Keys
    <2>3. versions[d][n] # 0 => versions[d][n] <= Len(made)
        BY <1>0 DEF Shelf
    <2> QED BY <1>0, <1>1, <2>2, <2>3
<1>3. ASSUME NEW p \in Procs, Held(procs[p])
      PROVE  procs[p].file \in 1..Len(made) /\ procs[p].doc \in Docs /\ procs[p].version \in Keys
    <2>1. Handler(procs[p], Len(made))
        BY DEF Typed, Requests
    <2>2. procs[p].version \in 1..Len(made)
        BY <1>3, <2>1 DEF Held, Handler
    <2>3. procs[p].version \in Keys
        BY <1>0, <1>1, <2>2 DEF Keys
    <2> QED BY <1>3, <2>1, <2>3 DEF Held, Handler, DocSteps
<1> QED BY <1>1, <1>2, <1>3

LEMMA StockedStep ==
    ASSUME Typed, Stocked, NEW p \in Procs, NEW k, procs' = [procs EXCEPT ![p] = k],
           Len(made') \in Nat, Len(made) <= Len(made'), \A n \in 1..Len(made) : made'[n] = made[n],
           \A d \in Docs, n \in Keys :
               \/ versions'[d][n] \in {0, versions[d][n]}
               \/ Held(procs[p]) /\ ~Held(k) /\ d = procs[p].doc /\ versions'[d][n] = procs[p].file,
           \A f \in files : f \in files' \/ (Step(procs[p]) = "files" /\ f \in procs[p].seen),
           FileKnown(k)',
           \A q \in Procs : q # p => Apart(k, procs[q]) /\ Apart(procs[q], k)
    PROVE  Stocked'
<1> DEFINE m == Len(made)
<1>0. /\ DOMAIN procs = Procs /\ m \in Nat /\ files \subseteq 1..m
      /\ \A d \in Docs, n \in Keys : versions[d][n] \in 0..m
      /\ \A q \in Procs : Held(procs[q]) => procs[q].file \in 1..m
    BY Files DEF Typed, Requests
<1>1. procs'[p] = k /\ \A q \in Procs : q # p => procs'[q] = procs[q]
    BY <1>0
<1>2. m <= Len(made') /\ Len(made') \in Nat /\ \A n \in 1..m : made'[n] = made[n]
    OBVIOUS
<1> HIDE DEF m
<1>3. \A d \in Docs, n \in Keys : versions'[d][n] # 0 => made'[versions'[d][n]].doc = d
    <2> SUFFICES ASSUME NEW d \in Docs, NEW n \in Keys, versions'[d][n] # 0
                 PROVE  made'[versions'[d][n]].doc = d
        OBVIOUS
    <2>1. CASE versions'[d][n] \in {0, versions[d][n]}
        <3>1. versions'[d][n] = versions[d][n] /\ versions[d][n] \in 1..m
            BY <1>0, <2>1
        <3> QED BY <1>2, <3>1 DEF Stocked
    <2>2. CASE Held(procs[p]) /\ d = procs[p].doc /\ versions'[d][n] = procs[p].file
        BY <1>0, <1>2, <2>2 DEF Stocked, FileKnown
    <2> QED BY <2>1, <2>2
<1>4. ASSUME NEW q \in Procs PROVE FileKnown(procs[q])'
    <2>1. CASE q = p
        BY <1>1, <2>1 DEF FileKnown
    <2>2. CASE q # p
        <3>0. PICK h : h = procs[q]
            OBVIOUS
        <3>1. procs'[q] = h /\ FileKnown(h) /\ Apart(h, procs[p]) /\ Apart(procs[p], h) /\ (Held(h) => h.file \in 1..m)
            BY <1>0, <1>1, <2>2, <3>0 DEF Stocked
        <3>2. ASSUME Held(h)
              PROVE  /\ h.file \in files' /\ made'[h.file].doc = h.doc
                     /\ \A d \in Docs, n \in Keys : versions'[d][n] # h.file
            <4>1. h.file \in files' /\ made'[h.file].doc = h.doc
                BY <1>2, <3>1, <3>2 DEF FileKnown, Apart
            <4>2. ASSUME NEW d \in Docs, NEW n \in Keys PROVE versions'[d][n] # h.file
                BY <1>0, <3>1, <3>2 DEF FileKnown, Apart
            <4> QED BY <4>1, <4>2
        <3>3. ASSUME Step(h) = "files", NEW f \in h.seen PROVE f \in 1..Len(made') /\ made'[f].doc = h.doc
            <4>1. f \in 1..m /\ made[f].doc = h.doc
                BY <3>1, <3>3 DEF FileKnown, m
            <4> QED BY <1>0, <1>2, <4>1
        <3>4. FileKnown(h)'
            BY <3>2, <3>3 DEF FileKnown
        <3> QED BY <3>1, <3>4 DEF FileKnown
    <2> QED BY <2>1, <2>2
<1>5. ASSUME NEW a \in Procs, NEW b \in Procs, a # b PROVE Apart(procs'[a], procs'[b])
    <2>1. CASE a = p
        BY <1>1, <1>5, <2>1
    <2>2. CASE b = p
        BY <1>1, <1>5, <2>2
    <2>3. CASE a # p /\ b # p
        BY <1>1, <1>5, <2>3 DEF Stocked
    <2> QED BY <2>1, <2>2, <2>3
<1>6. \A a, b \in Procs : a # b => Apart(procs[a], procs[b])'
    BY <1>5 DEF Apart
<1> QED BY <1>3, <1>4, <1>6 DEF Stocked

(* A request that neither waits for its version nor is to delete files.    *)
LEMMA StockedQuiet ==
    ASSUME Typed, Stocked, NEW p \in Procs, NEW k, procs' = [procs EXCEPT ![p] = k],
           Step(k) \notin {"version", "files"}, made' = made,
           \A d \in Docs, n \in Keys :
               \/ versions'[d][n] \in {0, versions[d][n]}
               \/ Held(procs[p]) /\ d = procs[p].doc /\ versions'[d][n] = procs[p].file,
           \A f \in files : f \in files' \/ (Step(procs[p]) = "files" /\ f \in procs[p].seen)
    PROVE  Stocked'
<1>1. ~Held(k) /\ FileKnown(k)' /\ \A h : Apart(k, h) /\ Apart(h, k)
    BY DEF Held, FileKnown, Apart
<1>2. Len(made') \in Nat /\ Len(made) <= Len(made') /\ \A n \in 1..Len(made) : made'[n] = made[n]
    BY Files
<1>3. \A d \in Docs, n \in Keys :
          \/ versions'[d][n] \in {0, versions[d][n]}
          \/ Held(procs[p]) /\ ~Held(k) /\ d = procs[p].doc /\ versions'[d][n] = procs[p].file
    BY <1>1
<1> QED BY <1>1, <1>2, <1>3, StockedStep

LEMMA StockedStores ==
    ASSUME Typed, Stocked, NEW p \in Procs, NEW k, Stores(p, k)
    PROVE  Stocked'
<1> DEFINE m == Len(made)
<1>0. /\ m \in Nat /\ files \subseteq 1..m
      /\ \A d \in Docs, n \in Keys : versions[d][n] \in 0..m
      /\ \A q \in Procs : Held(procs[q]) => procs[q].file \in 1..m
    BY Files
<1>1. /\ procs' = [procs EXCEPT ![p] = k] /\ Step(k) = "version" /\ k.file = m + 1
      /\ Len(made') = m + 1 /\ (\A n \in 1..m : made'[n] = made[n]) /\ made'[m + 1].doc = k.doc
      /\ files' = files \cup {m + 1} /\ versions' = versions
    BY DEF Stores
<1>2. FileKnown(k)'
    <2> HIDE DEF m
    <2>1. k.file \in files' /\ made'[k.file].doc = k.doc /\ \A d \in Docs, n \in Keys : versions'[d][n] # k.file
        BY <1>0, <1>1
    <2> QED BY <1>1, <2>1 DEF FileKnown
<1>3. ASSUME NEW q \in Procs, q # p PROVE Apart(k, procs[q]) /\ Apart(procs[q], k)
    <2>1. Step(procs[q]) = "files" => \A f \in procs[q].seen : f \in 1..m
        BY DEF Stocked, FileKnown
    <2> HIDE DEF m
    <2>2. Held(procs[q]) => procs[q].file # m + 1
        BY <1>0
    <2>3. Step(procs[q]) = "files" => m + 1 \notin procs[q].seen
        BY <1>0, <2>1
    <2> QED BY <1>1, <2>2, <2>3 DEF Apart, Held
<1>4. Len(made') \in Nat /\ Len(made) <= Len(made')
    BY <1>0, <1>1
<1> QED BY <1>1, <1>2, <1>3, <1>4, StockedStep

LEMMA StockedLooks ==
    ASSUME Typed, Stocked, NEW p \in Procs, NEW k, Looks(p, k)
    PROVE  Stocked'
<1>0. procs' = [procs EXCEPT ![p] = k] /\ UNCHANGED <<versions, files, made>>
    BY DEF Looks, Untouched
<1>1. CASE Step(k) = "erase"
    BY <1>0, <1>1, StockedQuiet
<1>2. CASE Step(k) = "files" /\ k.seen = Listing(k.doc) /\ k.doc \in Docs
    <2>1. \A f \in k.seen : \E n \in Keys : f = versions[k.doc][n] /\ f # 0
        BY <1>2 DEF Listing, Numbers
    <2>2. \A f \in k.seen : f \in 1..Len(made) /\ made[f].doc = k.doc
        <3> SUFFICES ASSUME NEW f \in k.seen PROVE f \in 1..Len(made) /\ made[f].doc = k.doc
            OBVIOUS
        <3>1. PICK n \in Keys : f = versions[k.doc][n] /\ f # 0
            BY <2>1
        <3>2. versions[k.doc][n] \in 0..Len(made) /\ Len(made) \in Nat
            BY <1>2, Files
        <3> QED BY <1>2, <3>1, <3>2 DEF Stocked
    <2>3. FileKnown(k)'
        BY <1>0, <1>2, <2>2 DEF FileKnown, Held
    <2>4. \A q \in Procs : Held(procs[q]) => procs[q].file \notin k.seen
        BY <1>2, <2>1 DEF Stocked, FileKnown
    <2>5. \A q \in Procs : Apart(k, procs[q]) /\ Apart(procs[q], k)
        BY <1>2, <2>4 DEF Apart, Held
    <2>6. Len(made') \in Nat /\ Len(made) <= Len(made') /\ \A n \in 1..Len(made) : made'[n] = made[n]
        BY <1>0, Files
    <2>7. /\ \A d \in Docs, n \in Keys : versions'[d][n] \in {0, versions[d][n]}
          /\ \A f \in files : f \in files'
        BY <1>0
    <2> QED BY <1>0, <2>3, <2>5, <2>6, <2>7, StockedStep
<1> QED BY <1>1, <1>2 DEF Looks

LEMMA StockedWiped ==
    ASSUME Typed, Stocked, NEW p \in Procs, NEW k, Wiped(p, k)
    PROVE  Stocked'
<1>1. PICK key \in procs[p].seen :
          /\ k.seen = procs[p].seen \ {key} /\ files' = files \ {key}
          /\ procs' = [procs EXCEPT ![p] = k] /\ UNCHANGED <<versions, made>>
          /\ Step(procs[p]) = "files" /\ Step(k) = "files" /\ k.doc = procs[p].doc
    BY DEF Wiped
<1>2. FileKnown(procs[p]) /\ \A q \in Procs : q # p => Apart(procs[q], procs[p])
    BY DEF Stocked
<1>3. FileKnown(k)'
    BY <1>1, <1>2 DEF FileKnown, Held
<1>4. \A q \in Procs : q # p => Apart(k, procs[q]) /\ Apart(procs[q], k)
    BY <1>1, <1>2 DEF Apart, Held
<1>5. Len(made') \in Nat /\ Len(made) <= Len(made') /\ \A n \in 1..Len(made) : made'[n] = made[n]
    BY <1>1, Files
<1>6. /\ \A d \in Docs, n \in Keys : versions'[d][n] \in {0, versions[d][n]}
      /\ \A f \in files : f \in files' \/ (Step(procs[p]) = "files" /\ f \in procs[p].seen)
    BY <1>1
<1> QED BY <1>1, <1>3, <1>4, <1>5, <1>6, StockedStep

LEMMA PassQuiet ==
    ASSUME NEW p, NEW k, NEW s, Pass(p, k, s), s \notin {"upload", "purge"}
    PROVE  Step(k) \notin {"version", "files"} /\ procs' = [procs EXCEPT ![p] = k]
BY DEF Pass, Leads

LEMMA StockedNext == Typed /\ Catalogue /\ Stocked /\ [Next]_vars => Stocked'
<1> SUFFICES ASSUME Typed, Catalogue, Stocked, Turn PROVE Stocked'
    BY Turns
<1>1. CASE procs' = procs /\ Untouched
    BY <1>1 DEF Untouched, Stocked, FileKnown, Apart
<1>2. ASSUME NEW p \in Procs, NEW k, procs' = [procs EXCEPT ![p] = k],
             Step(k) \notin {"version", "files"}, UNCHANGED <<versions, files, made>>
      PROVE  Stocked'
    BY <1>2, StockedQuiet
<1>3. ASSUME NEW p \in Procs, NEW s, Drop(p, s), UNCHANGED <<versions, files, made>>
      PROVE  Stocked'
    BY <1>2, <1>3, IdleHas DEF Drop
<1>4. ASSUME NEW p \in Procs, NEW k, NEW s, Pass(p, k, s), s \notin {"upload", "purge"},
             UNCHANGED <<versions, files, made>>
      PROVE  Stocked'
    BY <1>2, <1>4, PassQuiet
<1>5. ASSUME NEW p \in Procs, Uploaded(p) PROVE Stocked'
    <2>1. ASSUME NEW k, Creates(p, k) \/ Makes(p, k) PROVE Stocked'
        <3>1. procs' = [procs EXCEPT ![p] = k] /\ Step(k) = "upload" /\ UNCHANGED <<versions, files, made>>
            BY <2>1 DEF Creates, Makes, Started
        <3> QED BY <1>2, <3>1
    <2>2. ASSUME NEW k, Adds(p, k) PROVE Stocked'
        <3> DEFINE h == procs[p]
        <3>1. /\ Pass(p, k, "version") /\ versions' = [versions EXCEPT ![h.doc][h.version] = h.file]
              /\ UNCHANGED <<files, made>>
            BY <2>2 DEF Adds
        <3>2. Held(h) /\ versions \in [Docs -> DocumentVersion]
            BY <3>1 DEF Pass, Held, Typed, Shelf
        <3>3. h.doc \in Docs /\ h.version \in Keys
            BY <3>2, Files
        <3> HIDE DEF h
        <3>4. /\ \A d \in Docs : d # h.doc => versions'[d] = versions[d]
              /\ versions'[h.doc] = [versions[h.doc] EXCEPT ![h.version] = h.file]
              /\ versions[h.doc] \in DocumentVersion
            BY <3>1, <3>2, <3>3
        <3>5. \A n \in Keys : versions'[h.doc][n] = IF n = h.version THEN h.file ELSE versions[h.doc][n]
            BY <3>4 DEF DocumentVersion, Keys
        <3>6. \A d \in Docs, n \in Keys :
                  \/ versions'[d][n] \in {0, versions[d][n]}
                  \/ Held(h) /\ d = h.doc /\ versions'[d][n] = h.file
            BY <3>2, <3>4, <3>5
        <3> QED BY <3>1, <3>6, PassQuiet, StockedQuiet DEF h
    <2> QED BY <1>3, <1>5, <2>1, <2>2, StockedStores DEF Uploaded, StoreFails, AddFails, Untouched
<1>6. ASSUME NEW p \in Procs, Written(p) PROVE Stocked'
    <2>1. ASSUME NEW k, Begins(p, k) PROVE Stocked'
        <3>1. procs' = [procs EXCEPT ![p] = k] /\ Step(k) \notin {"version", "files"} /\ UNCHANGED <<versions, files, made>>
            BY <2>1 DEF Begins, NewRequest, Started, Untouched
        <3> QED BY <1>2, <3>1
    <2>2. ASSUME NEW k, NEW s, Writes(p, k, s) PROVE Stocked'
        BY <1>4, <2>2 DEF Writes
    <2> QED BY <1>3, <1>6, <2>1, <2>2 DEF Written, Dies, GivesUp, Untouched
<1>7. ASSUME NEW p \in Procs, Hired(p) PROVE Stocked'
    <2>1. ASSUME NEW k, Finds(p, k) \/ Applies(p, k) \/ Decides(p, k) \/ DecidesNot(p, k) PROVE Stocked'
        <3>1. PICK s \in {"candidate", "application", "decide"} : Pass(p, k, s) /\ UNCHANGED <<versions, files, made>>
            BY <2>1 DEF Finds, Applies, Decides, DecidesNot, Untouched
        <3> QED BY <1>4, <3>1
    <2> QED BY <1>3, <1>7, <2>1 DEF Hired, ApplyFails, Untouched
<1>8. ASSUME NEW p \in Procs, Erased(p) PROVE Stocked'
    <2>1. ASSUME NEW k, Withdraws(p, k) \/ Forgets(p, k) PROVE Stocked'
        <3>1. PICK s \in {"applications", "erase"} : Pass(p, k, s) /\ UNCHANGED <<versions, files, made>>
            BY <2>1 DEF Withdraws, Forgets
        <3> QED BY <1>4, <3>1
    <2>2. ASSUME NEW k, Clears(p, k) PROVE Stocked'
        <3>1. Pass(p, k, "files") /\ UNCHANGED <<versions, files, made>>
            BY <2>2 DEF Clears, Untouched
        <3> QED BY <1>4, <3>1
    <2>4. CASE Rejected(p)
        <3>1. PICK key \in procs[p].seen : files \ {key} \subseteq files'
            BY <2>4 DEF Rejected
        <3>2. procs' = [procs EXCEPT ![p] = Idle] /\ UNCHANGED <<versions, made>> /\ Step(procs[p]) = "files"
            BY <2>4 DEF Rejected, Drop
        <3>3. \A f \in files : f \in files' \/ (Step(procs[p]) = "files" /\ f \in procs[p].seen)
            BY <3>1, <3>2
        <3> QED BY <3>2, <3>3, IdleHas, StockedQuiet
    <2>3. ASSUME NEW k, Deletes(p, k) PROVE Stocked'
        <3>1. /\ Pass(p, k, "document") /\ UNCHANGED <<files, made>>
              /\ \A d \in Docs, n \in Keys : versions'[d][n] \in {0, versions[d][n]}
            BY <2>3 DEF Deletes
        <3> QED BY <3>1, PassQuiet, StockedQuiet
    <2> QED BY <1>3, <1>8, <2>1, <2>2, <2>3, <2>4, StockedLooks, StockedWiped
        DEF Erased, DeleteFails, Untouched
<1> QED BY <1>1, <1>5, <1>6, <1>7, <1>8 DEF Turn

LEMMA AlwaysStocked == Spec => []Stocked
<1>1. Init => Stocked
    <2> SUFFICES ASSUME Init PROVE Stocked
        OBVIOUS
    <2>1. \A p \in Procs : procs[p] = Idle
        BY DEF Init, DocumentsInit
    <2>2. \A d \in Docs, n \in Keys : versions[d][n] = 0
        BY DEF Init, DocumentsInit
    <2> QED BY <2>1, <2>2, IdleHas DEF Stocked, FileKnown, Apart, Held
<1>2. Spec => []Typed /\ []Catalogue
    BY AlwaysTyped, AlwaysCatalogue
<1> QED BY <1>1, <1>2, StockedNext, PTL DEF Spec

(* Unless a server dies, storage rejects a deletion or a decision overlaps *)
(* an erasure, an erasure that has begun spares the resume of the          *)
(* application, and what is listed is in storage or about to be deleted.   *)
Intact == faults \cap {{"died"}, {"undeleted"}, {"decide", "erase"}} = {}
Dooming(h) == Step(h) \in {"files", "document"}
Spared(h) == Deleting(h) /\ Step(h) # "applications" => app.resume # h.doc
Downloadable(d, n) ==
    \/ versions[d][n] \in files \cup {0}
    \/ \E p \in Procs : Dooming(procs[p]) /\ procs[p].doc = d
Downloads ==
    Intact => /\ \A p \in Procs : Spared(procs[p])
              /\ \A d \in Docs, n \in Keys : Downloadable(d, n)

LEMMA SparedStep ==
    ASSUME Typed, Known, \A q \in Procs : Spared(procs[q]), NEW p \in Procs, NEW k,
           procs' = [procs EXCEPT ![p] = k],
           \/ app'.resume \in {app.resume, Nobody}
           \/ \A q \in Procs : q # p => ~(Deleting(procs[q]) /\ procs[q].doc = app'.resume),
           Deleting(k) => \/ Step(k) = "applications"
                          \/ k.doc \in Docs /\ app'.resume = Nobody
                          \/ Deleting(procs[p]) /\ Step(procs[p]) # "applications" /\ k.doc = procs[p].doc
                             /\ app'.resume = app.resume
    PROVE  \A q \in Procs : Spared(procs[q])'
<1>0. DOMAIN procs = Procs /\ resumes \subseteq Docs /\ Nobody \notin Docs
    BY DocumentsAssumption DEF Typed, Requests, Hiring
<1>1. procs'[p] = k /\ \A q \in Procs : q # p => procs'[q] = procs[q]
    BY <1>0
<1>2. Spared(k)'
    BY <1>0 DEF Spared
<1> SUFFICES ASSUME NEW q \in Procs PROVE Spared(procs[q])'
    OBVIOUS
<1>3. CASE q = p
    BY <1>1, <1>2, <1>3 DEF Spared
<1>4. CASE q # p
    <2>0. PICK h : h = procs[q]
        OBVIOUS
    <2>1. procs'[q] = h /\ Spared(h) /\ (Deleting(h) => h.doc \in Docs /\ h.doc # Nobody)
        BY <1>0, <1>1, <1>4, <2>0 DEF Known, KnownBy
    <2>2. Deleting(h) /\ Step(h) # "applications" => app'.resume # h.doc
        BY <1>4, <2>0, <2>1 DEF Spared
    <2> QED BY <2>1, <2>2 DEF Spared
<1> QED BY <1>3, <1>4

(* What was listed has its file still, or k is about to delete its document.*)
Reachable(k) ==
    \A d \in Docs, n \in Keys :
        \/ versions'[d][n] \in files' \cup {0}
        \/ Dooming(k) /\ k.doc = d
        \/ versions'[d][n] = versions[d][n] /\ \A f \in files : f = versions[d][n] => f \in files'

LEMMA ListedStep ==
    ASSUME Typed, \A d \in Docs, n \in Keys : Downloadable(d, n), NEW p \in Procs, NEW k,
           procs' = [procs EXCEPT ![p] = k], Reachable(k),
           Dooming(procs[p]) =>
               (Dooming(k) /\ k.doc = procs[p].doc) \/ \A n \in Keys : versions'[procs[p].doc][n] = 0
    PROVE  \A d \in Docs, n \in Keys : Downloadable(d, n)'
<1>0. DOMAIN procs = Procs
    BY DEF Typed, Requests
<1>1. procs'[p] = k /\ \A q \in Procs : q # p => procs'[q] = procs[q]
    BY <1>0
<1> SUFFICES ASSUME NEW d \in Docs, NEW n \in Keys PROVE Downloadable(d, n)'
    OBVIOUS
<1>a. \/ versions'[d][n] \in files' \cup {0}
      \/ Dooming(k) /\ k.doc = d
      \/ versions'[d][n] = versions[d][n] /\ \A f \in files : f = versions[d][n] => f \in files'
    BY DEF Reachable
<1>2. CASE versions'[d][n] \in files' \cup {0}
    BY <1>2 DEF Downloadable
<1>3. CASE Dooming(k) /\ k.doc = d
    <2>1. Dooming(procs'[p]) /\ procs'[p].doc = d
        BY <1>1, <1>3
    <2> QED BY <2>1 DEF Downloadable, Dooming, Step
<1>4. CASE /\ versions'[d][n] \notin files' \cup {0} /\ ~(Dooming(k) /\ k.doc = d)
           /\ versions'[d][n] = versions[d][n] /\ \A f \in files : f = versions[d][n] => f \in files'
    <2>1. PICK q \in Procs : Dooming(procs[q]) /\ procs[q].doc = d
        BY <1>4 DEF Downloadable
    <2>2. q # p
        BY <1>4, <2>1
    <2>3. Dooming(procs'[q]) /\ procs'[q].doc = d
        BY <1>1, <2>1, <2>2
    <2> QED BY <2>3 DEF Downloadable, Dooming, Step
<1> QED BY <1>a, <1>2, <1>3, <1>4

(* A request that deletes neither a version nor a file.                    *)
LEMMA DownloadsQuiet ==
    ASSUME Typed, Known, Downloads, NEW p \in Procs, NEW k, procs' = [procs EXCEPT ![p] = k],
           faults \subseteq faults', Dooming(procs[p]) => ~Intact' \/ (Dooming(k) /\ k.doc = procs[p].doc),
           UNCHANGED versions, files \subseteq files',
           Intact' =>
               \/ app'.resume \in {app.resume, Nobody}
               \/ \A q \in Procs : q # p => ~(Deleting(procs[q]) /\ procs[q].doc = app'.resume),
           Deleting(k) => \/ Step(k) = "applications"
                          \/ k.doc \in Docs /\ app'.resume = Nobody
                          \/ Deleting(procs[p]) /\ Step(procs[p]) # "applications" /\ k.doc = procs[p].doc
                             /\ app'.resume = app.resume
    PROVE  Downloads'
<1> SUFFICES ASSUME Intact'
             PROVE  /\ \A q \in Procs : Spared(procs[q])'
                    /\ \A d \in Docs, n \in Keys : Downloadable(d, n)'
    BY DEF Downloads
<1>1. (\A q \in Procs : Spared(procs[q])) /\ \A d \in Docs, n \in Keys : Downloadable(d, n)
    BY DEF Intact, Downloads
<1>2. Dooming(procs[p]) => Dooming(k) /\ k.doc = procs[p].doc
    OBVIOUS
<1>3. \A q \in Procs : Spared(procs[q])'
    BY <1>1, SparedStep
<1>a. Reachable(k)
    BY DEF Reachable
<1>4. \A d \in Docs, n \in Keys : Downloadable(d, n)'
    BY <1>1, <1>2, <1>a, ListedStep
<1> QED BY <1>3, <1>4

(* The requests that go on but delete nothing.                             *)
LEMMA DownloadsPass ==
    ASSUME Typed, Known, Downloads, NEW p \in Procs, NEW k, NEW s, Pass(p, k, s),
           s \notin {"applications", "files", "document"}, faults \subseteq faults', app'.resume = app.resume,
           UNCHANGED versions, files \subseteq files'
    PROVE  Downloads'
<1>1. procs' = [procs EXCEPT ![p] = k] /\ Step(procs[p]) = s
    BY DEF Pass
<1>2. Deleting(k) => Deleting(procs[p]) /\ k.doc = procs[p].doc
    BY IdleHas DEF Pass, Carries
<1>3. ~Dooming(procs[p])
    BY <1>1 DEF Dooming
<1> QED BY <1>1, <1>2, <1>3, DownloadsQuiet

LEMMA DownloadsDrop ==
    ASSUME Typed, Known, Downloads, NEW p \in Procs, NEW s, Drop(p, s), Untouched,
           s \in {"files", "document"} => ~Intact'
    PROVE  Downloads'
<1>1. procs' = [procs EXCEPT ![p] = Idle] /\ Step(procs[p]) = s /\ ~Deleting(Idle)
    BY IdleHas DEF Drop
<1>2. faults \subseteq faults' /\ app'.resume = app.resume /\ UNCHANGED <<versions, files>>
    BY DEF Untouched, SameApp
<1>3. Dooming(procs[p]) => ~Intact'
    BY <1>1 DEF Dooming
<1> QED BY <1>1, <1>2, <1>3, DownloadsQuiet

LEMMA DownloadsUploaded ==
    ASSUME Typed, Known, Stocked, Downloads, NEW p \in Procs, Uploaded(p)
    PROVE  Downloads'
<1>1. ASSUME NEW k, Creates(p, k) \/ Makes(p, k) \/ Stores(p, k) PROVE Downloads'
    <2>1. /\ procs' = [procs EXCEPT ![p] = k] /\ k.kind # "erase" /\ app'.resume = app.resume
          /\ faults \subseteq faults' /\ UNCHANGED versions /\ files \subseteq files' /\ ~Dooming(procs[p])
        BY <1>1, IdleHas DEF Creates, Makes, Stores, Started, SameApp, Uploading, Dooming
    <2>2. ~Deleting(k)
        BY <2>1 DEF Deleting
    <2> QED BY <2>1, <2>2, DownloadsQuiet
<1>2. ASSUME NEW k, Adds(p, k) PROVE Downloads'
    <2> DEFINE h == procs[p]
    <2>1. /\ Pass(p, k, "version") /\ versions' = [versions EXCEPT ![h.doc][h.version] = h.file]
          /\ SameApp /\ UNCHANGED <<files, faults>>
        BY <1>2 DEF Adds
    <2>2. Held(h) /\ Step(h) = "version" /\ versions \in [Docs -> DocumentVersion]
        BY <2>1 DEF Pass, Held, Typed, Shelf
    <2>3. h.doc \in Docs /\ h.version \in Keys /\ h.file \in files
        BY <2>2, Files DEF Stocked, FileKnown
    <2>a. procs' = [procs EXCEPT ![p] = k] /\ (Deleting(k) => Deleting(h) /\ k.doc = h.doc)
        BY <2>1, IdleHas DEF Pass, Carries
    <2> HIDE DEF h
    <2>4. /\ \A d \in Docs : d # h.doc => versions'[d] = versions[d]
          /\ versions'[h.doc] = [versions[h.doc] EXCEPT ![h.version] = h.file]
          /\ versions[h.doc] \in DocumentVersion
        BY <2>1, <2>2, <2>3
    <2>5. \A n \in Keys : versions'[h.doc][n] = IF n = h.version THEN h.file ELSE versions[h.doc][n]
        BY <2>4 DEF DocumentVersion, Keys
    <2>6. \A d \in Docs, n \in Keys : versions'[d][n] = versions[d][n] \/ versions'[d][n] \in files
        BY <2>3, <2>4, <2>5
    <2>7. app'.resume = app.resume
        BY <2>1 DEF SameApp
    <2> SUFFICES ASSUME Intact'
                 PROVE  /\ \A q \in Procs : Spared(procs[q])'
                        /\ \A d \in Docs, n \in Keys : Downloadable(d, n)'
        BY DEF Downloads
    <2>8. (\A q \in Procs : Spared(procs[q])) /\ \A d \in Docs, n \in Keys : Downloadable(d, n)
        BY <2>1 DEF Intact, Downloads
    <2>9. \A q \in Procs : Spared(procs[q])'
        BY <2>2, <2>a, <2>7, <2>8, SparedStep DEF h
    <2>10. Reachable(k)
        BY <2>1, <2>6 DEF Reachable
    <2>b. ~Dooming(procs[p])
        BY <2>2 DEF h, Dooming
    <2>11. \A d \in Docs, n \in Keys : Downloadable(d, n)'
        BY <2>2, <2>a, <2>b, <2>8, <2>10, ListedStep
    <2> QED BY <2>9, <2>11
<1> QED BY <1>1, <1>2, DownloadsDrop DEF Uploaded, StoreFails, AddFails

LEMMA DownloadsWritten ==
    ASSUME Typed, Known, Downloads, NEW p \in Procs, Written(p)
    PROVE  Downloads'
<1>1. ASSUME NEW k, Begins(p, k) PROVE Downloads'
    <2>1. /\ procs' = [procs EXCEPT ![p] = k] /\ app'.resume = app.resume
          /\ faults \subseteq faults' /\ UNCHANGED <<versions, files>> /\ ~Dooming(procs[p])
        BY <1>1, IdleHas DEF Begins, Started, Untouched, SameApp, Dooming
    <2>2. Deleting(k) => Step(k) = "applications"
        BY <1>1 DEF Begins, NewRequest, Deleting
    <2> QED BY <2>1, <2>2, DownloadsQuiet
<1>2. ASSUME NEW k, NEW s, Writes(p, k, s) PROVE Downloads'
    <2>1. /\ Pass(p, k, s) /\ s \notin {"applications", "files", "document"} /\ faults \subseteq faults'
          /\ app'.resume = app.resume /\ UNCHANGED <<versions, files>>
        BY <1>2 DEF Writes, SameApp
    <2> QED BY <2>1, DownloadsPass
<1>3. CASE Dies(p)
    BY <1>3, DownloadsDrop DEF Dies, Intact
<1> QED BY <1>1, <1>2, <1>3, DownloadsDrop DEF Written, GivesUp

LEMMA DownloadsHired ==
    ASSUME Typed, Overlaps, Known, Downloads, NEW p \in Procs, Hired(p)
    PROVE  Downloads'
<1>1. ASSUME NEW k, Finds(p, k) \/ DecidesNot(p, k) PROVE Downloads'
    <2>1. PICK s \in {"candidate", "decide"} :
              /\ Pass(p, k, s) /\ faults \subseteq faults' /\ app'.resume = app.resume /\ UNCHANGED <<versions, files>>
        BY <1>1 DEF Finds, DecidesNot, Untouched, SameApp
    <2> QED BY <2>1, DownloadsPass
<1>2. ASSUME NEW k, Applies(p, k) PROVE Downloads'
    <2>1. /\ Pass(p, k, "application") /\ app'.resume = procs[p].doc /\ UNCHANGED <<versions, files, faults>>
        BY <1>2 DEF Applies
    <2>2. /\ procs' = [procs EXCEPT ![p] = k] /\ Step(procs[p]) = "application" /\ procs[p].kind = "apply"
        BY <2>1 DEF Pass, Leads
    <2>3. Private(procs[p]) /\ ~Deleting(procs[p]) /\ ~Deleting(k)
        BY <2>1, <2>2 DEF Private, Deleting, Pass
    <2>4. \A q \in Procs : q # p => ~(Deleting(procs[q]) /\ procs[q].doc = app'.resume)
        BY <2>1, <2>3 DEF Known, Separate, Holds
    <2>5. ~Dooming(procs[p])
        BY <2>2 DEF Dooming
    <2> QED BY <2>1, <2>2, <2>3, <2>4, <2>5, DownloadsQuiet
<1>3. ASSUME NEW k, Decides(p, k) PROVE Downloads'
    <2>1. Pass(p, k, "decide") /\ faults \subseteq faults' /\ UNCHANGED <<versions, files>>
        BY <1>3 DEF Decides
    <2>2. /\ procs' = [procs EXCEPT ![p] = k] /\ Step(procs[p]) = "decide" /\ procs[p].kind = "decide"
          /\ procs[p] # Idle
        BY <2>1 DEF Pass, Leads
    <2>3. ~Deleting(procs[p]) /\ ~Deleting(k)
        BY <2>1, <2>2 DEF Deleting, Pass
    <2>4. ASSUME Intact', NEW q \in Procs, q # p PROVE ~Deleting(procs[q])
        <3>1. SUFFICES ASSUME Deleting(procs[q]) PROVE FALSE
            OBVIOUS
        <3>2. procs[q] # Idle /\ procs[q].kind = "erase"
            BY <3>1, IdleHas DEF Deleting
        <3>3. {"decide", "erase"} \in faults
            BY <2>2, <2>4, <3>2 DEF Overlaps
        <3> QED BY <2>1, <2>4, <3>3 DEF Intact
    <2>5. ~Dooming(procs[p])
        BY <2>2 DEF Dooming
    <2> QED BY <2>1, <2>2, <2>3, <2>4, <2>5, DownloadsQuiet
<1> QED BY <1>1, <1>2, <1>3, DownloadsDrop DEF Hired, ApplyFails

LEMMA DownloadsErased ==
    ASSUME Typed, Known, Stocked, Downloads, NEW p \in Procs, Erased(p)
    PROVE  Downloads'
<1>0. Nobody \notin Docs /\ resumes \subseteq Docs
    BY DocumentsAssumption DEF Typed, Hiring
<1>1. ASSUME NEW k, Withdraws(p, k) \/ Forgets(p, k) PROVE Downloads'
    <2>1. PICK s \in {"applications", "erase"} :
              Pass(p, k, s) /\ app' = NoApp /\ UNCHANGED <<versions, files, faults>>
        BY <1>1 DEF Withdraws, Forgets
    <2>2. procs' = [procs EXCEPT ![p] = k] /\ Step(procs[p]) = s /\ app'.resume = Nobody
        BY <2>1 DEF Pass, NoApp
    <2>3. Deleting(k) => k.doc \in Docs
        BY <1>0, <2>1, IdleHas DEF Pass, Carries, Known, KnownBy
    <2>4. ~Dooming(procs[p])
        BY <2>2 DEF Dooming
    <2> QED BY <2>1, <2>2, <2>3, <2>4, DownloadsQuiet
<1>2. ASSUME NEW k, Looks(p, k) PROVE Downloads'
    <2>1. /\ procs' = [procs EXCEPT ![p] = k] /\ Step(procs[p]) = "purge" /\ Deleting(procs[p])
          /\ k.doc = procs[p].doc /\ ~Dooming(procs[p])
        BY <1>2 DEF Looks, Dooming
    <2>2. faults \subseteq faults' /\ app'.resume = app.resume /\ UNCHANGED <<versions, files>>
        BY <1>2 DEF Looks, Untouched, SameApp
    <2> QED BY <2>1, <2>2, DownloadsQuiet
<1>3. ASSUME NEW k, Clears(p, k) PROVE Downloads'
    <2>1. /\ Pass(p, k, "files") /\ procs' = [procs EXCEPT ![p] = k] /\ Step(procs[p]) = "files"
          /\ faults \subseteq faults' /\ app'.resume = app.resume /\ UNCHANGED <<versions, files>>
        BY <1>3 DEF Clears, Untouched, SameApp, Pass
    <2>2. Step(k) = "document" /\ k.doc = procs[p].doc /\ Deleting(procs[p])
        BY <2>1, IdleHas DEF Pass, Leads, Carries
    <2>3. Dooming(k)
        BY <2>2 DEF Dooming
    <2> QED BY <2>1, <2>2, <2>3, DownloadsQuiet
<1>5. ASSUME NEW k, NEW s \in {"files", "document"}, procs' = [procs EXCEPT ![p] = k], Step(procs[p]) = s,
             Deleting(k) => Deleting(procs[p]) /\ k.doc = procs[p].doc, app'.resume = app.resume, UNCHANGED faults,
             Reachable(k),
             (Dooming(k) /\ k.doc = procs[p].doc) \/ \A n \in Keys : versions'[procs[p].doc][n] = 0
      PROVE  Downloads'
    <2> SUFFICES ASSUME Intact'
                 PROVE  /\ \A q \in Procs : Spared(procs[q])'
                        /\ \A d \in Docs, n \in Keys : Downloadable(d, n)'
        BY DEF Downloads
    <2>1. (\A q \in Procs : Spared(procs[q])) /\ \A d \in Docs, n \in Keys : Downloadable(d, n)
        BY <1>5 DEF Intact, Downloads
    <2>2. \A q \in Procs : Spared(procs[q])'
        BY <1>5, <2>1, SparedStep
    <2>3. \A d \in Docs, n \in Keys : Downloadable(d, n)'
        BY <1>5, <2>1, ListedStep
    <2> QED BY <2>2, <2>3
<1>6. ASSUME NEW k, Wiped(p, k) PROVE Downloads'
    <2>1. PICK key \in procs[p].seen : files' = files \ {key}
        BY <1>6 DEF Wiped
    <2>2. /\ procs' = [procs EXCEPT ![p] = k] /\ Step(procs[p]) = "files" /\ Step(k) = "files"
          /\ Deleting(procs[p]) /\ k.doc = procs[p].doc /\ app'.resume = app.resume /\ UNCHANGED <<versions, faults>>
        BY <1>6 DEF Wiped, SameApp
    <2>3. made[key].doc = procs[p].doc
        BY <2>1, <2>2 DEF Stocked, FileKnown
    <2>4. \A d \in Docs, n \in Keys : versions[d][n] # 0 => made[versions[d][n]].doc = d
        BY DEF Stocked
    <2>5. Dooming(k)
        BY <2>2 DEF Dooming
    <2>6. Reachable(k)
        <3> SUFFICES ASSUME NEW d \in Docs, NEW n \in Keys
                     PROVE  \/ versions'[d][n] \in files' \cup {0}
                            \/ Dooming(k) /\ k.doc = d
                            \/ versions'[d][n] = versions[d][n] /\ \A f \in files : f = versions[d][n] => f \in files'
            BY DEF Reachable
        <3>1. CASE versions[d][n] = 0 \/ versions[d][n] # key
            BY <2>1, <2>2, <3>1
        <3>2. CASE versions[d][n] # 0 /\ versions[d][n] = key
            BY <2>2, <2>3, <2>4, <2>5, <3>2
        <3> QED BY <3>1, <3>2
    <2> QED BY <1>5, <2>2, <2>5, <2>6
<1>7. ASSUME NEW k, Deletes(p, k) PROVE Downloads'
    <2>1. /\ Pass(p, k, "document") /\ app'.resume = app.resume /\ UNCHANGED <<files, faults>>
          /\ \A x \in Docs, n \in Keys : versions'[x][n] = IF x = procs[p].doc THEN 0 ELSE versions[x][n]
        BY <1>7 DEF Deletes, SameApp
    <2>2. procs' = [procs EXCEPT ![p] = k] /\ Step(procs[p]) = "document" /\ ~Deleting(k) /\ Deleting(procs[p])
        BY <2>1 DEF Pass
    <2>3. procs[p].doc \in Docs
        BY <1>0, <2>2 DEF Known, KnownBy
    <2>4. \A n \in Keys : versions'[procs[p].doc][n] = 0
        BY <2>1, <2>3
    <2>5. Reachable(k)
        BY <2>1 DEF Reachable
    <2> QED BY <1>5, <2>1, <2>2, <2>4, <2>5
<1>8. CASE Rejected(p)
    <2>1. ~Intact'
        BY <1>8 DEF Rejected, Intact
    <2> QED BY <2>1 DEF Downloads
<1>4. CASE DeleteFails(p)
    <2>1. CASE Intact'
        <3>1. Intact
            BY <1>4, <2>1 DEF DeleteFails, Untouched, Intact
        <3>2. Step(procs[p]) = "document" /\ app.resume = procs[p].doc /\ procs[p].kind = "erase"
            BY <1>4 DEF DeleteFails, Drop, Leads
        <3>3. procs[p].todo # <<>> /\ Head(procs[p].todo) = "document" /\ procs[p].todo \in Seq(Steps)
            BY <3>2 DEF Step, Typed, Requests, Handler, Planned
        <3>4. Mentions(procs[p].todo, "document")
            BY <3>3 DEF Mentions
        <3>5. Deleting(procs[p])
            BY <3>2, <3>4 DEF Deleting
        <3> QED BY <3>1, <3>2, <3>5 DEF Downloads, Spared
    <2>2. CASE ~Intact'
        BY <2>2 DEF Downloads
    <2> QED BY <2>1, <2>2
<1> QED BY <1>1, <1>2, <1>3, <1>4, <1>6, <1>7, <1>8 DEF Erased

LEMMA DownloadsNext == Typed /\ Catalogue /\ Overlaps /\ Known /\ Stocked /\ Downloads /\ [Next]_vars => Downloads'
<1> SUFFICES ASSUME Typed, Overlaps, Known, Stocked, Downloads, Turn PROVE Downloads'
    BY Turns
<1>1. CASE procs' = procs /\ Untouched
    BY <1>1 DEF Untouched, SameApp, Downloads, Intact, Spared, Downloadable, Dooming
<1> QED BY <1>1, DownloadsUploaded, DownloadsWritten, DownloadsHired, DownloadsErased DEF Turn

(* A version that a document lists can be downloaded: its file is in       *)
(* storage except while an erasure deletes files and then the row, or      *)
(* after a server died or storage rejected a deletion in one, or a         *)
(* decision wrote the application back during one.                         *)
THEOREM DownloadsWork == Spec => []ListedFilesExist
<1>1. Init => Downloads
    <2> SUFFICES ASSUME Init PROVE Downloads
        OBVIOUS
    <2>1. \A p \in Procs : procs[p] = Idle
        BY DEF Init, DocumentsInit
    <2>2. \A d \in Docs, n \in Keys : versions[d][n] = 0
        BY DEF Init, DocumentsInit
    <2> QED BY <2>1, <2>2, IdleHas DEF Downloads, Spared, Downloadable, Dooming
<1>2. Downloads => ListedFilesExist
    <2>1. ASSUME NEW p \in Procs, Dooming(procs[p]) PROVE At(p, "files") \/ At(p, "document")
        BY <2>1 DEF Dooming, Step, At
    <2> QED BY <2>1 DEF Downloads, Intact, Downloadable, ListedFilesExist
<1>3. Spec => []Typed /\ []Catalogue /\ []Overlaps /\ []Known /\ []Stocked
    BY AlwaysTyped, AlwaysCatalogue, AlwaysOverlaps, AlwaysKnown, AlwaysStocked
<1> QED BY <1>1, <1>2, <1>3, DownloadsNext, PTL DEF Spec

-----------------------------------------------------------------------------
(* Erasure.  A resume that is there belongs to the application, to the     *)
(* request that is storing it or to the erasure that is deleting it; each  *)
(* of its files is listed or about to be, and an erasure has all of them.  *)
Clean ==
    /\ faults \cap {{"died"}, {"upload"}, {"undeleted"}, {"apply"}, {"document"}, {"apply", "document"},
                    {"apply", "erase"}, {"document", "erase"}} = {}
    /\ ~({{"erase"}, {"decide", "erase"}} \subseteq faults)
InApplication(h) ==
    h.kind = "apply" /\ Step(h) \in {"resume", "upload", "version", "current", "emit", "application"}
Owns(h, d) == (Private(h) \/ Deleting(h)) /\ h.doc = d
Owned == \A d \in resumes : Exists(d) => app.resume = d \/ \E p \in Procs : Owns(procs[p], d)
Shelved ==
    \A f \in files : made[f].doc \in resumes =>
        \/ \E n \in Keys : versions[made[f].doc][n] = f
        \/ \E p \in Procs : Held(procs[p]) /\ procs[p].file = f
Orderly(h) ==
    /\ InApplication(h) => candidate /\ ~Applied
    /\ Step(h) \in {"upload", "version"} => (h.version \in Keys => versions[h.doc][h.version] = 0)
    /\ h.kind = "document" => Exists(h.doc)
    /\ h.kind = "erase" => ~Applied \/ (Deleting(h) /\ h.doc = app.resume)
    /\ Step(h) = "files" => \A f \in files : made[f].doc = h.doc => f \in h.seen
    /\ Step(h) = "document" => \A f \in files : made[f].doc # h.doc
Tidy == Owned /\ Shelved /\ \A p \in Procs : Orderly(procs[p])
Erasing == Clean => Tidy

(* What a step must leave alone for a request of this kind.                *)
Harmless(kind) ==
    /\ kind = "apply" => (candidate /\ ~Applied => candidate' /\ ~Applied')
    /\ kind \in Uploading =>
          /\ \A d \in Docs, n \in Keys : versions[d][n] = 0 => versions'[d][n] = 0
          /\ \A d \in Docs : Exists(d) => Exists(d)'
    /\ kind = "erase" => /\ Applied' => Applied /\ app'.resume = app.resume
                         /\ \A f \in files' : f \in files /\ made'[f].doc = made[f].doc
Others(p) == \A q \in Procs : q # p => \A h : h = procs[q] => Orderly(h)'

LEMMA Occupied ==
    ASSUME Typed, NEW q \in Procs
    PROVE  /\ Step(procs[q]) \in {"upload", "version"} => procs[q].kind \in Uploading /\ procs[q].doc \in Docs
           /\ Step(procs[q]) \in {"files", "document"} => procs[q].kind = "erase"
           /\ procs[q].kind = "document" => procs[q].doc \in Docs
           /\ procs[q] # Idle => procs[q].kind \in {"document", "apply", "decide", "erase"}
           /\ \A t : t \in {"document", "apply", "decide", "erase"} /\ procs[q].kind = t => procs[q] # Idle
<1> DEFINE h == procs[q]
<1>1. Handler(h, Len(made))
    BY DEF Typed, Requests
<1> HIDE DEF h
<1>2. CASE h.todo = <<>>
    <2>1. h = Idle /\ h.kind = "none" /\ Step(h) = "none"
        BY <1>1, <1>2, IdleHas DEF Handler
    <2> QED BY <2>1, IdleHas DEF h
<1>3. CASE h.todo # <<>>
    <2>1. PICK t : Leads(h.kind, Head(h.todo), t)
        BY <1>1, <1>3, TailOf DEF Handler
    <2>2. h # Idle /\ Step(h) = Head(h.todo)
        BY <1>3, IdleHas DEF Step
    <2>3. /\ Step(h) \in {"upload", "version"} => h.kind \in Uploading
          /\ Step(h) \in {"files", "document"} => h.kind = "erase"
          /\ h.kind = "document" => Step(h) \in DocSteps
          /\ h.kind \in {"document", "apply", "decide", "erase"}
        BY <2>1, <2>2 DEF Leads, Uploading, DocSteps
    <2>4. Step(h) \in DocSteps => h.doc \in Docs
        BY <1>1 DEF Handler
    <2>5. Step(h) \in {"upload", "version"} => h.doc \in Docs
        BY <2>4 DEF DocSteps
    <2> QED BY <2>2, <2>3, <2>4, <2>5 DEF h
<1> QED BY <1>2, <1>3

(* Who else is at work while p is.                                         *)
LEMMA Alone ==
    ASSUME Overlaps, Clean, NEW p \in Procs, NEW q \in Procs, p # q, procs[p] # Idle, procs[q] # Idle
    PROVE  /\ procs[p].kind \in Uploading => procs[q].kind \notin {"apply", "document", "erase"}
           /\ procs[p].kind = "erase" => procs[q].kind \notin Uploading
<1> DEFINE a == procs[p].kind
           b == procs[q].kind
<1>1. {a, b} \in faults
    BY DEF Overlaps
<1> HIDE DEF a, b
<1>2. ASSUME a = "apply", b = "apply" PROVE FALSE
    <2>1. {a, b} = {"apply"}
        BY <1>2
    <2> QED BY <1>1, <2>1 DEF Clean
<1>3. ASSUME a = "document", b = "document" PROVE FALSE
    <2>1. {a, b} = {"document"}
        BY <1>3
    <2> QED BY <1>1, <2>1 DEF Clean
<1>4. ASSUME {a, b} = {"apply", "document"} PROVE FALSE
    BY <1>1, <1>4 DEF Clean
<1>5. ASSUME {a, b} = {"apply", "erase"} PROVE FALSE
    BY <1>1, <1>5 DEF Clean
<1>6. ASSUME {a, b} = {"document", "erase"} PROVE FALSE
    BY <1>1, <1>6 DEF Clean
<1>7. /\ a = "apply" => b # "apply" /\ b # "document" /\ b # "erase"
      /\ a = "document" => b # "apply" /\ b # "document" /\ b # "erase"
      /\ a = "erase" => b # "apply" /\ b # "document"
    <2>1. \A x, y : a = x /\ b = y => {a, b} = {x, y} /\ {a, b} = {y, x}
        OBVIOUS
    <2> QED BY <1>2, <1>3, <1>4, <1>5, <1>6, <2>1
<1> QED BY <1>7 DEF a, b, Uploading

LEMMA OrderlyStays ==
    ASSUME Typed, NEW q \in Procs, NEW h, h = procs[q], Orderly(h), Harmless(h.kind)
    PROVE  Orderly(h)'
<1>1. /\ Step(h) \in {"upload", "version"} => h.kind \in Uploading /\ h.doc \in Docs
      /\ Step(h) \in {"files", "document"} => h.kind = "erase"
      /\ h.kind = "document" => h.doc \in Docs
    BY Occupied
<1>2. InApplication(h) => candidate' /\ ~Applied'
    BY DEF Orderly, Harmless, InApplication
<1>3. Step(h) \in {"upload", "version"} => (h.version \in Keys => versions'[h.doc][h.version] = 0)
    BY <1>1 DEF Orderly, Harmless
<1>4. h.kind = "document" => Exists(h.doc)'
    <2> SUFFICES ASSUME h.kind = "document" PROVE Exists(h.doc)'
        OBVIOUS
    <2>1. h.kind \in Uploading /\ h.doc \in Docs /\ Exists(h.doc)
        BY <1>1 DEF Orderly, Uploading
    <2> QED BY <2>1 DEF Harmless
<1>5. h.kind = "erase" => ~Applied' \/ (Deleting(h) /\ h.doc = app'.resume)
    BY DEF Orderly, Harmless
<1>6. Step(h) = "files" => \A f \in files' : made'[f].doc = h.doc => f \in h.seen
    BY <1>1 DEF Orderly, Harmless
<1>7. Step(h) = "document" => \A f \in files' : made'[f].doc # h.doc
    BY <1>1 DEF Orderly, Harmless
<1> QED BY <1>2, <1>3, <1>4, <1>5, <1>6, <1>7 DEF Orderly, InApplication

LEMMA OthersStay ==
    ASSUME Typed, Tidy, NEW p,
           \A q \in Procs : q # p /\ procs[q] # Idle => Harmless(procs[q].kind)
    PROVE  Others(p)
<1> SUFFICES ASSUME NEW q \in Procs, q # p, NEW h, h = procs[q] PROVE Orderly(h)'
    BY DEF Others
<1>1. CASE h = Idle
    BY <1>1, IdleHas DEF Orderly, InApplication
<1>2. CASE h # Idle
    <2>1. Orderly(h) /\ Harmless(h.kind)
        BY <1>2 DEF Tidy
    <2> QED BY <2>1, OrderlyStays
<1> QED BY <1>1, <1>2

(* An upload has no company that a step of it could harm.                  *)
LEMMA UploadersAlone ==
    ASSUME Typed, Tidy, Overlaps, Clean, NEW p \in Procs, procs[p] # Idle, procs[p].kind \in Uploading
    PROVE  Others(p)
<1>1. ASSUME NEW q \in Procs, q # p, procs[q] # Idle PROVE Harmless(procs[q].kind)
    BY <1>1, Alone DEF Harmless, Uploading
<1> QED BY <1>1, OthersStay

LEMMA EraserAlone ==
    ASSUME Typed, Tidy, Overlaps, Clean, NEW p \in Procs, procs[p] # Idle, procs[p].kind = "erase",
           Applied' => Applied /\ app'.resume = app.resume,
           \A f \in files' : f \in files /\ made'[f].doc = made[f].doc
    PROVE  Others(p)
<1>1. ASSUME NEW q \in Procs, q # p, procs[q] # Idle PROVE Harmless(procs[q].kind)
    BY <1>1, Alone DEF Harmless, Uploading
<1> QED BY <1>1, OthersStay

LEMMA CalmOthers ==
    ASSUME Typed, Tidy, NEW p, \A d \in Docs : Exists(d) => Exists(d)', SameApp, UNCHANGED <<versions, made>>,
           files' \subseteq files
    PROVE  Others(p)
<1>1. \A kind : Harmless(kind)
    BY DEF Harmless, SameApp
<1> QED BY <1>1, OthersStay

LEMMA TidyStep ==
    ASSUME Typed, NEW p \in Procs, NEW k, procs' = [procs EXCEPT ![p] = k],
           Others(p), Orderly(k)', Owned', Shelved'
    PROVE  Tidy'
<1>1. procs'[p] = k /\ \A q \in Procs : q # p => procs'[q] = procs[q]
    BY DEF Typed, Requests
<1> SUFFICES ASSUME NEW q \in Procs PROVE Orderly(procs[q])'
    BY DEF Tidy
<1>2. CASE q = p
    BY <1>1, <1>2 DEF Orderly, InApplication
<1>3. CASE q # p
    <2>0. PICK h : h = procs[q]
        OBVIOUS
    <2>1. procs'[q] = h /\ Orderly(h)'
        BY <1>1, <1>3, <2>0 DEF Others
    <2> QED BY <2>1 DEF Orderly, InApplication
<1> QED BY <1>2, <1>3

(* A resume that nobody has after the step was nobody's before.            *)
LEMMA OwnedStep ==
    ASSUME Typed, Owned, NEW p \in Procs, NEW k, procs' = [procs EXCEPT ![p] = k],
           \A d \in Docs : d \in resumes' /\ Exists(d)' /\ ~Owns(k, d) /\ app'.resume # d =>
               d \in resumes /\ Exists(d) /\ app.resume # d /\ ~Owns(procs[p], d),
           resumes' \subseteq Docs
    PROVE  Owned'
<1>1. procs'[p] = k /\ \A q \in Procs : q # p => procs'[q] = procs[q]
    BY DEF Typed, Requests
<1> SUFFICES ASSUME NEW d \in resumes', Exists(d)', app'.resume # d
             PROVE  \E q \in Procs : Owns(procs'[q], d)
    BY DEF Owned, Owns, Private, Step, Deleting
<1>2. CASE Owns(k, d)
    BY <1>1, <1>2
<1>3. CASE ~Owns(k, d)
    <2>1. d \in resumes /\ Exists(d) /\ app.resume # d /\ ~Owns(procs[p], d)
        BY <1>3
    <2>2. PICK q \in Procs : Owns(procs[q], d)
        BY <2>1 DEF Owned
    <2>3. procs'[q] = procs[q]
        BY <1>1, <2>1, <2>2
    <2> QED BY <2>2, <2>3
<1> QED BY <1>2, <1>3

(* A file that has its place keeps it.                                     *)
Placed(f, h, k) ==
    \/ \E n \in Keys : versions'[made'[f].doc][n] = f
    \/ Held(k) /\ k.file = f
    \/ /\ f \in files /\ made'[f].doc = made[f].doc /\ made[f].doc \in resumes
       /\ ~(Held(h) /\ h.file = f)
       /\ \A n \in Keys : versions[made[f].doc][n] = f => versions'[made'[f].doc][n] = f
LEMMA ShelvedStep ==
    ASSUME Typed, Shelved, NEW p \in Procs, NEW k, procs' = [procs EXCEPT ![p] = k],
           \A f \in files' : made'[f].doc \in resumes' => Placed(f, procs[p], k)
    PROVE  Shelved'
<1>1. procs'[p] = k /\ \A q \in Procs : q # p => procs'[q] = procs[q]
    BY DEF Typed, Requests
<1> SUFFICES ASSUME NEW f \in files', made'[f].doc \in resumes', ~\E n \in Keys : versions'[made'[f].doc][n] = f
             PROVE  \E q \in Procs : Held(procs'[q]) /\ procs'[q].file = f
    BY DEF Shelved, Held, Step
<1>2. CASE Held(k) /\ k.file = f
    BY <1>1, <1>2
<1>3. CASE ~(Held(k) /\ k.file = f)
    <2>1. /\ f \in files /\ made'[f].doc = made[f].doc /\ made[f].doc \in resumes
          /\ ~(Held(procs[p]) /\ procs[p].file = f)
          /\ \A n \in Keys : versions[made[f].doc][n] = f => versions'[made'[f].doc][n] = f
        BY <1>3 DEF Placed
    <2>2. PICK q \in Procs : Held(procs[q]) /\ procs[q].file = f
        BY <2>1 DEF Shelved
    <2>3. procs'[q] = procs[q]
        BY <1>1, <2>1, <2>2
    <2> QED BY <2>2, <2>3
<1> QED BY <1>2, <1>3

(* Steps that change neither documents nor the application.                *)
LEMMA TidyQuiet ==
    ASSUME Typed, Tidy, NEW p \in Procs, NEW k, procs' = [procs EXCEPT ![p] = k],
           Kept, SameApp, UNCHANGED <<versions, made, resumes>>, files' \subseteq files, ~Held(procs[p]),
           \A d \in Docs : Owns(procs[p], d) /\ Exists(d) => Owns(k, d) \/ app.resume = d,
           Orderly(k)'
    PROVE  Tidy'
<1>0. resumes \subseteq Docs
    BY DEF Typed, Hiring
<1>1. Others(p)
    <2>1. \A d \in Docs : Exists(d) => Exists(d)'
        BY DEF Kept
    <2> QED BY <2>1, CalmOthers
<1>2. Owned'
    <2>1. ASSUME NEW d \in Docs, d \in resumes', Exists(d)', ~Owns(k, d), app'.resume # d
          PROVE  d \in resumes /\ Exists(d) /\ app.resume # d /\ ~Owns(procs[p], d)
        BY <2>1 DEF Kept, SameApp
    <2>2. resumes' \subseteq Docs /\ Owned
        BY <1>0 DEF Tidy
    <2> QED BY <2>1, <2>2, OwnedStep
<1>3. Shelved'
    <2>1. \A f \in files' : made'[f].doc \in resumes' => Placed(f, procs[p], k)
        BY DEF Placed
    <2> QED BY <2>1, ShelvedStep DEF Tidy
<1> QED BY <1>1, <1>2, <1>3, TidyStep

(* A request goes on: what it relied on is still there.                    *)
LEMMA OrderlyPass ==
    ASSUME Typed, NEW p \in Procs, NEW k, NEW s, Pass(p, k, s), Orderly(procs[p]),
           s \notin {"upload", "resume", "candidate", "purge", "files"},
           s \in {"version", "current", "emit"} /\ procs[p].kind = "apply" => candidate' /\ ~Applied',
           procs[p].kind = "document" => \A d \in Docs : Exists(d) => Exists(d)',
           procs[p].kind = "erase" => ~Applied' \/ (s # "document" /\ Deleting(procs[p]) /\ procs[p].doc = app'.resume)
    PROVE  Orderly(k)'
<1>1. CASE k = Idle
    BY <1>1, IdleHas DEF Orderly, InApplication
<1>2. CASE k # Idle
    <2>0. PICK h : h = procs[p]
        OBVIOUS
    <2>1. /\ k.kind = h.kind /\ k.doc = h.doc /\ Leads(h.kind, s, Step(k))
          /\ (Deleting(k) <=> Deleting(h) /\ s # "document")
        BY <1>2, <2>0 DEF Pass, Carries
    <2>2. /\ Step(k) \notin {"upload", "version", "files", "document"}
          /\ InApplication(k) => s \in {"version", "current", "emit"} /\ h.kind = "apply"
        BY <2>1 DEF Leads, InApplication
    <2>3. InApplication(k) => candidate' /\ ~Applied'
        BY <2>0, <2>2
    <2>4. k.kind = "document" => Exists(k.doc)'
        <3> SUFFICES ASSUME k.kind = "document" PROVE Exists(k.doc)'
            OBVIOUS
        <3>1. k.doc = procs[p].doc /\ procs[p].kind = "document"
            BY <2>0, <2>1
        <3>2. k.doc \in Docs /\ Exists(k.doc)
            BY <3>1, Occupied DEF Orderly
        <3> QED BY <3>1, <3>2
    <2>5. k.kind = "erase" => ~Applied' \/ (Deleting(k) /\ k.doc = app'.resume)
        BY <2>0, <2>1
    <2> QED BY <2>2, <2>3, <2>4, <2>5 DEF Orderly, InApplication
<1> QED BY <1>1, <1>2

LEMMA OrderlyIdle == Orderly(Idle)'
    BY IdleHas DEF Orderly, InApplication

LEMMA TidyBegins ==
    ASSUME Typed, Tidy, NEW p \in Procs, NEW k, Begins(p, k)
    PROVE  Tidy'
<1>0. /\ procs[p] = Idle /\ procs' = [procs EXCEPT ![p] = k] /\ NewRequest(k)
      /\ Kept /\ SameApp /\ UNCHANGED <<versions, files, made, resumes>>
    BY DEF Begins, Started, Untouched
<1>1. ~Held(procs[p]) /\ \A d : ~Owns(procs[p], d)
    BY <1>0, IdleHas DEF Held, Owns, Private
<1>2. /\ Step(k) \in {"upload", "save", "softDelete", "candidate", "decide", "applications"}
      /\ Step(k) = "upload" => k.kind = "document" /\ (k.version \in Keys => versions[k.doc][k.version] = 0)
      /\ k.kind = "document" => k.doc \in Docs /\ Exists(k.doc)
      /\ k.kind = "apply" => Step(k) = "candidate"
      /\ k.kind = "erase" => k.doc = app.resume /\ (Deleting(k) <=> Applied)
    BY <1>0 DEF NewRequest
<1>3. ~InApplication(k)
    BY <1>2 DEF InApplication
<1>4. k.kind = "document" => Exists(k.doc)'
    BY <1>0, <1>2 DEF Kept
<1>5. Orderly(k)'
    BY <1>0, <1>2, <1>3, <1>4 DEF Orderly, InApplication, SameApp
<1> QED BY <1>0, <1>1, <1>5, TidyQuiet

(* A new document has no versions, and is nobody's resume yet.             *)
LEMMA NewDocument ==
    ASSUME Typed, Catalogue, NEW d \in Docs \ created
    PROVE  \A n \in Keys : versions[d][n] = 0
BY DEF Catalogue, Rows, Exists

LEMMA TidyCreates ==
    ASSUME Typed, Catalogue, Known, Tidy, NEW p \in Procs, NEW k, Creates(p, k)
    PROVE  Tidy'
<1>0. /\ procs[p] = Idle /\ procs' = [procs EXCEPT ![p] = k] /\ k.kind = "document"
      /\ Step(k) = "upload" /\ k.version = 1 /\ k.doc \in Docs \ created
      /\ \A d \in Docs : Exists(d)' <=> Exists(d) \/ d = k.doc
      /\ SameApp /\ UNCHANGED <<versions, files, made, resumes>>
    BY DEF Creates, Started
<1>1. ~Held(procs[p]) /\ \A d : ~Owns(procs[p], d)
    BY <1>0, IdleHas DEF Held, Owns, Private
<1>2. resumes \subseteq Docs /\ k.doc \notin resumes
    BY <1>0 DEF Typed, Hiring, Known, Filed
<1>3. Others(p)
    <2>1. \A d \in Docs : Exists(d) => Exists(d)'
        BY <1>0
    <2> QED BY <1>0, <2>1, CalmOthers
<1>4. Owned'
    <2>1. \A d \in Docs : d \in resumes' /\ Exists(d)' /\ ~Owns(k, d) /\ app'.resume # d =>
              d \in resumes /\ Exists(d) /\ app.resume # d /\ ~Owns(procs[p], d)
        BY <1>0, <1>1, <1>2 DEF SameApp
    <2>2. resumes' \subseteq Docs /\ Owned
        BY <1>0, <1>2 DEF Tidy
    <2> QED BY <1>0, <2>1, <2>2, OwnedStep
<1>5. Shelved'
    <2>1. \A f \in files' : made'[f].doc \in resumes' => Placed(f, procs[p], k)
        BY <1>0, <1>1 DEF Placed
    <2> QED BY <1>0, <2>1, ShelvedStep DEF Tidy
<1>6. Orderly(k)'
    <2>1. \A n \in Keys : versions'[k.doc][n] = 0
        BY <1>0, NewDocument
    <2>2. Exists(k.doc)'
        BY <1>0
    <2> QED BY <1>0, <2>1, <2>2 DEF Orderly, InApplication
<1> QED BY <1>0, <1>3, <1>4, <1>5, <1>6, TidyStep

LEMMA TidyMakes ==
    ASSUME Typed, Catalogue, Overlaps, Known, Tidy, Clean, NEW p \in Procs, NEW k, Makes(p, k)
    PROVE  Tidy'
<1> DEFINE h == procs[p]
<1>0. /\ h # Idle /\ procs' = [procs EXCEPT ![p] = k] /\ Step(h) = "resume" /\ h.kind = "apply"
      /\ k.kind = "apply" /\ Step(k) = "upload" /\ k.version = 1 /\ k.doc \in Docs \ created
      /\ resumes' = resumes \cup {k.doc}
      /\ \A d \in Docs : Exists(d)' <=> Exists(d) \/ d = k.doc
      /\ SameApp /\ UNCHANGED <<versions, files, made>>
    BY DEF Makes
<1>1. ~Held(h) /\ ~Private(h) /\ ~Deleting(h) /\ (\A d : ~Owns(h, d)) /\ Owns(k, k.doc)
    <2> HIDE DEF h
    <2> QED BY <1>0 DEF Held, Owns, Private, Deleting
<1>2. resumes \subseteq Docs
    BY DEF Typed, Hiring
<1>3. Others(p)
    BY <1>0, UploadersAlone DEF Uploading
<1>4. Owned'
    <2>1. \A d \in Docs : d \in resumes' /\ Exists(d)' /\ ~Owns(k, d) /\ app'.resume # d =>
              d \in resumes /\ Exists(d) /\ app.resume # d /\ ~Owns(procs[p], d)
        BY <1>0, <1>1, <1>2 DEF SameApp
    <2>2. resumes' \subseteq Docs /\ Owned
        BY <1>0, <1>2 DEF Tidy
    <2> QED BY <1>0, <2>1, <2>2, OwnedStep
<1>5. Shelved'
    <2>1. \A f \in files : made[f].doc \in created
        BY Files DEF Known, Filed
    <2>2. \A f \in files' : made'[f].doc \in resumes' => Placed(f, procs[p], k)
        BY <1>0, <1>1, <2>1 DEF Placed
    <2> QED BY <1>0, <2>2, ShelvedStep DEF Tidy
<1>6. Orderly(k)'
    <2>1. \A n \in Keys : versions'[k.doc][n] = 0
        BY <1>0, NewDocument
    <2>2. candidate /\ ~Applied
        <3>1. InApplication(h)
            BY <1>0 DEF InApplication
        <3> QED BY <3>1 DEF Tidy, Orderly
    <2>3. candidate' /\ ~Applied'
        BY <1>0, <2>2 DEF SameApp
    <2> QED BY <1>0, <2>1, <2>3 DEF Orderly, InApplication
<1> QED BY <1>0, <1>3, <1>4, <1>5, <1>6, TidyStep

LEMMA TidyStores ==
    ASSUME Typed, Overlaps, Tidy, Clean, NEW p \in Procs, NEW k, Stores(p, k)
    PROVE  Tidy'
<1> DEFINE h == procs[p]
           m == Len(made)
<1>0. /\ h # Idle /\ procs' = [procs EXCEPT ![p] = k] /\ Step(h) = "upload" /\ Step(k) = "version"
      /\ k.kind = h.kind /\ h.kind \in Uploading
      /\ k.doc = h.doc /\ k.version = h.version /\ k.file = m + 1
      /\ \A n \in 1..m : made'[n] = made[n]
      /\ files' = files \cup {m + 1} /\ Kept /\ SameApp /\ UNCHANGED <<versions, resumes>>
    BY DEF Stores
<1>1. ~Held(h) /\ Held(k) /\ ~Deleting(h) /\ (Private(h) => Private(k)) /\ h.doc \in Docs
      /\ (\A d : Owns(h, d) => Owns(k, d))
    <2>1. h.doc \in Docs
        BY <1>0, Occupied
    <2> HIDE DEF h
    <2> QED BY <1>0, <2>1 DEF Held, Owns, Private, Deleting, Uploading
<1>2. resumes \subseteq Docs /\ m \in Nat /\ files \subseteq 1..m
    BY Files DEF Typed, Hiring
<1>3. Others(p)
    BY <1>0, UploadersAlone
<1>4. Owned'
    <2>1. \A d \in Docs : d \in resumes' /\ Exists(d)' /\ ~Owns(k, d) /\ app'.resume # d =>
              d \in resumes /\ Exists(d) /\ app.resume # d /\ ~Owns(procs[p], d)
        BY <1>0, <1>1 DEF Kept, SameApp
    <2>2. resumes' \subseteq Docs /\ Owned
        BY <1>0, <1>2 DEF Tidy
    <2> QED BY <1>0, <2>1, <2>2, OwnedStep
<1>5. Shelved'
    <2>1. \A f \in files' : made'[f].doc \in resumes' => Placed(f, procs[p], k)
        BY <1>0, <1>1, <1>2 DEF Placed
    <2> QED BY <1>0, <2>1, ShelvedStep DEF Tidy
<1>6. Orderly(k)'
    <2>0. Orderly(h)
        BY DEF Tidy
    <2> HIDE DEF h
    <2>1. InApplication(k) => candidate' /\ ~Applied'
        BY <1>0, <2>0 DEF Orderly, InApplication, SameApp
    <2>2. k.version \in Keys => versions'[k.doc][k.version] = 0
        BY <1>0, <2>0 DEF Orderly
    <2>3. k.kind = "document" => Exists(k.doc)'
        BY <1>0, <1>1, <2>0 DEF Orderly, Kept
    <2> QED BY <1>0, <2>1, <2>2, <2>3 DEF Orderly, InApplication, Uploading
<1> QED BY <1>0, <1>3, <1>4, <1>5, <1>6, TidyStep

LEMMA TidyAdds ==
    ASSUME Typed, Overlaps, Stocked, Tidy, Clean, NEW p \in Procs, NEW k, Adds(p, k)
    PROVE  Tidy'
<1> DEFINE h == procs[p]
<1>0. /\ Pass(p, k, "version") /\ versions[h.doc][h.version] = 0
      /\ versions' = [versions EXCEPT ![h.doc][h.version] = h.file]
      /\ Kept /\ SameApp /\ UNCHANGED <<files, made, resumes>>
    BY DEF Adds
<1>1. /\ h # Idle /\ Held(h) /\ Step(h) = "version" /\ procs' = [procs EXCEPT ![p] = k]
      /\ Step(k) = "current" /\ h.kind \in Uploading /\ k # Idle /\ Carries(h, k)
    BY <1>0, IdleHas DEF Pass, Held, Leads
<1>2. /\ h.doc \in Docs /\ h.version \in Keys /\ h.file \in files /\ made[h.file].doc = h.doc
      /\ versions \in [Docs -> DocumentVersion]
    BY <1>1, Files DEF Stocked, FileKnown, Typed, Shelf
<1>a. Orderly(h) /\ Owned /\ Shelved /\ resumes \subseteq Docs /\ files \subseteq 1..Len(made) /\ Len(made) \in Nat
    BY Files DEF Tidy, Typed, Hiring
<1>3. Others(p)
    BY <1>1, UploadersAlone
<1>4. Orderly(k)'
    <2>1. h.kind = "apply" => candidate' /\ ~Applied'
        BY <1>0, <1>1, <1>a DEF Orderly, InApplication, SameApp
    <2>2. \A d \in Docs : Exists(d) => Exists(d)'
        BY <1>0 DEF Kept
    <2>3. h.kind # "erase"
        BY <1>1 DEF Uploading
    <2> QED BY <1>0, <1>a, <2>1, <2>2, <2>3, OrderlyPass
<1>5. \A d : Owns(h, d) => Owns(k, d)
    <2> HIDE DEF h
    <2> QED BY <1>1 DEF Owns, Private, Deleting, Carries, Uploading
<1>6. Owned'
    <2>1. \A d \in Docs : d \in resumes' /\ Exists(d)' /\ ~Owns(k, d) /\ app'.resume # d =>
              d \in resumes /\ Exists(d) /\ app.resume # d /\ ~Owns(procs[p], d)
        BY <1>0, <1>5 DEF Kept, SameApp
    <2>2. resumes' \subseteq Docs
        BY <1>0, <1>a
    <2> QED BY <1>1, <1>a, <2>1, <2>2, OwnedStep
<1>7. Shelved'
    <2>1. /\ \A d \in Docs : d # h.doc => versions'[d] = versions[d]
          /\ versions'[h.doc] = [versions[h.doc] EXCEPT ![h.version] = h.file]
          /\ versions[h.doc] \in DocumentVersion
        BY <1>0, <1>2
    <2>2. \A n \in Keys : versions'[h.doc][n] = IF n = h.version THEN h.file ELSE versions[h.doc][n]
        <3> HIDE DEF h
        <3> QED BY <2>1 DEF DocumentVersion, Keys
    <2>3. ASSUME NEW f \in files', made'[f].doc \in resumes' PROVE Placed(f, h, k)
        <3>1. f \in files /\ f # 0 /\ made'[f].doc = made[f].doc /\ made[f].doc \in resumes /\ made[f].doc \in Docs
            BY <1>0, <1>a, <2>3
        <3>2. CASE f = h.file
            <4>1. versions'[made'[f].doc][h.version] = f
                BY <1>2, <2>2, <3>1, <3>2
            <4> QED BY <1>2, <4>1 DEF Placed
        <3>3. CASE f # h.file
            <4>1. ASSUME NEW n \in Keys, versions[made[f].doc][n] = f PROVE versions'[made'[f].doc][n] = f
                BY <1>0, <2>1, <2>2, <3>1, <4>1
            <4> HIDE DEF h
            <4> QED BY <3>1, <3>3, <4>1 DEF Placed
        <3> QED BY <3>2, <3>3
    <2> QED BY <1>1, <1>a, <2>3, ShelvedStep
<1> QED BY <1>1, <1>3, <1>4, <1>6, <1>7, TidyStep

(* The upload of a document that is there gets the number it asked for.    *)
LEMMA AddsInTime ==
    ASSUME Typed, Known, Tidy, NEW p \in Procs, AddFails(p)
    PROVE  FALSE
<1> DEFINE h == procs[p]
<1>1. /\ Step(h) = "version" /\ Held(h) /\ h.kind \in Uploading
      /\ ~(Exists(h.doc) /\ versions[h.doc][h.version] = 0)
    BY DEF AddFails, Drop, Held, Leads
<1>2. h.version \in Keys
    BY <1>1, Files
<1>3. Orderly(h) /\ KnownBy(h)
    BY DEF Tidy, Known
<1> HIDE DEF h
<1>4. Exists(h.doc)
    BY <1>1, <1>3 DEF Orderly, KnownBy, Private, Uploading
<1> QED BY <1>1, <1>2, <1>3, <1>4 DEF Orderly

LEMMA TidyWrites ==
    ASSUME Typed, Tidy, NEW p \in Procs, NEW k, NEW s, Writes(p, k, s)
    PROVE  Tidy'
<1> DEFINE h == procs[p]
<1>0. /\ s \in {"current", "save", "softDelete", "emit", "screen"} /\ Pass(p, k, s)
      /\ \A d \in Docs : Exists(d) => Exists(d)'
      /\ \A d \in Docs : Exists(d)' => Exists(d) \/ (s = "save" /\ d = h.doc)
      /\ SameApp /\ UNCHANGED <<versions, files, made, resumes>>
    BY DEF Writes
<1>1. /\ Step(h) = s /\ procs' = [procs EXCEPT ![p] = k] /\ (k = Idle \/ Carries(h, k))
      /\ Leads(h.kind, s, Step(k)) /\ (Deleting(k) <=> Deleting(h))
    BY <1>0 DEF Pass
<1>2. Orderly(h)
    BY DEF Tidy
<1>3. s = "save" => Exists(h.doc)
    <2>1. s = "save" => h.kind = "document"
        BY <1>1 DEF Leads
    <2> QED BY <1>2, <2>1 DEF Orderly
<1>4. Kept
    BY <1>0, <1>3 DEF Kept
<1>5. ~Held(h) /\ \A d : Owns(h, d) => Owns(k, d)
    <2> HIDE DEF h
    <2>1. ~Held(h)
        BY <1>0, <1>1 DEF Held
    <2>2. Private(h) => Private(k) /\ k.doc = h.doc
        <3>1. Private(h) => h.kind = "apply" /\ Step(k) \in {"emit", "application"}
            BY <1>0, <1>1 DEF Private, Leads
        <3>2. Private(h) => k # Idle
            BY <3>1, IdleHas
        <3> QED BY <1>1, <3>1, <3>2 DEF Private, Carries
    <2>3. Deleting(h) => Deleting(k) /\ k.doc = h.doc
        BY <1>1, IdleHas DEF Carries
    <2> QED BY <2>1, <2>2, <2>3 DEF Owns
<1>6. Orderly(k)'
    <2>1. s \in {"version", "current", "emit"} /\ h.kind = "apply" => candidate' /\ ~Applied'
        BY <1>0, <1>1, <1>2 DEF Orderly, InApplication, SameApp
    <2>2. h.kind = "erase" => ~Applied' \/ (s # "document" /\ Deleting(h) /\ h.doc = app'.resume)
        BY <1>0, <1>2 DEF Orderly, SameApp
    <2> QED BY <1>0, <1>2, <2>1, <2>2, OrderlyPass
<1> QED BY <1>0, <1>1, <1>4, <1>5, <1>6, TidyQuiet

LEMMA TidyDrops ==
    ASSUME Typed, Tidy, NEW p \in Procs, NEW s, Drop(p, s), Untouched, s # "version",
           \A d \in Docs : Owns(procs[p], d) => app.resume = d
    PROVE  Tidy'
<1>1. /\ procs' = [procs EXCEPT ![p] = Idle] /\ ~Held(procs[p])
      /\ Kept /\ SameApp /\ UNCHANGED <<versions, files, made, resumes>>
    BY DEF Drop, Held, Untouched
<1> QED BY <1>1, OrderlyIdle, TidyQuiet

LEMMA TidyGivesUp ==
    ASSUME Typed, Tidy, NEW p \in Procs, NEW s, GivesUp(p, s)
    PROVE  Tidy'
<1>1. s \in {"save", "candidate"} /\ Drop(p, s) /\ Untouched
    BY DEF GivesUp
<1>2. \A d : ~Owns(procs[p], d)
    BY <1>1 DEF Drop, Owns, Private, Deleting, Leads
<1> QED BY <1>1, <1>2, TidyDrops

LEMMA TidyFinds ==
    ASSUME Typed, Overlaps, Known, Tidy, Clean, NEW p \in Procs, NEW k, Finds(p, k)
    PROVE  Tidy'
<1> DEFINE h == procs[p]
<1>0. /\ Pass(p, k, "candidate") /\ ~(candidate /\ Applied) /\ candidate' = TRUE
      /\ Kept /\ UNCHANGED <<app, versions, files, made, resumes>>
    BY DEF Finds
<1>1. /\ h # Idle /\ Step(h) = "candidate" /\ h.kind = "apply" /\ procs' = [procs EXCEPT ![p] = k]
      /\ Step(k) = "resume" /\ Carries(h, k)
    BY <1>0, IdleHas DEF Pass, Leads
<1>2. ~Applied /\ ~Applied'
    BY <1>0 DEF Known, Filed, Applied
<1>3. ~Held(h) /\ \A d : ~Owns(h, d)
    <2> HIDE DEF h
    <2> QED BY <1>1 DEF Held, Owns, Private, Deleting
<1>4. Others(p)
    BY <1>1, UploadersAlone DEF Uploading
<1>5. Orderly(k)'
    <2>1. k.kind = "apply"
        BY <1>1 DEF Carries
    <2> QED BY <1>0, <1>1, <1>2, <2>1 DEF Orderly, InApplication
<1>6. resumes \subseteq Docs /\ Owned /\ Shelved
    BY DEF Typed, Hiring, Tidy
<1>7. Owned'
    <2>1. \A d \in Docs : d \in resumes' /\ Exists(d)' /\ ~Owns(k, d) /\ app'.resume # d =>
              d \in resumes /\ Exists(d) /\ app.resume # d /\ ~Owns(procs[p], d)
        BY <1>0, <1>3 DEF Kept
    <2>2. resumes' \subseteq Docs
        BY <1>0, <1>6
    <2> QED BY <1>1, <1>6, <2>1, <2>2, OwnedStep
<1>8. Shelved'
    <2>1. \A f \in files' : made'[f].doc \in resumes' => Placed(f, procs[p], k)
        BY <1>0, <1>3 DEF Placed
    <2> QED BY <1>1, <1>6, <2>1, ShelvedStep
<1> QED BY <1>1, <1>4, <1>5, <1>7, <1>8, TidyStep

LEMMA TidyApplies ==
    ASSUME Typed, Overlaps, Tidy, Clean, NEW p \in Procs, NEW k, Applies(p, k)
    PROVE  Tidy'
<1> DEFINE h == procs[p]
<1>0. /\ Pass(p, k, "application") /\ ~Applied /\ app'.resume = h.doc
      /\ Kept /\ UNCHANGED <<versions, files, made, resumes>>
    BY DEF Applies
<1>1. /\ h # Idle /\ Step(h) = "application" /\ h.kind = "apply" /\ procs' = [procs EXCEPT ![p] = k]
      /\ Step(k) = "screen" /\ Carries(h, k)
    BY <1>0, IdleHas DEF Pass, Leads
<1>2. app.resume \notin Docs
    BY <1>0, DocumentsAssumption DEF Applied, NoApp
<1>3. ~Held(h) /\ \A d : Owns(h, d) => d = h.doc
    <2> HIDE DEF h
    <2> QED BY <1>1 DEF Held, Owns
<1>4. Others(p)
    BY <1>1, UploadersAlone DEF Uploading
<1>5. Orderly(k)'
    <2>1. k.kind = "apply"
        BY <1>1 DEF Carries
    <2> QED BY <1>1, <2>1 DEF Orderly, InApplication
<1>6. resumes \subseteq Docs /\ Owned /\ Shelved
    BY DEF Typed, Hiring, Tidy
<1>7. Owned'
    <2>1. \A d \in Docs : d \in resumes' /\ Exists(d)' /\ ~Owns(k, d) /\ app'.resume # d =>
              d \in resumes /\ Exists(d) /\ app.resume # d /\ ~Owns(procs[p], d)
        BY <1>0, <1>2, <1>3 DEF Kept
    <2>2. resumes' \subseteq Docs
        BY <1>0, <1>6
    <2> QED BY <1>1, <1>6, <2>1, <2>2, OwnedStep
<1>8. Shelved'
    <2>1. \A f \in files' : made'[f].doc \in resumes' => Placed(f, procs[p], k)
        BY <1>0, <1>3 DEF Placed
    <2> QED BY <1>1, <1>6, <2>1, ShelvedStep
<1> QED BY <1>1, <1>4, <1>5, <1>7, <1>8, TidyStep

(* An application that got as far as its last step is saved.               *)
LEMMA AppliesInTime ==
    ASSUME Typed, Known, Tidy, NEW p \in Procs, ApplyFails(p)
    PROVE  FALSE
<1> DEFINE h == procs[p]
<1>1. Step(h) = "application" /\ h.kind = "apply" /\ ~(candidate /\ ~Applied /\ Exists(h.doc))
    BY DEF ApplyFails, Drop, Leads
<1>2. Orderly(h) /\ KnownBy(h)
    BY DEF Tidy, Known
<1> HIDE DEF h
<1> QED BY <1>1, <1>2 DEF Orderly, InApplication, KnownBy, Private

(* A decision writes back the resume that the application has, or the one  *)
(* that a single erasure is deleting.                                      *)
LEMMA TidyDecides ==
    ASSUME Typed, Overlaps, Known, Tidy, Clean, NEW p \in Procs, NEW k, Decides(p, k)
    PROVE  Tidy'
<1> DEFINE h == procs[p]
           r == h.row.resume
<1>0. /\ Pass(p, k, "decide") /\ candidate /\ Exists(r) /\ Applied' /\ app'.resume = r
      /\ Kept /\ UNCHANGED <<candidate, versions, files, made, resumes>>
    BY DEF Decides
<1>1. /\ h # Idle /\ Step(h) = "decide" /\ h.kind = "decide" /\ procs' = [procs EXCEPT ![p] = k]
      /\ Step(k) = "none" /\ (k = Idle \/ Carries(h, k))
    BY <1>0 DEF Pass, Leads
<1>2. r \in resumes /\ r \in Docs /\ Holds(h, r)
    BY <1>1 DEF Known, KnownBy, Typed, Hiring, Holds
<1>3. ~Held(h) /\ ~Private(h) /\ ~Deleting(h) /\ \A d : ~Owns(h, d)
    <2> HIDE DEF h
    <2> QED BY <1>1 DEF Held, Owns, Private, Deleting
<1> HIDE DEF r
<1>4. app.resume = r \/ \E q \in Procs : q # p /\ Deleting(procs[q]) /\ procs[q].doc = r
    <2>1. CASE \E q \in Procs : Owns(procs[q], r)
        <3>1. PICK q \in Procs : Owns(procs[q], r)
            BY <2>1
        <3>2. q # p
            BY <1>3, <3>1
        <3>3. ~Private(procs[q])
            BY <1>2, <3>1, <3>2 DEF Owns, Known, Separate
        <3> QED BY <3>1, <3>2, <3>3 DEF Owns
    <2> QED BY <1>0, <1>2, <2>1 DEF Tidy, Owned
<1>5. Applied <=> app.resume = r
    <2>1. app.resume = r => Applied
        BY <1>2, DocumentsAssumption DEF Applied, NoApp
    <2>2. ASSUME Applied, NEW q \in Procs, Deleting(procs[q]), procs[q].doc = r PROVE app.resume = r
        <3>1. procs[q].kind = "erase" /\ Orderly(procs[q])
            BY <2>2 DEF Deleting, Tidy
        <3> QED BY <2>2, <3>1 DEF Orderly
    <2> QED BY <1>4, <2>1, <2>2
<1>6. Others(p)
    <2>1. CASE Applied
        <3>1. \A kind : Harmless(kind)
            BY <1>0, <1>5, <2>1 DEF Harmless, Kept
        <3> QED BY <3>1, OthersStay
    <2>2. CASE ~Applied
        <3>1. PICK q \in Procs : q # p /\ Deleting(procs[q]) /\ procs[q].doc = r
            BY <1>4, <1>5, <2>2
        <3>2. procs[q].kind = "erase" /\ procs[q] # Idle
            BY <3>1, IdleHas DEF Deleting
        <3>3. {"decide", "erase"} \in faults
            BY <1>1, <3>1, <3>2 DEF Overlaps
        <3>4. ASSUME NEW x \in Procs, x # p, x # q, procs[x] # Idle PROVE Harmless(procs[x].kind)
            <4>1. procs[x].kind \notin Uploading
                BY <3>2, <3>4, Alone
            <4>2. procs[x].kind # "erase"
                <5>1. {procs[q].kind, procs[x].kind} \in faults
                    BY <3>2, <3>4 DEF Overlaps
                <5>2. procs[x].kind = "erase" => {procs[q].kind, procs[x].kind} = {"erase"}
                    BY <3>2
                <5> QED BY <3>3, <5>1, <5>2 DEF Clean
            <4> QED BY <4>1, <4>2 DEF Harmless, Uploading
        <3> SUFFICES ASSUME NEW x \in Procs, x # p, NEW g, g = procs[x] PROVE Orderly(g)'
            BY DEF Others
        <3>5. CASE x = q
            <4>1. g.kind = "erase" /\ Deleting(g) /\ g.doc = app'.resume /\ Orderly(g)
                BY <1>0, <3>1, <3>2, <3>5 DEF Tidy
            <4>2. Step(g) \notin {"upload", "version"}
                BY <3>5, <4>1, Occupied DEF Uploading
            <4> QED BY <1>0, <4>1, <4>2 DEF Orderly, InApplication
        <3>6. CASE x # q /\ g = Idle
            BY <3>6, OrderlyIdle
        <3>7. CASE x # q /\ g # Idle
            <4>1. Harmless(g.kind) /\ Orderly(g)
                BY <3>4, <3>7 DEF Tidy
            <4> QED BY <4>1, OrderlyStays
        <3> QED BY <3>5, <3>6, <3>7
    <2> QED BY <2>1, <2>2
<1>7. Orderly(k)'
    <2>1. k.kind \in {"none", "decide"}
        BY <1>1, IdleHas DEF Carries
    <2> QED BY <1>1, <2>1 DEF Orderly, InApplication
<1>8. resumes \subseteq Docs /\ Owned /\ Shelved
    BY DEF Typed, Hiring, Tidy
<1>9. Owned'
    <2>1. \A d \in Docs : app.resume = d => app.resume = r
        BY <1>5, DocumentsAssumption DEF Applied, NoApp
    <2>2. \A d \in Docs : d \in resumes' /\ Exists(d)' /\ ~Owns(k, d) /\ app'.resume # d =>
              d \in resumes /\ Exists(d) /\ app.resume # d /\ ~Owns(procs[p], d)
        BY <1>0, <1>3, <2>1 DEF Kept
    <2>3. resumes' \subseteq Docs
        BY <1>0, <1>8
    <2> QED BY <1>1, <1>8, <2>2, <2>3, OwnedStep
<1>10. Shelved'
    <2>1. \A f \in files' : made'[f].doc \in resumes' => Placed(f, procs[p], k)
        BY <1>0, <1>3 DEF Placed
    <2> QED BY <1>1, <1>8, <2>1, ShelvedStep
<1> QED BY <1>1, <1>6, <1>7, <1>9, <1>10, TidyStep

LEMMA TidyDecidesNot ==
    ASSUME Typed, Tidy, NEW p \in Procs, NEW k, DecidesNot(p, k)
    PROVE  Tidy'
<1>1. /\ procs' = [procs EXCEPT ![p] = k] /\ Step(procs[p]) = "decide" /\ procs[p].kind = "decide"
      /\ Step(k) = "none" /\ (k = Idle \/ Carries(procs[p], k))
      /\ Kept /\ SameApp /\ UNCHANGED <<versions, files, made, resumes>>
    BY DEF DecidesNot, Pass, Leads, Untouched
<1>2. ~Held(procs[p]) /\ \A d : ~Owns(procs[p], d)
    BY <1>1 DEF Held, Owns, Private, Deleting
<1>3. Orderly(k)'
    <2>1. k.kind \in {"none", "decide"}
        BY <1>1, IdleHas DEF Carries
    <2> QED BY <1>1, <2>1 DEF Orderly, InApplication
<1> QED BY <1>1, <1>2, <1>3, TidyQuiet

LEMMA TidyEnds ==
    ASSUME Typed, Overlaps, Tidy, Clean, NEW p \in Procs, NEW k, Withdraws(p, k) \/ Forgets(p, k)
    PROVE  Tidy'
<1> DEFINE h == procs[p]
<1>0. PICK s \in {"applications", "erase"} :
          /\ Pass(p, k, s) /\ app' = NoApp /\ Kept /\ UNCHANGED <<versions, files, made, resumes>>
    BY DEF Withdraws, Forgets
<1>1. /\ h # Idle /\ Step(h) = s /\ h.kind = "erase" /\ procs' = [procs EXCEPT ![p] = k]
      /\ Leads(h.kind, s, Step(k)) /\ (Deleting(k) <=> Deleting(h)) /\ (k = Idle \/ Carries(h, k))
    BY <1>0 DEF Pass, Leads
<1>2. ~Applied' /\ app'.resume \notin Docs
    BY <1>0, DocumentsAssumption DEF Applied, NoApp
<1>3. ~Held(h) /\ ~Private(h) /\ \A d : Owns(h, d) => Owns(k, d)
    <2> HIDE DEF h
    <2> QED BY <1>1, IdleHas DEF Held, Owns, Private, Carries
<1>4. \A d \in Docs : app.resume = d => Owns(k, d)
    <2> SUFFICES ASSUME NEW d \in Docs, app.resume = d PROVE Owns(k, d)
        OBVIOUS
    <2>1. Applied
        BY DocumentsAssumption DEF Applied, NoApp
    <2>2. Deleting(h) /\ h.doc = d
        BY <1>1, <2>1 DEF Tidy, Orderly
    <2> QED BY <1>3, <2>2 DEF Owns
<1>5. Others(p)
    BY <1>0, <1>1, <1>2, EraserAlone
<1>6. Orderly(k)'
    <2>1. /\ k.kind \in {"none", "erase"} /\ Step(k) \notin {"upload", "version", "files", "document"}
        BY <1>0, <1>1, IdleHas DEF Carries, Leads
    <2> QED BY <1>2, <2>1 DEF Orderly, InApplication
<1>7. resumes \subseteq Docs /\ Owned /\ Shelved
    BY DEF Typed, Hiring, Tidy
<1>8. Owned'
    <2>1. \A d \in Docs : d \in resumes' /\ Exists(d)' /\ ~Owns(k, d) /\ app'.resume # d =>
              d \in resumes /\ Exists(d) /\ app.resume # d /\ ~Owns(procs[p], d)
        BY <1>0, <1>3, <1>4 DEF Kept
    <2>2. resumes' \subseteq Docs
        BY <1>0, <1>7
    <2> QED BY <1>1, <1>7, <2>1, <2>2, OwnedStep
<1>9. Shelved'
    <2>1. \A f \in files' : made'[f].doc \in resumes' => Placed(f, procs[p], k)
        BY <1>0, <1>3 DEF Placed
    <2> QED BY <1>1, <1>7, <2>1, ShelvedStep
<1> QED BY <1>1, <1>5, <1>6, <1>8, <1>9, TidyStep

(* An erasure that looks for the files of the resume finds all of them.    *)
LEMMA TidyLooks ==
    ASSUME Typed, Overlaps, Known, Stocked, Tidy, Clean, NEW p \in Procs, NEW k, Looks(p, k)
    PROVE  Tidy'
<1> DEFINE h == procs[p]
<1>0. /\ h # Idle /\ procs' = [procs EXCEPT ![p] = k] /\ Step(h) = "purge" /\ Deleting(h)
      /\ h.kind = "erase" /\ k.kind = "erase" /\ k.doc = h.doc /\ h.doc \in Docs
      /\ \/ Exists(h.doc) /\ Step(k) = "files" /\ Deleting(k) /\ k.seen = Listing(k.doc)
         \/ ~Exists(h.doc) /\ Step(k) = "erase" /\ ~Deleting(k)
      /\ Kept /\ SameApp /\ UNCHANGED <<versions, files, made, resumes>>
    BY DEF Looks, Untouched
<1>1. ~Held(h) /\ ~Private(h) /\ \A d : Owns(h, d) <=> d = h.doc
    <2> HIDE DEF h
    <2> QED BY <1>0 DEF Held, Owns, Private
<1>2. \A d \in Docs : Owns(h, d) /\ Exists(d) => Owns(k, d) \/ app.resume = d
    BY <1>0, <1>1 DEF Owns
<1>3. Orderly(h) /\ KnownBy(h) /\ Filed /\ Shelved
    BY DEF Tidy, Known
<1>4. CASE Exists(h.doc) /\ Step(k) = "files" /\ Deleting(k) /\ k.seen = Listing(k.doc)
    <2>1. ASSUME NEW f \in files, made[f].doc = k.doc PROVE f \in k.seen
        <3>1. made[f].doc \in resumes
            BY <1>0, <1>3, <2>1 DEF KnownBy
        <3>2. ASSUME NEW q \in Procs, Held(procs[q]) PROVE FALSE
            <4>1. procs[q].kind \in Uploading /\ procs[q] # Idle
                BY <3>2, Occupied DEF Held, Uploading
            <4>2. q # p
                BY <1>1, <3>2
            <4> QED BY <1>0, <4>1, <4>2, Alone
        <3>3. PICK n \in Keys : versions[made[f].doc][n] = f
            BY <1>3, <3>1, <3>2 DEF Shelved
        <3>4. f # 0
            BY Files
        <3>5. n \in Numbers(k.doc)
            BY <2>1, <3>3, <3>4 DEF Numbers
        <3> QED BY <1>4, <2>1, <3>3, <3>5 DEF Listing
    <2>2. Applied' => app'.resume = k.doc
        BY <1>0, <1>3 DEF Orderly, SameApp
    <2>3. Orderly(k)'
        BY <1>0, <1>4, <2>1, <2>2 DEF Orderly, InApplication
    <2> QED BY <1>0, <1>1, <1>2, <2>3, TidyQuiet
<1>5. CASE ~Exists(h.doc) /\ Step(k) = "erase" /\ ~Deleting(k)
    <2>1. ~Applied'
        BY <1>0, <1>3, <1>5 DEF Orderly, Filed, SameApp
    <2>2. Orderly(k)'
        BY <1>0, <1>5, <2>1 DEF Orderly, InApplication
    <2> QED BY <1>0, <1>1, <1>2, <2>2, TidyQuiet
<1> QED BY <1>0, <1>4, <1>5

LEMMA TidyWiped ==
    ASSUME Typed, Tidy, NEW p \in Procs, NEW k, Wiped(p, k)
    PROVE  Tidy'
<1> DEFINE h == procs[p]
<1>0. PICK key \in h.seen : k.seen = h.seen \ {key} /\ files' = files \ {key}
    BY DEF Wiped
<1>1. /\ Step(h) = "files" /\ Step(k) = "files" /\ procs' = [procs EXCEPT ![p] = k]
      /\ h.kind = "erase" /\ k.kind = "erase" /\ k.doc = h.doc /\ Deleting(h) /\ Deleting(k)
      /\ Kept /\ SameApp /\ UNCHANGED <<versions, made, resumes>>
    BY DEF Wiped
<1>2. Orderly(h)
    BY DEF Tidy
<1> HIDE DEF h
<1>3. ~Held(h) /\ \A d : Owns(h, d) => Owns(k, d)
    BY <1>1 DEF Held, Owns, Private
<1>4. \A f \in files' : made'[f].doc = k.doc => f \in k.seen
    BY <1>0, <1>1, <1>2 DEF Orderly
<1>5. Applied' => k.doc = app'.resume
    BY <1>1, <1>2 DEF Orderly, SameApp
<1>6. Orderly(k)'
    BY <1>1, <1>4, <1>5 DEF Orderly, InApplication
<1> QED BY <1>0, <1>1, <1>3, <1>6, TidyQuiet DEF h

LEMMA TidyClears ==
    ASSUME Typed, Tidy, NEW p \in Procs, NEW k, Clears(p, k)
    PROVE  Tidy'
<1> DEFINE h == procs[p]
<1>0. /\ Pass(p, k, "files") /\ h.seen = {} /\ files' = files
      /\ Kept /\ SameApp /\ UNCHANGED <<versions, made, resumes>>
    BY DEF Clears, Untouched
<1>1. /\ Step(h) = "files" /\ h.kind = "erase" /\ procs' = [procs EXCEPT ![p] = k] /\ Step(k) = "document"
      /\ (Deleting(k) <=> Deleting(h)) /\ Carries(h, k)
    BY <1>0, IdleHas DEF Pass, Leads
<1>2. Orderly(h)
    BY DEF Tidy
<1> HIDE DEF h
<1>3. ~Held(h) /\ \A d : Owns(h, d) => Owns(k, d)
    BY <1>1 DEF Held, Owns, Private, Carries
<1>4. \A f \in files' : made'[f].doc # k.doc
    BY <1>0, <1>1, <1>2 DEF Orderly, Carries
<1>5. Applied' => Deleting(k) /\ k.doc = app'.resume
    BY <1>0, <1>1, <1>2 DEF Orderly, Carries, SameApp
<1>6. k.kind = "erase"
    BY <1>1 DEF Carries
<1>7. Orderly(k)'
    BY <1>1, <1>4, <1>5, <1>6 DEF Orderly, InApplication
<1> QED BY <1>0, <1>1, <1>3, <1>7, TidyQuiet DEF h

LEMMA TidyDeletes ==
    ASSUME Typed, Overlaps, Tidy, Clean, NEW p \in Procs, NEW k, Deletes(p, k)
    PROVE  Tidy'
<1> DEFINE h == procs[p]
           d == h.doc
<1>0. /\ Pass(p, k, "document") /\ app.resume # d
      /\ \A x \in Docs : Exists(x)' <=> Exists(x) /\ x # d
      /\ \A x \in Docs, n \in Keys : versions'[x][n] = IF x = d THEN 0 ELSE versions[x][n]
      /\ SameApp /\ UNCHANGED <<files, made, resumes>>
    BY DEF Deletes
<1>1. /\ h # Idle /\ Step(h) = "document" /\ h.kind = "erase" /\ procs' = [procs EXCEPT ![p] = k]
      /\ Step(k) = "emit" /\ Carries(h, k)
    BY <1>0, IdleHas DEF Pass, Leads
<1>2. Orderly(h) /\ Owned /\ Shelved /\ resumes \subseteq Docs
    BY DEF Tidy, Typed, Hiring
<1>3. ~Held(h) /\ \A x : Owns(h, x) => x = d
    <2> HIDE DEF h
    <2> QED BY <1>1 DEF Held, Owns, d
<1>4. ~Applied'
    BY <1>0, <1>1, <1>2 DEF Orderly, SameApp
<1>5. \A f \in files : made[f].doc # d
    BY <1>1, <1>2 DEF Orderly
<1>6. Others(p)
    BY <1>0, <1>1, <1>4, EraserAlone
<1>7. Orderly(k)'
    <2>1. k.kind = "erase"
        BY <1>1 DEF Carries
    <2> QED BY <1>1, <1>4, <2>1 DEF Orderly, InApplication
<1> HIDE DEF d
<1>8. Owned'
    <2>1. \A x \in Docs : x \in resumes' /\ Exists(x)' /\ ~Owns(k, x) /\ app'.resume # x =>
              x \in resumes /\ Exists(x) /\ app.resume # x /\ ~Owns(procs[p], x)
        BY <1>0, <1>3 DEF SameApp
    <2>2. resumes' \subseteq Docs
        BY <1>0, <1>2
    <2> QED BY <1>1, <1>2, <2>1, <2>2, OwnedStep
<1>9. Shelved'
    <2>1. \A f \in files' : made'[f].doc \in resumes' => Placed(f, procs[p], k)
        BY <1>0, <1>2, <1>3, <1>5 DEF Placed
    <2> QED BY <1>1, <1>2, <2>1, ShelvedStep
<1> QED BY <1>1, <1>6, <1>7, <1>8, <1>9, TidyStep

LEMMA TidyDeleteFails ==
    ASSUME Typed, Tidy, NEW p \in Procs, DeleteFails(p)
    PROVE  Tidy'
<1>1. Drop(p, "document") /\ Untouched /\ app.resume = procs[p].doc
    BY DEF DeleteFails
<1>2. \A d : Owns(procs[p], d) => app.resume = d
    BY <1>1 DEF Owns
<1> QED BY <1>1, <1>2, TidyDrops

LEMMA TidyNext ==
    ASSUME Typed, Catalogue, Overlaps, Known, Stocked, Tidy, Clean, Clean', Turn
    PROVE  Tidy'
<1>1. CASE procs' = procs /\ Untouched
    <2>1. Kept /\ SameApp /\ UNCHANGED <<versions, files, made, resumes>>
        BY <1>1 DEF Untouched
    <2>2. resumes \subseteq Docs
        BY DEF Typed, Hiring
    <2>3. Owned'
        BY <1>1, <2>1, <2>2 DEF Tidy, Owned, Kept, SameApp, Owns, Private, Step, Deleting
    <2>4. Shelved'
        BY <1>1, <2>1 DEF Tidy, Shelved, Held, Step
    <2>5. ASSUME NEW q \in Procs PROVE Orderly(procs[q])'
        <3>0. PICK h : h = procs[q]
            OBVIOUS
        <3>1. Orderly(h) /\ Harmless(h.kind)
            BY <2>1, <3>0 DEF Tidy, Harmless, Kept, SameApp
        <3>2. Orderly(h)' /\ procs'[q] = h
            BY <1>1, <3>0, <3>1, OrderlyStays
        <3> QED BY <3>2 DEF Orderly, InApplication
    <2> QED BY <2>3, <2>4, <2>5 DEF Tidy
<1>2. ASSUME NEW p \in Procs, Uploaded(p) PROVE Tidy'
    <2>1. ~StoreFails(p)
        BY DEF StoreFails, Clean
    <2>2. ~AddFails(p)
        BY AddsInTime
    <2> QED BY <1>2, <2>1, <2>2, TidyCreates, TidyMakes, TidyStores, TidyAdds DEF Uploaded
<1>3. ASSUME NEW p \in Procs, Written(p) PROVE Tidy'
    <2>1. ~Dies(p)
        BY DEF Dies, Clean
    <2> QED BY <1>3, <2>1, TidyBegins, TidyWrites, TidyGivesUp DEF Written
<1>4. ASSUME NEW p \in Procs, Hired(p) PROVE Tidy'
    <2>1. ~ApplyFails(p)
        BY AppliesInTime
    <2> QED BY <1>4, <2>1, TidyFinds, TidyApplies, TidyDecides, TidyDecidesNot DEF Hired
<1>5. ASSUME NEW p \in Procs, Erased(p) PROVE Tidy'
    <2>1. ~Rejected(p)
        BY DEF Rejected, Clean
    <2> QED BY <1>5, <2>1, TidyEnds, TidyLooks, TidyWiped, TidyClears, TidyDeletes, TidyDeleteFails DEF Erased
<1> QED BY <1>1, <1>2, <1>3, <1>4, <1>5 DEF Turn

(* Faults are never forgotten.                                             *)
LEMMA CleanBefore == ASSUME Turn, Clean' PROVE Clean
<1>1. faults \subseteq faults'
    <2>1. ASSUME NEW p, Uploaded(p) PROVE faults \subseteq faults'
        BY <2>1 DEF Uploaded, Creates, Makes, Stores, StoreFails, Adds, AddFails, Started, Untouched
    <2>2. ASSUME NEW p, Written(p) PROVE faults \subseteq faults'
        BY <2>2 DEF Written, Begins, Writes, Dies, GivesUp, Untouched
    <2>3. ASSUME NEW p, Hired(p) PROVE faults \subseteq faults'
        BY <2>3 DEF Hired, Finds, Applies, ApplyFails, Decides, DecidesNot, Untouched
    <2>4. ASSUME NEW p, Erased(p) PROVE faults \subseteq faults'
        BY <2>4 DEF Erased, Withdraws, Looks, Wiped, Rejected, Clears, Deletes, DeleteFails, Forgets, Untouched
    <2> QED BY <2>1, <2>2, <2>3, <2>4 DEF Turn, Untouched
<1> QED BY <1>1 DEF Clean

LEMMA ErasingNext == Typed /\ Catalogue /\ Overlaps /\ Known /\ Stocked /\ Erasing /\ [Next]_vars => Erasing'
    BY Turns, TidyNext, CleanBefore DEF Erasing

(* Once an applicant has been erased nothing of their resumes is left, not *)
(* in the documents, the knowledge base or storage, unless a server died,  *)
(* an upload failed, storage did not delete a file, a request that may     *)
(* upload overlapped another one or an erasure, or a decision wrote an     *)
(* application back that one of two overlapping erasures had not seen.     *)
THEOREM ErasedForGood == Spec => []ErasureIsComplete
<1>1. Init => Erasing
    <2> SUFFICES ASSUME Init PROVE Tidy
        BY DEF Erasing
    <2>1. \A p \in Procs : procs[p] = Idle
        BY DEF Init, DocumentsInit
    <2>2. resumes = {} /\ files = {}
        BY DEF Init, DocumentsInit
    <2> QED BY <2>1, <2>2, IdleHas DEF Tidy, Owned, Shelved, Orderly, InApplication
<1>2. Typed /\ Catalogue /\ Known /\ Erasing => ErasureIsComplete
    <2> SUFFICES ASSUME Typed, Catalogue, Known, Tidy, Quiet, ~candidate
                 PROVE  /\ app = NoApp
                        /\ \A d \in resumes : ~Exists(d) /\ chunks[d] = {}
                        /\ \A f \in files : made[f].doc \notin resumes
        BY DEF ErasureIsComplete, Erasing, Clean
    <2>1. \A p \in Procs : procs[p] = Idle
        BY DEF Quiet
    <2>2. app = NoApp
        BY DEF Known, Filed, Applied
    <2>3. resumes \subseteq Docs /\ app.resume \notin Docs
        BY <2>2, DocumentsAssumption DEF Typed, Hiring, NoApp
    <2>4. \A p \in Procs : ~Held(procs[p]) /\ \A d : ~Owns(procs[p], d)
        BY <2>1, IdleHas DEF Held, Owns, Private
    <2>5. ASSUME NEW d \in resumes PROVE ~Exists(d) /\ chunks[d] = {} /\ \A n \in Keys : versions[d][n] = 0
        <3>1. ~Exists(d)
            BY <2>3, <2>4 DEF Tidy, Owned
        <3> QED BY <2>3, <3>1 DEF Catalogue, Rows
    <2>6. ASSUME NEW f \in files, made[f].doc \in resumes PROVE FALSE
        <3>1. PICK n \in Keys : versions[made[f].doc][n] = f
            BY <2>4, <2>6 DEF Tidy, Shelved
        <3>2. f # 0
            BY Files
        <3> QED BY <2>5, <2>6, <3>1, <3>2
    <2> QED BY <2>2, <2>5, <2>6
<1>3. Spec => []Typed /\ []Catalogue /\ []Overlaps /\ []Known /\ []Stocked
    BY AlwaysTyped, AlwaysCatalogue, AlwaysOverlaps, AlwaysKnown, AlwaysStocked
<1> QED BY <1>1, <1>2, <1>3, ErasingNext, PTL DEF Spec
=============================================================================
