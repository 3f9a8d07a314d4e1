------------------------ MODULE BrochureCacheProofs ------------------------
(***************************************************************************)
(* The brochures on the disk, for any number of processes, tasks, uploads  *)
(* and brochures.                                                          *)
(*                                                                         *)
(* Between the fetch and the read the file may be emptied and written      *)
(* again by a task of the same process.  The invariant says who does it,   *)
(* that the same bytes come back, and that no other task of the process    *)
(* runs before they are there.                                             *)
(***************************************************************************)
EXTENDS BrochureCache, TLAPS

\* In the middle of code without an await.
Busy(r) == r.pc \in {"open", "save", "reread"}

OneBusy ==
    \A u, v \in Users : u # v /\ Process[u] = Process[v] => ~(Busy(user[u]) /\ Busy(user[v]))

\* What may be in the file p.
Fits(p, f) == IF p \in Brochures THEN f.content = p ELSE Key[f.content] = p

FilesFit == \A p \in Paths : file[p] # NULL => Fits(p, file[p])

\* Who writes what, and what a run has read.
Well(r) ==
    /\ r.path \in Brochures => r.want = r.path
    /\ r.pc \in {"list", "look", "download", "segment", "reread"} => r.kind \in {"run", "fetch"}
    /\ r.pc \in {"segment", "reread"} => r.kind = "run" /\ Fits(r.path, r.sha)
                                         /\ (~r.cached => r.sha.whole /\ r.path \in Brochures)
    /\ r.pc \in {"open", "save"} =>
          /\ Fits(r.path, r.holding)
          /\ r.kind \in {"run", "fetch"} <=> r.path \in Brochures
          /\ r.path \in Brochures => r.holding.whole
          /\ r.kind = "seed" => r.todo = {}

Saving(v, p) == At(v, "save") /\ user[v].path = p

\* A torn file is being written, or its last write ended early.
TornIsWritten ==
    \A p \in Paths : file[p] # NULL /\ ~file[p].whole =>
       p \in cut \/ \E v \in Users : Saving(v, p)

\* What an undisturbed run has read is there, or comes back.
Kept(u) ==
    LET p == user[u].path
    IN  user[u].pc \in {"segment", "reread"} /\ ~user[u].disturbed =>
          /\ user[u].sha.whole /\ p \in Brochures =>
                \/ file[p] = user[u].sha
                \/ \E v \in Users \ {u} : Process[v] = Process[u] /\ Saving(v, p)
          /\ user[u].sha.whole /\ p \notin Brochures =>
                /\ file[p] = user[u].sha
                /\ \A v \in Users : ~Saving(v, p)
                /\ \A v \in Users : Process[v] = Process[u] /\ At(v, "open") => user[v].path # p
          /\ user[u].cached =>
                /\ file[p] # NULL
                /\ \A v \in Users : Process[v] # Process[u] => ~Saving(v, p)

AllWell == \A u \in Users : Well(user[u])

AllKept == \A u \in Users : Kept(u)

IInv == TypeOK /\ OneBusy /\ FilesFit /\ AllWell /\ TornIsWritten /\ AllKept

-----------------------------------------------------------------------------
\* The types of one user.
Typed(r) ==
    /\ r \in User
    /\ r.pc \in {"open", "save"} <=> r.holding # NULL
    /\ r.pc \in {"segment", "reread"} <=> r.sha # NULL
    /\ r.pc \in {"idle", "list"} <=> r.path = NULL

LEMMA TypeOKIs ==
    TypeOK <=> /\ file \in [Paths -> File \cup {NULL}]
               /\ user \in [Users -> User]
               /\ \A u \in Users : Typed(user[u])
               /\ cut \in SUBSET Paths
               /\ faults \in 0 .. MaxFaults
  BY DEF TypeOK, Typed

\* What a user has in hand.
LEMMA InHand ==
    ASSUME NEW r, Typed(r)
    PROVE  /\ r.pc \notin {"idle", "list"} => r.path \in Paths
           /\ r.pc \in {"open", "save"} => r.holding \in File
           /\ r.pc \in {"segment", "reread"} => r.sha \in File
  BY DEF Typed, User

LEMMA PathsApart ==
    /\ Brochures \cap Keys = {}
    /\ NULL \notin Paths
    /\ \A c \in Contents : Key[c] \in Keys /\ Key[c] \in Paths
    /\ \A b \in Brochures : b \in Contents /\ b \in Paths
  BY KeyAssumption, NullAssumption DEF Paths, Contents

\* A whole file that fits a brochure's path is the brochure.
LEMMA WholeIsOne ==
    ASSUME NEW b \in Brochures, NEW f \in File, f.whole, Fits(b, f)
    PROVE  f = Whole(b)
  BY DEF File, Fits, Whole

\* A step of one user, and of no file.
LEMMA QuietStep ==
    ASSUME IInv, NEW u \in Users, NEW rec, Becomes(u, rec), UNCHANGED <<file, cut, faults>>,
           Typed(rec), Well(rec),
           user[u].pc \notin {"open", "save"}, rec.pc # "save",
           LoopFree(u) \/ ~Busy(rec),
           rec.pc = "open" /\ rec.path \notin Brochures => file[rec.path] = NULL,
           rec.pc \in {"segment", "reread"} /\ ~rec.disturbed =>
              /\ rec.sha.whole => file[rec.path] = rec.sha
              /\ rec.sha.whole /\ rec.path \notin Brochures =>
                    /\ \A v \in Users : ~Saving(v, rec.path)
                    /\ \A v \in Users : Process[v] = Process[u] /\ At(v, "open")
                                          => user[v].path # rec.path
              /\ rec.cached =>
                    /\ file[rec.path] # NULL
                    /\ \A v \in Users : Process[v] # Process[u] => ~Saving(v, rec.path)
    PROVE  IInv'
  <1>1. /\ user' = [user EXCEPT ![u] = rec]
        /\ user \in [Users -> User]
        /\ file' = file /\ cut' = cut /\ faults' = faults
        /\ rec \in User
    BY DEF Becomes, IInv, TypeOK, Typed
  <1>2. /\ user'[u] = rec
        /\ \A v \in Users \ {u} : user'[v] = user[v]
    BY <1>1
  <1>3. TypeOK'
    <2>1. \A v \in Users : Typed(user'[v])
      BY <1>2, TypeOKIs DEF IInv
    <2> QED
      BY <1>1, <2>1 DEF IInv, TypeOK, Typed
  <1>4. OneBusy'
    <2>1. \A v \in Users \ {u} : Process[v] = Process[u] /\ Busy(rec) => ~Busy(user[v])
      BY DEF LoopFree, Busy
    <2> QED
      BY <1>2, <2>1 DEF IInv, OneBusy, Busy
  <1>5. FilesFit'
    BY <1>1 DEF IInv, FilesFit, Fits
  <1>6. AllWell'
    BY <1>2 DEF IInv, AllWell, Well, Fits
  <1>7. \A v \in Users : \A p : Saving(v, p)' <=> Saving(v, p)
    BY <1>2 DEF Saving, At
  <1>8. TornIsWritten'
    BY <1>1, <1>7 DEF IInv, TornIsWritten
  <1>9. Kept(u)'
    BY <1>1, <1>2, <1>7 DEF Kept, At
  <1>10. ASSUME NEW w \in Users \ {u}
         PROVE  Kept(w)'
    <2>1. Kept(w) /\ Typed(user[w])
      BY TypeOKIs DEF IInv, AllKept
    <2>2. user'[w] = user[w]
      BY <1>2
    <2>3. user[w].pc \in {"segment", "reread"} => user[w].sha \in File /\ user[w].sha # NULL
      BY <2>1, InHand DEF Typed
    <2> DEFINE p == user[w].path
    <2>4. ASSUME user[w].pc \in {"segment", "reread"}, ~user[w].disturbed,
                 user[w].sha.whole, p \notin Brochures
          PROVE  \A v \in Users : Process[v] = Process[w] /\ At(v, "open")' => user'[v].path # p
      <3>1. file[p] = user[w].sha /\ file[p] # NULL
        BY <2>1, <2>3, <2>4 DEF Kept
      <3>2. \A v \in Users : Process[v] = Process[w] /\ At(v, "open") => user[v].path # p
        BY <2>1, <2>4 DEF Kept
      <3> QED
        BY <1>2, <2>4, <3>1, <3>2 DEF At
    <2> QED
      BY <1>1, <1>7, <2>1, <2>2, <2>4 DEF Kept
  <1> QED
    BY <1>3, <1>4, <1>5, <1>6, <1>8, <1>9, <1>10 DEF IInv, AllKept

\* The same for a user that goes where nothing is in hand.
LEMMA EasyStep ==
    ASSUME IInv, NEW u \in Users, NEW rec, Becomes(u, rec), UNCHANGED <<file, cut, faults>>,
           Typed(rec), Well(rec), user[u].pc \notin {"open", "save"},
           rec.pc \in {"idle", "list", "look", "download"}
    PROVE  IInv'
  <1>1. ~Busy(rec)
    BY DEF Busy
  <1> QED
    BY <1>1, QuietStep

LEMMA IdleFits == Typed(Idle) /\ Well(Idle) /\ Idle.pc = "idle"
  BY PathsApart DEF Idle, Typed, User, Steps, Kinds, Well

-----------------------------------------------------------------------------
LEMMA StartSound ==
    ASSUME IInv, NEW u \in Users, Start(u)
    PROVE  IInv'
  <1>0. At(u, "idle") /\ LoopFree(u) /\ UNCHANGED <<file, cut, faults>>
    BY DEF Start, StartKnown, StartSeed, StartList, StartUpload, Starts
  <1>1. user[u].pc \notin {"open", "save"}
    BY <1>0 DEF At
  <1>2. ASSUME NEW b \in Brochures, NEW kind \in {"run", "fetch"}, NEW force \in BOOLEAN,
               StartKnown(u, kind, b, force)
        PROVE  IInv'
    <2> DEFINE rec == [Idle EXCEPT !.pc = "look", !.kind = kind, !.want = b,
                                   !.path = b, !.force = force]
    <2>1. Typed(rec) /\ Well(rec) /\ rec.pc = "look"
      BY PathsApart DEF Idle, Typed, User, Steps, Kinds, Well
    <2>2. Becomes(u, rec)
      BY <1>2 DEF StartKnown, Starts
    <2> HIDE DEF rec
    <2> QED
      BY <1>0, <1>1, <2>1, <2>2, EasyStep
  <1>3. ASSUME NEW kind \in {"run", "fetch"}, NEW force \in BOOLEAN, StartList(u, kind, force)
        PROVE  IInv'
    <2> DEFINE rec == [Idle EXCEPT !.pc = "list", !.kind = kind, !.force = force]
    <2>1. Typed(rec) /\ Well(rec) /\ rec.pc = "list"
      BY PathsApart DEF Idle, Typed, User, Steps, Kinds, Well
    <2>2. Becomes(u, rec)
      BY <1>3 DEF StartList, Starts
    <2> HIDE DEF rec
    <2> QED
      BY <1>0, <1>1, <2>1, <2>2, EasyStep
  <1>4. ASSUME NEW c \in Contents, StartUpload(u, c), file[Key[c]] # NULL
        PROVE  IInv'
    <2> DEFINE rec == [Idle EXCEPT !.pc = "look", !.want = c, !.path = Key[c]]
    <2>1. Typed(rec) /\ Well(rec) /\ rec.pc = "look"
      BY PathsApart DEF Idle, Typed, User, Steps, Kinds, Well
    <2>2. Becomes(u, rec)
      BY <1>4 DEF StartUpload, Starts
    <2> HIDE DEF rec
    <2> QED
      BY <1>0, <1>1, <2>1, <2>2, EasyStep
  \* Something is about to be written where nothing is.
  <1>5. ASSUME NEW c \in Contents, NEW f \in File, f.content = c, NEW kind \in {"upload", "seed"},
               file[Key[c]] = NULL,
               Becomes(u, [Idle EXCEPT !.pc = "open", !.kind = kind, !.want = c,
                                       !.path = Key[c], !.holding = f])
        PROVE  IInv'
    <2> DEFINE rec == [Idle EXCEPT !.pc = "open", !.kind = kind, !.want = c,
                                   !.path = Key[c], !.holding = f]
    <2>1. Typed(rec)
      BY PathsApart, NullIsNoFile DEF Idle, Typed, User, Steps, Kinds
    <2>2. /\ rec.pc = "open" /\ rec.kind = kind /\ rec.path = Key[c] /\ rec.holding = f
          /\ rec.todo = {} /\ Key[c] \notin Brochures
      BY PathsApart DEF Idle
    <2> HIDE DEF rec
    <2>3. Well(rec)
      BY <1>5, <2>2 DEF Well, Fits
    <2> QED
      BY <1>0, <1>1, <1>5, <2>1, <2>2, <2>3, QuietStep DEF rec
  <1>6. ASSUME NEW c \in Contents, StartUpload(u, c), file[Key[c]] = NULL
        PROVE  IInv'
    <2>1. Whole(c) \in File /\ Whole(c).content = c /\ Whole(c).whole
      BY DEF Whole, File
    <2>2. Becomes(u, [Idle EXCEPT !.pc = "open", !.kind = "upload", !.want = c,
                            !.path = Key[c], !.holding = Whole(c)])
      BY <1>6 DEF StartUpload, Starts
    <2> QED
      BY <1>5, <1>6, <2>1, <2>2
  <1>7. ASSUME NEW b \in Brochures, StartSeed(u, b)
        PROVE  IInv'
    <2>1. file[b] \in File /\ file[b].content = b
      BY <1>7, PathsApart DEF StartSeed, IInv, TypeOK, FilesFit, Fits
    <2>2. /\ file[Key[b]] = NULL
          /\ Becomes(u, [Idle EXCEPT !.pc = "open", !.kind = "seed", !.want = b,
                                     !.path = Key[b], !.holding = file[b]])
      BY <1>7 DEF StartSeed, Starts
    <2>3. b \in Contents
      BY PathsApart
    <2> QED
      BY <1>5, <2>1, <2>2, <2>3
  <1> QED
    BY <1>2, <1>3, <1>4, <1>6, <1>7 DEF Start

-----------------------------------------------------------------------------
\* After a brochure the run segments it.
LEMMA Segments ==
    ASSUME IInv, NEW u \in Users, user[u].kind = "run", user[u].pc \in {"look", "save"},
           NEW f \in File, Fits(user[u].path, f), NEW rec \in User,
           ~rec.cached => f.whole /\ user[u].path \in Brochures,
           rec.pc = "segment", rec.path = user[u].path, rec.sha = f, rec.holding = NULL,
           rec.want = user[u].want, rec.kind = "run"
    PROVE  Typed(rec) /\ Well(rec)
  <1>1. Typed(user[u]) /\ Well(user[u])
    BY TypeOKIs DEF IInv, AllWell
  <1>2. Typed(rec)
    BY <1>1, NullIsNoFile DEF Typed
  <1> QED
    BY <1>1, <1>2 DEF Well

\* The CLI goes on or ends.
LEMMA GoesOn ==
    ASSUME IInv, NEW u \in Users, user[u].kind = "fetch", user[u].pc \in {"look", "save"},
           NEW f, NEW cached, NEW rec \in Fetched(u, f, cached)
    PROVE  Typed(rec) /\ Well(rec) /\ rec.pc \in {"idle", "look"}
  <1>0. Typed(user[u]) /\ Well(user[u])
    BY TypeOKIs DEF IInv, AllWell
  <1>2. CASE user[u].todo = {}
    BY <1>2, IdleFits DEF Fetched
  <1>3. CASE user[u].todo # {}
    <2>1. PICK b \in user[u].todo :
             rec = [user[u] EXCEPT !.pc = "look", !.want = b, !.path = b, !.holding = NULL,
                          !.todo = @ \ {b}, !.disturbed = FALSE]
      BY <1>3 DEF Fetched
    <2>2. b \in Brochures
      BY <1>0 DEF Typed, User
    <2> DEFINE q == [user[u] EXCEPT !.pc = "look", !.want = b, !.path = b, !.holding = NULL,
                          !.todo = @ \ {b}, !.disturbed = FALSE]
    <2>3. /\ q \in User /\ q.pc = "look" /\ q.path = b /\ q.sha = user[u].sha
          /\ q.holding = NULL /\ q.want = b /\ q.kind = user[u].kind
      BY <1>0, <2>2, PathsApart DEF Typed, User, Steps
    <2> HIDE DEF q
    <2>4. Typed(q) /\ Well(q)
      BY <1>0, <2>2, <2>3, PathsApart DEF Typed, Well
    <2> QED
      BY <2>1, <2>3, <2>4 DEF q
  <1> QED
    BY <1>2, <1>3

LEMMA HitSound ==
    ASSUME IInv, NEW u \in Users, Hit(u)
    PROVE  IInv'
  <1>0. /\ user[u].pc = "look" /\ LoopFree(u) /\ file[user[u].path] # NULL
        /\ UNCHANGED <<file, cut, faults>>
    BY DEF Hit, At, HitUnlessForced
  <1>1. PICK rec \in Fetched(u, file[user[u].path], TRUE) : Becomes(u, rec)
    BY DEF Hit
  <1> DEFINE p == user[u].path
  <1>2. p \in Paths /\ Typed(user[u]) /\ Well(user[u])
    BY <1>0, InHand, TypeOKIs DEF IInv, AllWell
  <1>3. file[p] \in File /\ Fits(p, file[p]) /\ user[u].kind \in {"run", "fetch"}
    BY <1>0, <1>2 DEF IInv, TypeOK, FilesFit, Well
  <1>4. /\ Typed(rec) /\ Well(rec)
        /\ \/ rec.pc \in {"idle", "look"}
           \/ /\ rec.pc = "segment" /\ rec.path = p /\ rec.sha = file[p]
              /\ Overlapped(u) => rec.disturbed
    <2>1. CASE user[u].kind = "run"
      <3>1. rec = [user[u] EXCEPT !.pc = "segment", !.sha = file[p], !.cached = TRUE,
                          !.holding = NULL, !.disturbed = @ \/ (TRUE /\ Overlapped(u))]
        BY <1>1, <2>1 DEF Fetched
      <3>2. user[u] \in User
        BY <1>2 DEF Typed
      <3>3. /\ rec \in User /\ rec.pc = "segment" /\ rec.path = p /\ rec.sha = file[p]
            /\ rec.holding = NULL /\ rec.want = user[u].want /\ rec.kind = "run"
            /\ rec.cached
        BY <1>3, <2>1, <3>1, <3>2 DEF User, Steps
      <3>4. Overlapped(u) => rec.disturbed
        BY <3>1, <3>2 DEF User
      <3> QED
        BY <1>0, <1>3, <2>1, <3>3, <3>4, Segments
    <2>2. CASE user[u].kind = "fetch"
      BY <1>0, <1>1, <2>2, GoesOn
    <2> QED
      BY <1>3, <2>1, <2>2
  <1>5. \A v \in Users : Process[v] = Process[u] => ~At(v, "save") /\ ~At(v, "open")
    BY <1>0 DEF LoopFree, At
  <1>6. ASSUME rec.pc = "segment", ~rec.disturbed
        PROVE  \A v \in Users : ~Saving(v, p)
    BY <1>4, <1>5, <1>6 DEF Overlapped, Elsewhere, Saving
  <1>8. user[u].pc \notin {"open", "save"} /\ rec.pc \notin {"save", "open", "reread"}
    BY <1>0, <1>4
  <1>9. rec.pc \in {"segment", "reread"} /\ ~rec.disturbed =>
              /\ rec.sha.whole => file[rec.path] = rec.sha
              /\ rec.sha.whole /\ rec.path \notin Brochures =>
                    /\ \A v \in Users : ~Saving(v, rec.path)
                    /\ \A v \in Users : Process[v] = Process[u] /\ At(v, "open")
                                          => user[v].path # rec.path
              /\ rec.cached =>
                    /\ file[rec.path] # NULL
                    /\ \A v \in Users : Process[v] # Process[u] => ~Saving(v, rec.path)
    BY <1>0, <1>4, <1>5, <1>6
  <1> QED
    BY <1>0, <1>1, <1>4, <1>8, <1>9, QuietStep

LEMMA MissSound ==
    ASSUME IInv, NEW u \in Users, Miss(u)
    PROVE  IInv'
  <1> DEFINE rec == [user[u] EXCEPT !.pc = "download"]
  <1>1. Typed(user[u]) /\ Well(user[u]) /\ user[u].pc = "look"
    BY TypeOKIs DEF IInv, AllWell, Miss, At
  <1>2. /\ rec \in User /\ rec.pc = "download" /\ rec.path = user[u].path
        /\ rec.want = user[u].want /\ rec.kind = user[u].kind
        /\ rec.holding = user[u].holding /\ rec.sha = user[u].sha
    BY <1>1 DEF Typed, User, Steps
  <1>3. Becomes(u, rec) /\ UNCHANGED <<file, cut, faults>>
    BY DEF Miss
  <1> HIDE DEF rec
  <1>4. Typed(rec) /\ Well(rec)
    BY <1>1, <1>2 DEF Typed, Well
  <1> QED
    BY <1>1, <1>2, <1>3, <1>4, EasyStep

LEMMA ListedSound ==
    ASSUME IInv, NEW u \in Users, Listed(u)
    PROVE  IInv'
  <1>1. Typed(user[u]) /\ Well(user[u]) /\ user[u].pc = "list" /\ UNCHANGED <<file, cut, faults>>
    BY TypeOKIs DEF IInv, AllWell, Listed, At
  <1>2. PICK refs \in SUBSET Brochures :
          IF refs = {} THEN Becomes(u, Idle)
          ELSE \E b \in refs :
                  Becomes(u, [user[u] EXCEPT
                                !.pc = "look", !.want = b, !.path = b,
                                !.todo = IF user[u].kind = "fetch" THEN refs \ {b} ELSE {}])
    BY DEF Listed
  <1>3. CASE refs = {}
    BY <1>1, <1>2, <1>3, IdleFits, EasyStep
  <1>4. CASE refs # {}
    <2>1. PICK b \in refs :
             Becomes(u, [user[u] EXCEPT
                                !.pc = "look", !.want = b, !.path = b,
                                !.todo = IF user[u].kind = "fetch" THEN refs \ {b} ELSE {}])
      BY <1>2, <1>4
    <2> DEFINE todo == IF user[u].kind = "fetch" THEN refs \ {b} ELSE {}
               rec == [user[u] EXCEPT !.pc = "look", !.want = b, !.path = b, !.todo = todo]
    <2>2. b \in Brochures /\ todo \in SUBSET Brochures
      OBVIOUS
    <2> HIDE DEF todo
    <2>3. /\ rec \in User /\ rec.pc = "look" /\ rec.path = b /\ rec.want = b
          /\ rec.kind = user[u].kind /\ rec.holding = user[u].holding /\ rec.sha = user[u].sha
      BY <1>1, <2>2, PathsApart DEF Typed, User, Steps
    <2>4. Becomes(u, rec)
      BY <2>1 DEF todo
    <2> HIDE DEF rec
    <2>5. Typed(rec) /\ Well(rec)
      BY <1>1, <2>2, <2>3, PathsApart DEF Typed, Well
    <2> QED
      BY <1>1, <2>3, <2>4, <2>5, EasyStep
  <1> QED
    BY <1>3, <1>4

LEMMA DownloadedSound ==
    ASSUME IInv, NEW u \in Users, Downloaded(u)
    PROVE  IInv'
  <1> DEFINE rec == [user[u] EXCEPT !.pc = "open", !.holding = Whole(user[u].path)]
  <1>1. /\ Typed(user[u]) /\ Well(user[u]) /\ user[u].pc = "download"
        /\ user[u].path \in Brochures /\ LoopFree(u)
    BY TypeOKIs DEF IInv, AllWell, Downloaded, At
  <1>2. /\ Whole(user[u].path) \in File
        /\ Whole(user[u].path).whole
        /\ Whole(user[u].path).content = user[u].path
    BY <1>1, PathsApart DEF Whole, File
  <1>3. /\ rec \in User /\ rec.pc = "open" /\ rec.path = user[u].path
        /\ rec.want = user[u].want /\ rec.kind = user[u].kind
        /\ rec.holding = Whole(user[u].path) /\ rec.sha = user[u].sha
    BY <1>1, <1>2 DEF Typed, User, Steps
  <1>4. Becomes(u, rec) /\ UNCHANGED <<file, cut, faults>>
    BY DEF Downloaded
  <1> HIDE DEF rec
  <1>5. Typed(rec)
    BY <1>1, <1>2, <1>3, NullIsNoFile DEF Typed
  <1>6. Well(rec)
    BY <1>1, <1>2, <1>3 DEF Well, Fits
  <1> QED
    BY <1>1, <1>3, <1>4, <1>5, <1>6, QuietStep

LEMMA RequestFailsSound ==
    ASSUME IInv, NEW u \in Users, RequestFails(u)
    PROVE  IInv'
  BY IdleFits, EasyStep DEF RequestFails

\* When code reads the file, no other task of the process is writing it.
LEMMA ReadsAlone ==
    ASSUME IInv, NEW u \in Users, Reads(u), NEW v \in Users, Process[v] = Process[u]
    PROVE  ~Saving(v, user[u].path)
  BY DEF IInv, OneBusy, Busy, Reads, LoopFree, At, Saving

\* When code reads the file, what was read before is there.
LEMMA ReadsKept ==
    ASSUME IInv, NEW u \in Users, Reads(u), user[u].sha.whole, ~user[u].disturbed
    PROVE  file[user[u].path] = user[u].sha
  <1>1. Kept(u) /\ user[u].pc \in {"segment", "reread"}
    BY DEF IInv, AllKept, Reads, At
  <1> QED
    BY <1>1, ReadsAlone DEF Kept

LEMMA ReadSound ==
    ASSUME IInv, NEW u \in Users, Read(u)
    PROVE  IInv'
  <1>0. /\ user[u].pc \in {"segment", "reread"} /\ UNCHANGED <<file, cut, faults>>
        /\ Typed(user[u]) /\ Well(user[u]) /\ Kept(u) /\ Reads(u)
    BY TypeOKIs DEF IInv, AllWell, AllKept, Read, Reads, At
  <1>1. CASE Becomes(u, Idle)
    BY <1>0, <1>1, IdleFits, EasyStep
  <1>2. CASE At(u, "segment") /\ Becomes(u, [user[u] EXCEPT !.pc = "reread"])
    <2> DEFINE rec == [user[u] EXCEPT !.pc = "reread"]
    <2>1. /\ rec \in User /\ rec.pc = "reread" /\ rec.path = user[u].path
          /\ rec.want = user[u].want /\ rec.kind = user[u].kind
          /\ rec.holding = user[u].holding /\ rec.sha = user[u].sha
          /\ rec.cached = user[u].cached /\ rec.disturbed = user[u].disturbed
      BY <1>0 DEF Typed, User, Steps
    <2>2. LoopFree(u)
      BY <1>0, <1>2 DEF Reads, At
    <2> HIDE DEF rec
    <2>3. Typed(rec) /\ Well(rec)
      BY <1>0, <2>1 DEF Typed, Well
    <2>4. rec.pc \in {"segment", "reread"} /\ ~rec.disturbed =>
              /\ rec.sha.whole => file[rec.path] = rec.sha
              /\ rec.sha.whole /\ rec.path \notin Brochures =>
                    /\ \A v \in Users : ~Saving(v, rec.path)
                    /\ \A v \in Users : Process[v] = Process[u] /\ At(v, "open")
                                          => user[v].path # rec.path
              /\ rec.cached =>
                    /\ file[rec.path] # NULL
                    /\ \A v \in Users : Process[v] # Process[u] => ~Saving(v, rec.path)
      BY <1>0, <2>1, ReadsKept DEF Kept
    <2> QED
      BY <1>0, <1>2, <2>1, <2>2, <2>3, <2>4, QuietStep DEF rec
  <1> QED
    BY <1>1, <1>2 DEF Read

-----------------------------------------------------------------------------
(* Steps that write. *)

\* What a mark leaves alone.
LEMMA Marked ==
    ASSUME NEW r, Typed(r), Well(r), NEW q,
           q = r \/ q = [r EXCEPT !.disturbed = TRUE]
    PROVE  /\ Typed(q) /\ Well(q)
           /\ q.pc = r.pc /\ q.path = r.path /\ q.sha = r.sha /\ q.cached = r.cached
           /\ ~q.disturbed => ~r.disturbed
  <1>1. r \in User
    BY DEF Typed
  <1>2. /\ q \in User
        /\ q.pc = r.pc /\ q.path = r.path /\ q.sha = r.sha /\ q.cached = r.cached
        /\ q.want = r.want /\ q.kind = r.kind /\ q.holding = r.holding /\ q.todo = r.todo
    BY <1>1 DEF User
  <1>3. ~q.disturbed => ~r.disturbed
    BY <1>1 DEF User
  <1>4. Typed(q)
    BY <1>2 DEF Typed
  <1>5. Well(q)
    BY <1>2 DEF Well
  <1> QED
    BY <1>2, <1>3, <1>4, <1>5

\* The others, when one of them writes.
LEMMA OthersMarked ==
    ASSUME IInv, NEW S, NEW p, NEW u \in Users, NEW rec, user' = Disturbing(S, p, u, rec)
    PROVE  /\ user' = [v \in Users |-> user'[v]]
           /\ user'[u] = rec
           /\ \A v \in Users \ {u} :
                 /\ Typed(user'[v]) /\ Well(user'[v])
                 /\ user'[v].pc = user[v].pc /\ user'[v].path = user[v].path
                 /\ user'[v].sha = user[v].sha /\ user'[v].cached = user[v].cached
                 /\ ~user'[v].disturbed => ~user[v].disturbed /\ ~(v \in S /\ Using(v, p))
  <1>1. /\ user' = [v \in Users |-> user'[v]]
        /\ user'[u] = rec
    BY DEF Disturbing
  <1>2. ASSUME NEW v \in Users \ {u}
        PROVE  /\ Typed(user'[v]) /\ Well(user'[v])
               /\ user'[v].pc = user[v].pc /\ user'[v].path = user[v].path
               /\ user'[v].sha = user[v].sha /\ user'[v].cached = user[v].cached
               /\ ~user'[v].disturbed => ~user[v].disturbed /\ ~(v \in S /\ Using(v, p))
    <2>1. Typed(user[v]) /\ Well(user[v])
      BY TypeOKIs DEF IInv, AllWell
    <2>2. user'[v] = user[v] \/ user'[v] = [user[v] EXCEPT !.disturbed = TRUE]
      BY DEF Disturbing
    <2>3. v \in S /\ Using(v, p) => user'[v].disturbed
      <3>1. v \in S /\ Using(v, p) => user'[v] = [user[v] EXCEPT !.disturbed = TRUE]
        BY DEF Disturbing
      <3>2. user[v] \in User
        BY <2>1 DEF Typed
      <3> QED
        BY <3>1, <3>2 DEF User
    <2>4. /\ Typed(user'[v]) /\ Well(user'[v])
          /\ user'[v].pc = user[v].pc /\ user'[v].path = user[v].path
          /\ user'[v].sha = user[v].sha /\ user'[v].cached = user[v].cached
          /\ ~user'[v].disturbed => ~user[v].disturbed
      BY <2>1, <2>2, Marked, Zenon
    <2> QED
      BY <2>3, <2>4, Zenon
  <1> QED
    BY <1>1, <1>2

LEMMA OpenSound ==
    ASSUME IInv, NEW u \in Users, Open(u)
    PROVE  IInv'
  <1> DEFINE p == user[u].path
             h == user[u].holding
             rec == [user[u] EXCEPT !.pc = "save"]
  <1>1. Typed(user[u]) /\ Well(user[u]) /\ user[u].pc = "open"
    BY TypeOKIs DEF IInv, AllWell, Open, At
  <1>2. p \in Paths /\ h \in File /\ Fits(p, h)
    BY <1>1, InHand DEF Well
  <1>3. Torn(h) \in File /\ Fits(p, Torn(h))
    BY <1>2 DEF File, Torn, Fits
  <1>4. /\ file \in [Paths -> File \cup {NULL}]
        /\ file' = [file EXCEPT ![p] = Torn(h)]
        /\ user' = Disturbing(Elsewhere(u), p, u, rec)
        /\ cut' = cut /\ faults' = faults
    BY DEF Open, IInv, TypeOK
  <1>5. /\ rec \in User /\ rec.pc = "save" /\ rec.path = p /\ rec.holding = h
        /\ rec.want = user[u].want /\ rec.kind = user[u].kind
        /\ rec.sha = user[u].sha /\ rec.todo = user[u].todo
    BY <1>1 DEF Typed, User, Steps
  <1> HIDE DEF rec
  <1>6. Typed(rec) /\ Well(rec)
    BY <1>1, <1>5 DEF Typed, Well
  <1>7. /\ user' = [v \in Users |-> user'[v]]
        /\ user'[u] = rec
        /\ \A v \in Users \ {u} :
              /\ Typed(user'[v]) /\ Well(user'[v])
              /\ user'[v].pc = user[v].pc /\ user'[v].path = user[v].path
              /\ user'[v].sha = user[v].sha /\ user'[v].cached = user[v].cached
              /\ ~user'[v].disturbed => ~user[v].disturbed /\ ~(v \in Elsewhere(u) /\ Using(v, p))
    BY <1>4, OthersMarked
  <1> HIDE DEF p, h
  <1>8. /\ file'[p] = Torn(h)
        /\ \A x \in Paths \ {p} : file'[x] = file[x]
        /\ file' \in [Paths -> File \cup {NULL}]
    BY <1>2, <1>3, <1>4
  <1>9. TypeOK'
    <2>1. \A v \in Users : Typed(user'[v])
      BY <1>6, <1>7
    <2>2. user' \in [Users -> User]
      BY <1>7, <2>1 DEF Typed
    <2> QED
      BY <1>4, <1>8, <2>1, <2>2 DEF IInv, TypeOK, Typed
  <1>10. OneBusy'
    <2>1. \A v \in Users : Busy(user'[v]) => Busy(user[v])
      BY <1>1, <1>5, <1>7 DEF Busy
    <2> QED
      BY <2>1 DEF IInv, OneBusy
  <1>11. FilesFit'
    BY <1>3, <1>8 DEF IInv, FilesFit, Fits
  <1>12. AllWell'
    BY <1>6, <1>7 DEF AllWell, Well, Fits
  <1>13. \A v \in Users : \A x : Saving(v, x)' <=> Saving(v, x) \/ (v = u /\ x = p)
    BY <1>1, <1>5, <1>7 DEF Saving, At
  <1>14. TornIsWritten'
    BY <1>4, <1>8, <1>13 DEF IInv, TornIsWritten
  <1>15. ASSUME NEW w \in Users
         PROVE  Kept(w)'
    <2>1. CASE w = u
      BY <1>5, <1>7, <2>1 DEF Kept
    <2>2. CASE w # u /\ user[w].pc \in {"segment", "reread"} /\ ~user'[w].disturbed
      <3>1. Typed(user[w]) /\ Kept(w) /\ ~user[w].disturbed /\ user[w].path \in Paths
        BY <1>7, <2>2, TypeOKIs, InHand DEF IInv, AllKept
      <3>2. CASE user[w].path # p
        <4>1. \A v \in Users : Process[v] = Process[w] /\ At(v, "open")'
                 => At(v, "open") /\ user'[v].path = user[v].path
          BY <1>5, <1>7 DEF At
        <4>2. file'[user[w].path] = file[user[w].path]
          BY <1>8, <3>1, <3>2
        <4> QED
          BY <1>4, <1>7, <1>13, <2>2, <3>1, <3>2, <4>1, <4>2 DEF Kept
      <3>3. CASE user[w].path = p
        <4>1. Process[w] = Process[u]
          BY <1>7, <2>2, <3>3 DEF Using, Elsewhere
        <4>2. ~(user[w].sha.whole /\ p \notin Brochures)
          BY <1>1, <2>2, <3>1, <3>3, <4>1 DEF Kept, At, p
        <4>3. file'[p] # NULL
          BY <1>3, <1>8, NullIsNoFile
        <4> QED
          BY <1>4, <1>7, <1>13, <2>2, <3>1, <3>3, <4>1, <4>2, <4>3 DEF Kept
      <3> QED
        BY <3>2, <3>3
    <2>3. CASE w # u /\ ~(user[w].pc \in {"segment", "reread"} /\ ~user'[w].disturbed)
      BY <1>7, <2>3 DEF Kept
    <2> QED
      BY <2>1, <2>2, <2>3
  <1> QED
    BY <1>9, <1>10, <1>11, <1>12, <1>14, <1>15 DEF IInv, AllKept

LEMMA CloseSound ==
    ASSUME IInv, NEW u \in Users, Close(u)
    PROVE  IInv'
  <1> DEFINE p == user[u].path
             h == user[u].holding
  <1>1. Typed(user[u]) /\ Well(user[u]) /\ user[u].pc = "save"
    BY TypeOKIs DEF IInv, AllWell, Close, At
  <1>2. p \in Paths /\ h \in File /\ Fits(p, h)
    BY <1>1, InHand DEF Well
  <1>3. /\ file \in [Paths -> File \cup {NULL}]
        /\ user \in [Users -> User]
        /\ file' = [file EXCEPT ![p] = h]
        /\ cut' = IF h.whole THEN cut \ {p} ELSE cut \cup {p}
        /\ cut \in SUBSET Paths
        /\ faults' = faults
    BY DEF Close, IInv, TypeOK
  \* The user goes on with the file it wrote, if at all.
  <1>4. PICK rec : /\ Becomes(u, rec)
                   /\ Typed(rec) /\ Well(rec)
                   /\ \/ rec.pc \in {"idle", "look"}
                      \/ /\ rec.pc = "segment" /\ rec.path = p /\ rec.sha = h
                         /\ ~rec.cached
    <2>1. CASE user[u].kind = "upload"
      <3> DEFINE q == [user[u] EXCEPT !.pc = "look", !.kind = "run", !.holding = NULL,
                                      !.disturbed = FALSE]
      <3>1. Becomes(u, q)
        BY <2>1 DEF Close
      <3>2. /\ q \in User /\ q.pc = "look" /\ q.kind = "run" /\ q.holding = NULL
            /\ q.path = user[u].path /\ q.want = user[u].want /\ q.sha = user[u].sha
        BY <1>1 DEF Typed, User, Steps, Kinds
      <3> HIDE DEF q
      <3>3. Typed(q) /\ Well(q)
        BY <1>1, <3>2 DEF Typed, Well
      <3> QED
        BY <3>1, <3>2, <3>3
    <2>2. CASE user[u].kind = "run"
      <3> DEFINE q == [user[u] EXCEPT !.pc = "segment", !.sha = h, !.cached = FALSE,
                          !.holding = NULL, !.disturbed = @ \/ (FALSE /\ Overlapped(u))]
      <3>1. Becomes(u, q)
        BY <2>2 DEF Close, Fetched
      <3>2. /\ q \in User /\ q.pc = "segment" /\ q.path = p /\ q.sha = h
            /\ q.holding = NULL /\ q.want = user[u].want /\ q.kind = "run"
            /\ ~q.cached
        BY <1>1, <1>2, <2>2 DEF Typed, User, Steps
      <3>3. p \in Brochures /\ h.whole
        BY <1>1, <2>2 DEF Well
      <3> HIDE DEF q
      <3>4. Typed(q) /\ Well(q)
        BY <1>1, <1>2, <2>2, <3>2, <3>3, Segments
      <3> QED
        BY <3>1, <3>2, <3>4
    <2>3. CASE user[u].kind = "fetch"
      <3>1. PICK q \in Fetched(u, h, FALSE) : Becomes(u, q)
        BY <2>3 DEF Close
      <3> QED
        BY <1>1, <2>3, <3>1, GoesOn
    <2>4. CASE user[u].kind = "seed"
      <3>1. Becomes(u, Idle)
        BY <1>1, <2>4 DEF Close, Fetched, Well
      <3> QED
        BY <3>1, IdleFits
    <2> QED
      BY <1>1, <2>1, <2>2, <2>3, <2>4 DEF Typed, User, Kinds
  <1>5. user'[u] = rec /\ user' \in [Users -> User]
        /\ \A v \in Users \ {u} : user'[v] = user[v]
    BY <1>3, <1>4 DEF Becomes, Typed
  <1> HIDE DEF p, h
  <1>6. /\ file'[p] = h
        /\ \A x \in Paths \ {p} : file'[x] = file[x]
        /\ file' \in [Paths -> File \cup {NULL}]
    BY <1>2, <1>3
  <1>7. TypeOK'
    <2>1. \A v \in Users : Typed(user'[v])
      BY <1>4, <1>5, TypeOKIs DEF IInv
    <2> QED
      BY <1>3, <1>5, <1>6, <2>1 DEF IInv, TypeOK, Typed
  <1>8. OneBusy'
    <2>1. \A v \in Users : Busy(user'[v]) => Busy(user[v])
      BY <1>4, <1>5 DEF Busy
    <2> QED
      BY <2>1 DEF IInv, OneBusy
  <1>9. FilesFit'
    BY <1>2, <1>6 DEF IInv, FilesFit, Fits
  <1>10. AllWell'
    BY <1>4, <1>5 DEF IInv, AllWell, Well, Fits
  <1>11. \A v \in Users : \A x : Saving(v, x)' <=> v # u /\ Saving(v, x)
    BY <1>4, <1>5 DEF Saving, At
  <1>12. TornIsWritten'
    <2>1. ASSUME NEW x \in Paths, file'[x] # NULL, ~file'[x].whole
          PROVE  x \in cut' \/ \E v \in Users : Saving(v, x)'
      <3>1. CASE x = p
        BY <1>3, <1>6, <2>1, <3>1
      <3>2. CASE x # p
        <4>1. x \in cut \/ \E v \in Users : Saving(v, x)
          BY <1>6, <2>1, <3>2 DEF IInv, TornIsWritten
        <4>2. ~Saving(u, x)
          BY <3>2 DEF Saving, p
        <4> QED
          BY <1>3, <1>11, <3>2, <4>1, <4>2
      <3> QED
        BY <3>1, <3>2
    <2> QED
      BY <1>3, <2>1 DEF TornIsWritten
  <1>13. Kept(u)'
    BY <1>4, <1>5, <1>6 DEF Kept, Well
  <1>14. ASSUME NEW w \in Users \ {u}
         PROVE  Kept(w)'
    <2>1. CASE user[w].pc \in {"segment", "reread"} /\ ~user[w].disturbed
      <3>1. /\ Kept(w) /\ Well(user[w]) /\ user[w].path \in Paths
            /\ user[w].sha \in File /\ user'[w] = user[w]
        BY <1>5, <2>1, TypeOKIs, InHand DEF IInv, AllKept, AllWell
      <3>2. \A v \in Users : At(v, "open")' => At(v, "open") /\ user'[v].path = user[v].path
        BY <1>4, <1>5 DEF At
      <3>3. CASE user[w].path # p
        <4>1. file'[user[w].path] = file[user[w].path] /\ ~Saving(u, user[w].path)
          BY <1>6, <3>1, <3>3 DEF Saving, p
        <4> QED
          BY <1>3, <1>11, <2>1, <3>1, <3>2, <4>1 DEF Kept
      <3>4. CASE user[w].path = p
        <4>1. ASSUME user[w].sha.whole, p \in Brochures
              PROVE  file'[p] = user[w].sha
          <5>1. Fits(p, user[w].sha)
            BY <2>1, <3>1, <3>4 DEF Well
          <5>2. h.whole
            BY <1>1, <4>1 DEF Well, p, h
          <5> QED
            BY <1>2, <1>6, <3>1, <4>1, <5>1, <5>2, WholeIsOne
        <4>2. ~(user[w].sha.whole /\ p \notin Brochures)
          <5>1. Saving(u, p)
            BY <1>1 DEF Saving, At, p
          <5> QED
            BY <2>1, <3>1, <3>4, <5>1 DEF Kept
        <4>3. file'[p] # NULL
          BY <1>2, <1>6, NullIsNoFile
        <4> QED
          BY <1>3, <1>11, <2>1, <3>1, <3>4, <4>1, <4>2, <4>3 DEF Kept
      <3> QED
        BY <3>3, <3>4
    <2>2. CASE ~(user[w].pc \in {"segment", "reread"} /\ ~user[w].disturbed)
      BY <1>5, <2>2 DEF Kept
    <2> QED
      BY <2>1, <2>2
  <1> QED
    BY <1>7, <1>8, <1>9, <1>10, <1>12, <1>13, <1>14 DEF IInv, AllKept

LEMMA SaveFailsSound ==
    ASSUME IInv, NEW u \in Users, SaveFails(u)
    PROVE  IInv'
  <1> DEFINE p == user[u].path
  <1>1. /\ Typed(user[u]) /\ user[u].pc = "save" /\ p \in Paths
        /\ user' = Disturbing(Users, p, u, Idle)
        /\ file' = file /\ cut' = cut \cup {p} /\ cut \in SUBSET Paths
        /\ faults' = faults + 1
        /\ faults \in 0 .. MaxFaults /\ faults < MaxFaults /\ MaxFaults \in Nat
    BY TypeOKIs, InHand, BoundAssumption DEF IInv, SaveFails, At
  <1>2. /\ user' = [v \in Users |-> user'[v]]
        /\ user'[u] = Idle
        /\ \A v \in Users \ {u} :
              /\ Typed(user'[v]) /\ Well(user'[v])
              /\ user'[v].pc = user[v].pc /\ user'[v].path = user[v].path
              /\ user'[v].sha = user[v].sha /\ user'[v].cached = user[v].cached
              /\ ~user'[v].disturbed => ~user[v].disturbed /\ ~(v \in Users /\ Using(v, p))
    BY <1>1, OthersMarked
  <1> HIDE DEF p
  <1>3. faults' \in 0 .. MaxFaults
    BY <1>1
  <1>4. TypeOK'
    <2>1. \A v \in Users : Typed(user'[v])
      BY <1>2, IdleFits
    <2>2. user' \in [Users -> User]
      BY <1>2, <2>1 DEF Typed
    <2> QED
      BY <1>1, <1>3, <2>1, <2>2 DEF IInv, TypeOK, Typed
  <1>5. OneBusy'
    <2>1. \A v \in Users : Busy(user'[v]) => Busy(user[v])
      BY <1>2, IdleFits DEF Busy
    <2> QED
      BY <2>1 DEF IInv, OneBusy
  <1>6. FilesFit'
    BY <1>1 DEF IInv, FilesFit, Fits
  <1>7. AllWell'
    BY <1>2, IdleFits DEF AllWell, Well, Fits
  <1>8. \A x : Saving(u, x) => x = p
    BY DEF Saving, p
  <1>9. \A v \in Users : \A x : Saving(v, x)' <=> v # u /\ Saving(v, x)
    BY <1>2, IdleFits DEF Saving, At
  <1>10. TornIsWritten'
    BY <1>1, <1>8, <1>9 DEF IInv, TornIsWritten
  <1>11. Kept(u)'
    BY <1>2, IdleFits DEF Kept
  <1>12. ASSUME NEW w \in Users \ {u}
         PROVE  Kept(w)'
    <2>1. CASE user[w].pc \in {"segment", "reread"} /\ ~user'[w].disturbed
      <3>1. Kept(w) /\ ~user[w].disturbed
        BY <1>2, <2>1 DEF IInv, AllKept
      <3>2. ~Saving(u, user[w].path)
        BY <1>2, <2>1 DEF Using, Saving, p
      <3>3. \A v \in Users : At(v, "open")' => At(v, "open") /\ user'[v].path = user[v].path
        BY <1>2, IdleFits DEF At
      <3> QED
        BY <1>1, <1>2, <1>3, <1>9, <2>1, <3>1, <3>2, <3>3 DEF Kept
    <2>2. CASE ~(user[w].pc \in {"segment", "reread"} /\ ~user'[w].disturbed)
      BY <1>2, <2>2 DEF Kept
    <2> QED
      BY <2>1, <2>2
  <1> QED
    BY <1>4, <1>5, <1>6, <1>7, <1>10, <1>11, <1>12 DEF IInv, AllKept

LEMMA CrashSound ==
    ASSUME IInv, NEW p \in Processes, Crash(p)
    PROVE  IInv'
  <1>1. /\ user' = [u \in Users |-> IF Process[u] = p THEN Idle ELSE user[u]]
        /\ cut' = cut \cup {user[u].path : u \in {v \in Users : Process[v] = p /\ At(v, "save")}}
        /\ file' = file /\ faults' = faults + 1 /\ cut \in SUBSET Paths
        /\ faults \in 0 .. MaxFaults /\ faults < MaxFaults /\ MaxFaults \in Nat
    BY BoundAssumption DEF IInv, TypeOK, Crash
  <1>2. /\ \A u \in Users : Process[u] = p => user'[u] = Idle
        /\ \A u \in Users : Process[u] # p => user'[u] = user[u]
    BY <1>1
  <1>3. faults' \in 0 .. MaxFaults
    BY <1>1
  <1>4. TypeOK'
    <2>1. \A v \in Users : Typed(user'[v])
      BY <1>2, IdleFits, TypeOKIs DEF IInv
    <2>2. user' \in [Users -> User]
      BY <1>1, <2>1 DEF Typed
    <2>3. ASSUME NEW v \in Users, At(v, "save")
          PROVE  user[v].path \in Paths
      BY <2>3, TypeOKIs, InHand DEF IInv, At
    <2>4. cut' \in SUBSET Paths
      BY <1>1, <2>3
    <2> QED
      BY <1>1, <1>3, <2>1, <2>2, <2>4 DEF IInv, TypeOK, Typed
  <1>5. OneBusy'
    <2>1. \A v \in Users : Busy(user'[v]) => Busy(user[v])
      BY <1>2, IdleFits DEF Busy
    <2> QED
      BY <2>1 DEF IInv, OneBusy
  <1>6. FilesFit'
    BY <1>1 DEF IInv, FilesFit, Fits
  <1>7. AllWell'
    BY <1>2, IdleFits DEF IInv, AllWell, Well, Fits
  <1>8. TornIsWritten'
    <2>1. \A v \in Users : \A x : Saving(v, x) /\ Process[v] = p => x \in cut'
      BY <1>1 DEF Saving
    <2>2. \A v \in Users : \A x : Saving(v, x) /\ Process[v] # p => Saving(v, x)'
      BY <1>2 DEF Saving, At
    <2> QED
      BY <1>1, <2>1, <2>2 DEF IInv, TornIsWritten
  <1>9. ASSUME NEW w \in Users
        PROVE  Kept(w)'
    <2>1. CASE Process[w] = p
      BY <1>2, <2>1, IdleFits DEF Kept
    <2>2. CASE Process[w] # p
      <3>1. Kept(w) /\ user'[w] = user[w]
        BY <1>2, <2>2 DEF IInv, AllKept
      <3>2. \A v \in Users : \A x : Saving(v, x)' => Saving(v, x)
        BY <1>2, IdleFits DEF Saving, At
      <3>3. \A v \in Users : \A x : Saving(v, x) /\ Process[v] # p => Saving(v, x)'
        BY <1>2 DEF Saving, At
      <3>4. \A v \in Users : At(v, "open")' => At(v, "open") /\ user'[v].path = user[v].path
        BY <1>2, IdleFits DEF At
      <3> QED
        BY <1>1, <1>3, <2>2, <3>1, <3>2, <3>3, <3>4 DEF Kept
    <2> QED
      BY <2>1, <2>2
  <1> QED
    BY <1>4, <1>5, <1>6, <1>7, <1>8, <1>9 DEF IInv, AllKept

LEMMA DeleteSound ==
    ASSUME IInv, NEW p \in Paths, Delete(p)
    PROVE  IInv'
  <1>1. /\ file \in [Paths -> File \cup {NULL}]
        /\ file' = [file EXCEPT ![p] = NULL]
        /\ user' = [v \in Users |-> IF Using(v, p) THEN [user[v] EXCEPT !.disturbed = TRUE]
                                    ELSE user[v]]
        /\ cut' = cut \ {p} /\ cut \in SUBSET Paths
        /\ faults' = faults
        /\ \A v \in Users : ~Saving(v, p)
    BY DEF Delete, IInv, TypeOK, Saving
  <1>2. /\ file'[p] = NULL
        /\ \A x \in Paths \ {p} : file'[x] = file[x]
        /\ file' \in [Paths -> File \cup {NULL}]
    BY <1>1
  <1>3. ASSUME NEW v \in Users
        PROVE  /\ Typed(user'[v]) /\ Well(user'[v])
               /\ user'[v].pc = user[v].pc /\ user'[v].path = user[v].path
               /\ user'[v].sha = user[v].sha /\ user'[v].cached = user[v].cached
               /\ ~user'[v].disturbed => ~user[v].disturbed
               /\ Using(v, p) => user'[v].disturbed
    <2>1. Typed(user[v]) /\ Well(user[v])
      BY TypeOKIs DEF IInv, AllWell
    <2>2. user'[v] = user[v] \/ user'[v] = [user[v] EXCEPT !.disturbed = TRUE]
      BY <1>1
    <2>3. ASSUME Using(v, p)
          PROVE  user'[v].disturbed
      <3>1. user'[v] = [user[v] EXCEPT !.disturbed = TRUE]
        BY <1>1, <2>3
      <3>2. user[v] \in User
        BY <2>1 DEF Typed
      <3> QED
        BY <3>1, <3>2 DEF User
    <2>4. /\ Typed(user'[v]) /\ Well(user'[v])
          /\ user'[v].pc = user[v].pc /\ user'[v].path = user[v].path
          /\ user'[v].sha = user[v].sha /\ user'[v].cached = user[v].cached
          /\ ~user'[v].disturbed => ~user[v].disturbed
      BY <2>1, <2>2, Marked, Zenon
    <2> QED
      BY <2>3, <2>4, Zenon
  <1>4. TypeOK'
    <2>1. user' \in [Users -> User]
      BY <1>1, <1>3 DEF Typed
    <2> QED
      BY <1>1, <1>2, <1>3, <2>1 DEF IInv, TypeOK, Typed
  <1>5. OneBusy'
    BY <1>3 DEF IInv, OneBusy, Busy
  <1>6. FilesFit'
    BY <1>2 DEF IInv, FilesFit, Fits
  <1>7. AllWell'
    BY <1>3 DEF AllWell, Well, Fits
  <1>8. \A v \in Users : \A x : Saving(v, x)' <=> Saving(v, x)
    BY <1>3 DEF Saving, At
  <1>9. TornIsWritten'
    BY <1>1, <1>2, <1>8 DEF IInv, TornIsWritten
  <1>10. ASSUME NEW w \in Users
         PROVE  Kept(w)'
    <2>1. CASE user[w].pc \in {"segment", "reread"} /\ ~user'[w].disturbed
      <3>1. Kept(w) /\ ~user[w].disturbed /\ user[w].path \in Paths
        BY <1>3, <2>1, TypeOKIs, InHand DEF IInv, AllKept
      <3>2. user[w].path # p
        BY <1>3, <2>1 DEF Using
      <3>3. file'[user[w].path] = file[user[w].path]
        BY <1>2, <3>1, <3>2
      <3>4. \A v \in Users : At(v, "open")' => At(v, "open") /\ user'[v].path = user[v].path
        BY <1>3 DEF At
      <3> QED
        BY <1>1, <1>3, <1>8, <2>1, <3>1, <3>3, <3>4 DEF Kept
    <2>2. CASE ~(user[w].pc \in {"segment", "reread"} /\ ~user'[w].disturbed)
      BY <1>3, <2>2 DEF Kept
    <2> QED
      BY <2>1, <2>2
  <1> QED
    BY <1>4, <1>5, <1>6, <1>7, <1>9, <1>10 DEF IInv, AllKept

-----------------------------------------------------------------------------
LEMMA InitIInv == Init => IInv
  <1> SUFFICES ASSUME Init
               PROVE  IInv
    OBVIOUS
  <1>1. \A p \in Paths : file[p] = NULL
    BY DEF Init
  <1>2. \A u \in Users : user[u] = Idle
    BY DEF Init
  <1>3. TypeOK
    BY IdleFits, BoundAssumption, TypeOKIs DEF Init, Typed
  <1> QED
    BY <1>1, <1>2, <1>3, IdleFits
    DEF IInv, OneBusy, Busy, FilesFit, AllWell, TornIsWritten, AllKept, Kept

LEMMA NextIInv == IInv /\ [Next]_vars => IInv'
  <1> SUFFICES ASSUME IInv, [Next]_vars
               PROVE  IInv'
    OBVIOUS
  <1>1. CASE UNCHANGED vars
    BY <1>1
    DEF vars, IInv, TypeOK, OneBusy, Busy, FilesFit, AllWell, Well, Fits,
        TornIsWritten, AllKept, Kept, Saving, At
  <1>2. ASSUME NEW u \in Users, Work(u)
        PROVE  IInv'
    BY <1>2, HitSound, MissSound, OpenSound, CloseSound, SaveFailsSound, ListedSound,
       DownloadedSound, RequestFailsSound, ReadSound
    DEF Work
  <1> QED
    BY <1>1, <1>2, StartSound, CrashSound, DeleteSound DEF Next

(***************************************************************************)
(* The cache, the users and the faults have their types.                   *)
(***************************************************************************)
THEOREM TypeCorrect == Spec => []TypeOK
  <1>1. IInv => TypeOK
    BY DEF IInv
  <1> QED
    BY <1>1, InitIInv, NextIInv, PTL DEF Spec

(***************************************************************************)
(* A run that fetched a whole brochure segments exactly it, however many   *)
(* tasks of its process fetch, write and segment the same one meanwhile.   *)
(***************************************************************************)
THEOREM HashIsKept == Spec => []HashIsOfAnalysed
  <1>1. IInv => HashIsOfAnalysed
    BY ReadsKept DEF HashIsOfAnalysed
  <1> QED
    BY <1>1, InitIInv, NextIInv, PTL DEF Spec

(***************************************************************************)
(* What an undisturbed run reads is the whole of what it asked for, if it  *)
(* downloaded it or found it where no write ended early.                   *)
(***************************************************************************)
THEOREM WholeIsRead == Spec => []AnalysedIsWhole
  <1>1. IInv => AnalysedIsWhole
    <2> SUFFICES ASSUME IInv, NEW u \in Users, Reads(u), Trusted(u)
                 PROVE  RightContent(u, file[user[u].path])
      BY DEF AnalysedIsWhole
    <2> DEFINE p == user[u].path
    <2>1. /\ Well(user[u]) /\ Kept(u) /\ user[u].pc \in {"segment", "reread"}
          /\ ~user[u].disturbed /\ Typed(user[u]) /\ p \in Paths
      BY TypeOKIs, InHand DEF IInv, AllWell, AllKept, Reads, At, Trusted
    <2>2. file[p] # NULL /\ file[p].whole
      <3>1. CASE ~user[u].cached
        <4>1. user[u].sha.whole /\ user[u].sha # NULL
          BY <2>1, <3>1 DEF Well, Typed
        <4> QED
          BY <2>1, <4>1, ReadsKept
      <3>2. CASE user[u].cached
        <4>1. \A v \in Users : ~Saving(v, p)
          BY <2>1, <3>2, ReadsAlone DEF Kept
        <4> QED
          BY <2>1, <3>2, <4>1 DEF IInv, TornIsWritten, Kept, Trusted
      <3> QED
        BY <3>1, <3>2
    <2>3. p \notin Brochures => p # user[u].want
      BY <2>1, KeyAssumption, NullAssumption DEF Typed, User, Paths
    <2> QED
      BY <2>1, <2>2, <2>3 DEF RightContent, Well, IInv, FilesFit, Fits
  <1> QED
    BY <1>1, InitIInv, NextIInv, PTL DEF Spec
=============================================================================
