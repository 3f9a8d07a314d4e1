---------------------------- MODULE BrochureCache ----------------------------
(***************************************************************************)
(* Everything that puts brochures on the disk or takes them from it:       *)
(* fetch_brochure (ingestion/iapd.py) as pipeline runs and the ingestion   *)
(* CLI use it, the upload of drafts (app/web/routes.py), and the seed      *)
(* script's copy of a PDF (app/web/seed.py).  GET /brochure only lists.    *)
(*                                                                         *)
(* A file is the brochure: existence is all the cache looks at, and        *)
(* writing is opening, which empties the file, and closing.  Code without  *)
(* an await is not interrupted by its own event loop, but by nothing else  *)
(* protected from other processes: the CLIs run beside the web process.    *)
(*                                                                         *)
(* A request to the SEC is one await here; SECRequests is about what goes  *)
(* on inside.  A filed brochure is immutable, so it stands for its bytes   *)
(* (ADR 0002).                                                             *)
(***************************************************************************)
EXTENDS Naturals, FiniteSets

CONSTANTS
    Users,        \* tasks that use the cache, one job after the other
    Processes,
    Process,      \* the process each user lives in
    Web,          \* the process that takes uploads
    Jobs,         \* the kinds of job each user does
    Brochures,    \* filed with the SEC
    Drafts,       \* contents that were never filed
    Keys,         \* paths of drafts, 99<n>/0.pdf
    Key,          \* the path of a content, when uploaded as a draft
    MaxFaults,    \* bound: crashes and failed writes
    NULL

Kinds == {"run", "fetch", "upload", "seed"}

Paths == Brochures \cup Keys

Contents == Brochures \cup Drafts

ASSUME ProcessAssumption == Process \in [Users -> Processes]
ASSUME JobsAssumption == Jobs \in [Users -> SUBSET Kinds]
ASSUME KeyAssumption == Key \in [Contents -> Keys] /\ Keys \cap Contents = {}
ASSUME BoundAssumption == MaxFaults \in Nat
ASSUME NullAssumption == NULL \notin Paths \cup Contents

VARIABLES
    file,      \* data_dir/brochures
    user,      \* what each user is doing
    cut,       \* the paths where the last write ended early; not in the code
    faults     \* crashes and failed writes so far

vars == <<file, user, cut, faults>>

-----------------------------------------------------------------------------
File == [content : Contents, whole : BOOLEAN]

ASSUME NullIsNoFile == NULL \notin File

Steps == {"idle", "list", "look", "download", "open", "save",
          "segment", "reread"}

\* "want" is what was asked for; "disturbed" says that somebody outside the
\* process wrote or deleted the file after this user saw it, or that a write
\* to it failed.  Neither is in the code.
User == [pc        : Steps,
         kind      : Kinds,
         want      : Contents \cup {NULL},
         path      : Paths \cup {NULL},
         force     : BOOLEAN,
         todo      : SUBSET Brochures,          \* refs still to fetch
         holding   : File \cup {NULL},          \* data, about to be written
         sha       : File \cup {NULL},          \* brochure_sha256
         cached    : BOOLEAN,                   \* brochure_from_cache
         disturbed : BOOLEAN]

Idle == [pc |-> "idle", kind |-> "run", want |-> NULL, path |-> NULL,
         force |-> FALSE, todo |-> {}, holding |-> NULL, sha |-> NULL,
         cached |-> FALSE, disturbed |-> FALSE]

TypeOK ==
    /\ file \in [Paths -> File \cup {NULL}]
    /\ user \in [Users -> User]
    /\ \A u \in Users :
          /\ user[u].pc \in {"open", "save"} <=> user[u].holding # NULL
          /\ user[u].pc \in {"segment", "reread"} <=> user[u].sha # NULL
          /\ user[u].pc \in {"idle", "list"} <=> user[u].path = NULL
    /\ cut \in SUBSET Paths
    /\ faults \in 0 .. MaxFaults

Init ==
    /\ file = [p \in Paths |-> NULL]
    /\ user = [u \in Users |-> Idle]
    /\ cut = {}
    /\ faults = 0

-----------------------------------------------------------------------------
At(u, step) == user[u].pc = step

Whole(content) == [content |-> content, whole |-> TRUE]

Torn(f) == [f EXCEPT !.whole = FALSE]

OffLoop(u) == TRUE                 \* mutant: file access in a thread

\* No other task of the process is in the middle of code without an await.
LoopFree(u) ==
    \A v \in Users \ {u} :
       Process[v] = Process[u] => user[v].pc \notin {"open", "save", "reread"}

Elsewhere(u) == {v \in Users : Process[v] # Process[u]}

Using(v, p) == user[v].path = p /\ user[v].pc \in {"save", "segment", "reread"}

\* The record of u changes, and those of the users of p among S are marked.
Disturbing(S, p, u, rec) ==
    [v \in Users |-> IF v = u THEN rec
                     ELSE IF v \in S /\ Using(v, p)
                     THEN [user[v] EXCEPT !.disturbed = TRUE]
                     ELSE user[v]]

Becomes(u, rec) == user' = [user EXCEPT ![u] = rec]

Starts(u, kind, rec) ==
    /\ kind \in Jobs[u]
    /\ At(u, "idle")
    /\ LoopFree(u)
    /\ Becomes(u, rec)
    /\ UNCHANGED <<file, cut, faults>>

\* fetch_brochure_node with a version id, or the CLI with --vid.
StartKnown(u, kind, b, force) ==
    /\ kind = "run" => ~force
    /\ Starts(u, kind, [Idle EXCEPT !.pc = "look", !.kind = kind, !.want = b,
                              !.path = b, !.force = force])

\* The same without one.
StartList(u, kind, force) ==
    /\ kind = "run" => ~force
    /\ Starts(u, kind, [Idle EXCEPT !.pc = "list", !.kind = kind, !.force = force])

\* POST /review/runs/upload: written unless there is a file, then a run.
StartUpload(u, c) ==
    /\ Process[u] = Web
    /\ Starts(u, "upload", IF file[Key[c]] = NULL
          THEN [Idle EXCEPT !.pc = "open", !.kind = "upload", !.want = c,
                            !.path = Key[c], !.holding = Whole(c)]
          ELSE [Idle EXCEPT !.pc = "look", !.want = c, !.path = Key[c]])

\* The seed script copies a cached brochure to where its draft would be.
StartSeed(u, b) ==
    /\ file[b] # NULL
    /\ file[Key[b]] = NULL
    /\ Starts(u, "seed", [Idle EXCEPT !.pc = "open", !.kind = "seed", !.want = b,
                                      !.path = Key[b], !.holding = file[b]])

-----------------------------------------------------------------------------
(* fetch_brochure *)

\* Somebody elsewhere is writing the file.
Overlapped(u) ==
    \E v \in Elsewhere(u) : At(v, "save") /\ user[v].path = user[u].path

\* After a brochure: the run segments it, the CLI goes on with the next.
Fetched(u, f, cached) ==
    IF user[u].kind = "run"
    THEN {[user[u] EXCEPT !.pc = "segment", !.sha = f, !.cached = cached,
                          !.holding = NULL,
                          !.disturbed = @ \/ (cached /\ Overlapped(u))]}
    ELSE IF user[u].todo = {} THEN {Idle}
    ELSE {[user[u] EXCEPT !.pc = "look", !.want = b, !.path = b, !.holding = NULL,
                          !.todo = @ \ {b}, !.disturbed = FALSE] : b \in user[u].todo}

HitUnlessForced(u) == file[user[u].path] # NULL /\ ~user[u].force

Hit(u) ==
    /\ At(u, "look")
    /\ LoopFree(u)
    /\ HitUnlessForced(u)
    /\ \E rec \in Fetched(u, file[user[u].path], TRUE) : Becomes(u, rec)
    /\ UNCHANGED <<file, cut, faults>>

Miss(u) ==
    /\ At(u, "look")
    /\ LoopFree(u)
    /\ ~HitUnlessForced(u)
    /\ Becomes(u, [user[u] EXCEPT !.pc = "download"])
    /\ UNCHANGED <<file, cut, faults>>

\* Opening empties the file.
Open(u) ==
    /\ At(u, "open")
    /\ file' = [file EXCEPT ![user[u].path] = Torn(user[u].holding)]
    /\ user' = Disturbing(Elsewhere(u), user[u].path, u, [user[u] EXCEPT !.pc = "save"])
    /\ UNCHANGED <<cut, faults>>

\* An upload goes on as a run of its own, which looks into the cache.
Close(u) ==
    /\ At(u, "save")
    /\ file' = [file EXCEPT ![user[u].path] = user[u].holding]
    /\ IF user[u].kind = "upload"
       THEN Becomes(u, [user[u] EXCEPT !.pc = "look", !.kind = "run", !.holding = NULL,
                                       !.disturbed = FALSE])
       ELSE \E rec \in Fetched(u, user[u].holding, FALSE) : Becomes(u, rec)
    /\ cut' = IF user[u].holding.whole THEN cut \ {user[u].path} ELSE cut \cup {user[u].path}
    /\ UNCHANGED faults

\* The disk is full: the file stays as it is, which those of the process that
\* are yet to read it do not expect either.
SaveFails(u) ==
    /\ At(u, "save")
    /\ faults < MaxFaults
    /\ faults' = faults + 1
    /\ user' = Disturbing(Users, user[u].path, u, Idle)
    /\ cut' = cut \cup {user[u].path}
    /\ UNCHANGED file

-----------------------------------------------------------------------------
(* What a request to the SEC brings. *)

ListedUnchecked(u) ==              \* mutant: there is always a first
    /\ At(u, "list")
    /\ LoopFree(u)
    /\ \E b \in Brochures \cup {NULL} :
          Becomes(u, [user[u] EXCEPT !.pc = "look", !.want = b, !.path = b])
    /\ UNCHANGED <<file, cut, faults>>

\* The firm's current brochures, as far as they can be parsed.
Listed(u) ==
    /\ At(u, "list")
    /\ LoopFree(u)
    /\ \E refs \in SUBSET Brochures :
          IF refs = {} THEN Becomes(u, Idle)
          ELSE \E b \in refs :
                  Becomes(u, [user[u] EXCEPT
                                !.pc = "look", !.want = b, !.path = b,
                                !.todo = IF user[u].kind = "fetch" THEN refs \ {b} ELSE {}])
    /\ UNCHANGED <<file, cut, faults>>

DownloadedUnchecked(u) ==          \* mutant: whatever the answer
    /\ At(u, "download")
    /\ user[u].path \in Brochures
    /\ LoopFree(u)
    /\ \E data \in {Whole(user[u].path), Torn(Whole(user[u].path))} :
          Becomes(u, [user[u] EXCEPT !.pc = "open", !.holding = data])
    /\ UNCHANGED <<file, cut, faults>>

\* The SEC has the brochures and nothing under a draft's version "0".
Downloaded(u) ==
    /\ At(u, "download")
    /\ user[u].path \in Brochures
    /\ LoopFree(u)
    /\ Becomes(u, [user[u] EXCEPT !.pc = "open", !.holding = Whole(user[u].path)])
    /\ UNCHANGED <<file, cut, faults>>

\* Another status, a retry too many, a timeout, not a PDF: an exception.
RequestFails(u) ==
    /\ user[u].pc \in {"list", "download"}
    /\ LoopFree(u)
    /\ Becomes(u, Idle)
    /\ UNCHANGED <<file, cut, faults>>

-----------------------------------------------------------------------------
(* segment_brochure_node reads the file again, twice if Items are missing. *)

\* Code that is about to read the file.
Reads(u) == At(u, "reread") \/ (At(u, "segment") /\ LoopFree(u))

\* An unreadable file is an error, and so is one that is gone; without a
\* rescue there is no second read.
Read(u) ==
    /\ Reads(u)
    /\ \/ /\ At(u, "segment")
          /\ file[user[u].path] # NULL
          /\ Becomes(u, [user[u] EXCEPT !.pc = "reread"])
       \/ Becomes(u, Idle)
    /\ UNCHANGED <<file, cut, faults>>

-----------------------------------------------------------------------------
(* The environment. *)

Crash(p) ==
    /\ faults < MaxFaults
    /\ faults' = faults + 1
    /\ user' = [u \in Users |-> IF Process[u] = p THEN Idle ELSE user[u]]
    /\ cut' = cut \cup {user[u].path : u \in {v \in Users : Process[v] = p /\ At(v, "save")}}
    /\ UNCHANGED file

\* "Safe to delete wholesale" (ADR 0002); not while it is written.
Delete(p) ==
    /\ file[p] # NULL
    /\ \A u \in Users : ~(At(u, "save") /\ user[u].path = p)
    /\ file' = [file EXCEPT ![p] = NULL]
    /\ user' = [v \in Users |-> IF Using(v, p) THEN [user[v] EXCEPT !.disturbed = TRUE]
                                ELSE user[v]]
    /\ cut' = cut \ {p}
    /\ UNCHANGED faults

Start(u) ==
    \/ \E b \in Brochures :
          \/ \E kind \in {"run", "fetch"}, force \in BOOLEAN : StartKnown(u, kind, b, force)
          \/ StartSeed(u, b)
    \/ \E kind \in {"run", "fetch"}, force \in BOOLEAN : StartList(u, kind, force)
    \/ \E c \in Contents : StartUpload(u, c)

Work(u) ==
    \/ Hit(u) \/ Miss(u) \/ Open(u) \/ Close(u) \/ SaveFails(u)
    \/ Listed(u) \/ Downloaded(u) \/ RequestFails(u)
    \/ Read(u)

Next ==
    \/ \E u \in Users : Start(u) \/ Work(u)
    \/ \E p \in Processes : Crash(p)
    \/ \E p \in Paths : Delete(p)

Spec == Init /\ [][Next]_vars

-----------------------------------------------------------------------------
(* Properties. *)

(***************************************************************************)
(* A run that fetched a whole brochure segments exactly it, so the hash    *)
(* its report is filed under (brochure_sha256) is of the bytes behind the  *)
(* report, although the file is read again after an await: tasks of one    *)
(* process that fetch and write the same brochure do not get in each       *)
(* other's way.  It takes that nobody outside the process writes or        *)
(* deletes the file meanwhile and that no write to it fails.  Of a torn    *)
(* file it does not hold: another run may complete it in between.          *)
(***************************************************************************)
HashIsOfAnalysed ==
    \A u \in Users :
       Reads(u) /\ user[u].sha.whole /\ ~user[u].disturbed
         => file[user[u].path] = user[u].sha

(***************************************************************************)
(* "A cache hit is always correct" (ADR 0002): what a run reads is the     *)
(* whole of what it asked for, an uploaded draft up to other contents with *)
(* the same key.  Existence is all the cache looks at, so a hit is not     *)
(* correct where the last write ended early, or copied a file that was not *)
(* whole.  Everywhere else it is, in the same process and in others, after *)
(* a crash as before it: the damage stays with that file, and a new        *)
(* download of it, or a deletion, ends it.  Again, nobody outside the      *)
(* process may write or delete the file from the look to the read.         *)
(***************************************************************************)
RightContent(u, f) ==
    f.whole /\ IF user[u].path = user[u].want THEN f.content = user[u].want
                                              ELSE Key[f.content] = user[u].path

Trusted(u) == ~user[u].disturbed /\ (user[u].cached => user[u].path \notin cut)

AnalysedIsWhole ==
    \A u \in Users :
       Reads(u) /\ Trusted(u) => RightContent(u, file[user[u].path])
=============================================================================
