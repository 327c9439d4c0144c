----------------------------- MODULE GitCheckout -----------------------------
(***************************************************************************)
(* fetch_repo_snapshot of git_repo/client.py: runs that read the files of  *)
(* one commit of a remote repository from a checkout which all runs of the *)
(* repository's URL share, one after the other or at the same time.        *)
(*                                                                         *)
(* A commit is a number, later commits being greater; 0 is "none".  A file *)
(* of the checkout is the commit it was written from.  Git itself is       *)
(* modelled from how the client uses it: fetch updates the branches it     *)
(* finds, adds new tags, refuses moved ones and prunes nothing; checkout   *)
(* holds a lock and leaves it behind when it dies.  Filters, symbolic      *)
(* links and undecodable files, which a run leaves out, are not modelled.  *)
(***************************************************************************)
EXTENDS Naturals

CONSTANTS Clients,          \* processes running the git_repo command
          Names,            \* names of branches and tags
          Main,             \* the remote's default branch
          Requests,         \* what --ref may ask for
          Files, LastCommit, Tracked,  \* Tracked[k]: the files of commit k
          TagsMove          \* whether tags of the remote are ever moved

Commits == 1..LastCommit
Refs == [Names -> 0..LastCommit]

\* No --ref; a bare name; a branch written refs/heads/<name>.
Request == [form : {"default"}, name : {Main}] \cup [form : {"bare", "full"}, name : Names]

ASSUME GitAssumption ==
    /\ Main \in Names
    /\ Requests \subseteq Request
    /\ LastCommit \in Nat \ {0}
    /\ Tracked \in [Commits -> SUBSET Files]
    /\ TagsMove \in BOOLEAN

VARIABLES remote,           \* branches and tags of the remote repository
          checkout,         \* the cache directory
          client            \* the local state of each run

gitVars == <<remote, checkout, client>>

NoRefs == [n \in Names |-> 0]

Remote == [branch : Refs, tag : Refs, last : Commits]

\* head is the commit checked out, which is also what the index lists; branch
\* holds refs/remotes/origin, local the branch the clone made, cloned whether
\* refs/remotes/origin/HEAD is there.
Checkout == [exists : BOOLEAN, cloned : BOOLEAN, locked : BOOLEAN,
             branch : Refs, tag : Refs, local : Refs,
             head : 0..LastCommit, files : [Files -> 0..LastCommit]]

NoCheckout == [exists |-> FALSE, cloned |-> FALSE, locked |-> FALSE,
               branch |-> NoRefs, tag |-> NoRefs, local |-> NoRefs,
               head |-> 0, files |-> [f \in Files |-> 0]]

Stages == {"idle", "ensure", "clone", "resolve", "checkout", "name", "list", "read"}

\* seen is what the remote held when the run cloned or fetched; commit is the
\* commit to check out, then the one the snapshot names.
Client == [at : Stages, request : Request, seen : Remote, commit : 0..LastCommit,
           todo : SUBSET Files, read : [Files -> 0..LastCommit]]

FirstRemote == [branch |-> [NoRefs EXCEPT ![Main] = 1], tag |-> NoRefs, last |-> 1]

NewRun(request) == [at |-> "ensure", request |-> request, seen |-> FirstRemote,
                    commit |-> 0, todo |-> {}, read |-> [f \in Files |-> 0]]

NoRun == [NewRun([form |-> "default", name |-> Main]) EXCEPT !.at = "idle"]

GitInit == /\ remote = FirstRemote
           /\ checkout = NoCheckout
           /\ client = [c \in Clients |-> NoRun]

-----------------------------------------------------------------------------
(* The remote repository, and the operator.                                *)

Push(n) ==
    /\ remote.last < LastCommit
    /\ remote' = [remote EXCEPT !.last = @ + 1, !.branch[n] = remote.last + 1]
    /\ UNCHANGED <<checkout, client>>

TagRef(n, k) ==
    /\ k <= remote.last /\ k # remote.tag[n]
    /\ remote.tag[n] # 0 => TagsMove
    /\ remote' = [remote EXCEPT !.tag[n] = k]
    /\ UNCHANGED <<checkout, client>>

\* "Remove the cache directory and try again."
RemoveCheckout ==
    /\ checkout.exists
    /\ \A c \in Clients : client[c].at = "idle"
    /\ checkout' = NoCheckout
    /\ UNCHANGED <<remote, client>>

-----------------------------------------------------------------------------
(* A run.  The Fault operators are plausible bugs, which the runs notice   *)
(* in place of the definition each is named for.                           *)

FilesOf(k) == [f \in Files |-> IF f \in Tracked[k] THEN k ELSE 0]

Ask(c, request) ==
    /\ client[c].at = "idle"
    /\ client' = [client EXCEPT ![c] = NewRun(request)]
    /\ UNCHANGED <<remote, checkout>>

\* _ensure_repo_checkout.  A clone makes the directory first, with nothing in
\* it that could be checked out.
BeginClone(c) ==
    /\ client[c].at = "ensure" /\ ~checkout.exists
    /\ checkout' = [NoCheckout EXCEPT !.exists = TRUE]
    /\ client' = [client EXCEPT ![c].at = "clone"]
    /\ UNCHANGED remote

EndClone(c) ==
    /\ client[c].at = "clone"
    /\ checkout' = [checkout EXCEPT !.cloned = TRUE, !.branch = remote.branch, !.tag = remote.tag,
                                    !.local[Main] = remote.branch[Main],
                                    !.head = remote.branch[Main],
                                    !.files = FilesOf(remote.branch[Main])]
    /\ client' = [client EXCEPT ![c].at = "resolve", ![c].seen = remote]
    /\ UNCHANGED remote

Merged(old, new) == [n \in Names |-> IF new[n] # 0 THEN new[n] ELSE old[n]]

FaultFetched == [checkout EXCEPT !.tag = Merged(remote.tag, checkout.tag)]

Fetched == [checkout EXCEPT !.branch = Merged(checkout.branch, remote.branch),
                            !.tag = Merged(remote.tag, checkout.tag)]

FaultAfterFailure(c) == IF client[c].at = "resolve" THEN [client[c] EXCEPT !.at = "name"]
                                                    ELSE NoRun

\* A git command that fails raises, and the run ends.
AfterFailure(c) == NoRun

Clobbers == \E n \in Names : checkout.tag[n] # 0 /\ remote.tag[n] \notin {0, checkout.tag[n]}

Fetch(c) ==
    /\ client[c].at = "ensure" /\ checkout.exists
    /\ checkout' = Fetched
    /\ client' = [client EXCEPT ![c] = IF Clobbers THEN AfterFailure(c)
                                       ELSE [@ EXCEPT !.at = "resolve", !.seen = remote]]
    /\ UNCHANGED remote

FaultCandidates(r) ==
    CASE r.form = "default" -> <<checkout.branch[Main]>>
      [] r.form = "bare"    -> <<checkout.branch[r.name], checkout.tag[r.name]>>
      [] r.form = "full"    -> <<0, checkout.local[r.name]>>

\* What _checkout_ref finds locally for the request, in the order it looks: no
\* tag and no remote branch has a full name, so that refs/heads/<name> is the
\* branch of that name in the checkout itself.
Candidates(r) ==
    CASE r.form = "default" -> IF checkout.cloned THEN <<checkout.branch[Main]>> ELSE <<>>
      [] r.form = "bare"    -> <<checkout.tag[r.name], checkout.branch[r.name]>>
      [] r.form = "full"    -> <<checkout.local[r.name]>>

\* What a fetch of the name itself brings, if nothing is found.
Direct(r) ==
    CASE r.form = "default" -> 0
      [] r.form = "bare"    -> IF remote.tag[r.name] # 0 THEN remote.tag[r.name]
                                                          ELSE remote.branch[r.name]
      [] r.form = "full"    -> remote.branch[r.name]

Found(s) == {i \in DOMAIN s : s[i] # 0}

Resolves(r, k) ==
    \/ \E i \in Found(Candidates(r)) :
          k = Candidates(r)[i] /\ \A j \in Found(Candidates(r)) : i <= j
    \/ Found(Candidates(r)) = {} /\ Direct(r) = k /\ k # 0

\* git checkout --force --detach: under the lock it replaces file after file.
\* After a fetch of the name itself, what the remote holds counts as seen.
BeginCheckout(c) ==
    /\ client[c].at = "resolve" /\ checkout.exists /\ ~checkout.locked
    /\ \E k \in Commits, mixed \in [Files -> 0..LastCommit] :
          /\ Resolves(client[c].request, k)
          /\ \A f \in Files : mixed[f] \in {checkout.files[f], FilesOf(k)[f]}
          /\ checkout' = [checkout EXCEPT !.locked = TRUE, !.files = mixed]
          /\ client' = [client EXCEPT ![c].at = "checkout", ![c].commit = k,
                            ![c].seen = IF Found(Candidates(client[c].request)) = {}
                                        THEN remote ELSE @]
    /\ UNCHANGED remote

EndCheckout(c) ==
    LET k == client[c].commit IN
    /\ client[c].at = "checkout" /\ checkout.locked
    /\ checkout' = [checkout EXCEPT !.locked = FALSE, !.head = k, !.files = FilesOf(k)]
    /\ client' = [client EXCEPT ![c].at = "name"]
    /\ UNCHANGED remote

\* rev-parse HEAD, then ls-files, then one file after the other.
NameCommit(c) ==
    /\ client[c].at = "name" /\ checkout.head # 0
    /\ client' = [client EXCEPT ![c].at = "list", ![c].commit = checkout.head]
    /\ UNCHANGED <<remote, checkout>>

ListFiles(c) ==
    /\ client[c].at = "list" /\ checkout.head # 0
    /\ client' = [client EXCEPT ![c].at = "read", ![c].todo = Tracked[checkout.head]]
    /\ UNCHANGED <<remote, checkout>>

\* A listed file that is not there any more is reported as skipped.
ReadFile(c, f) ==
    /\ client[c].at = "read" /\ f \in client[c].todo
    /\ client' = [client EXCEPT ![c].todo = @ \ {f}, ![c].read[f] = checkout.files[f]]
    /\ UNCHANGED <<remote, checkout>>

Done(c) == client[c].at = "read" /\ client[c].todo = {}

\* The snapshot is written and the run ends.
Deliver(c) ==
    /\ Done(c)
    /\ client' = [client EXCEPT ![c] = NoRun]
    /\ UNCHANGED <<remote, checkout>>

\* The run dies, or git or a read fails.  A clone that fails removes what it
\* made, one that is killed does not; a checkout that is killed stays locked.
EndsEarly(c) ==
    /\ client[c].at # "idle"
    /\ checkout' \in IF client[c].at = "clone" THEN {checkout, NoCheckout} ELSE {checkout}
    /\ client' = [client EXCEPT ![c] = AfterFailure(c)]
    /\ UNCHANGED remote

GitNext ==
    \/ \E n \in Names : Push(n) \/ \E k \in Commits : TagRef(n, k)
    \/ RemoveCheckout
    \/ \E c \in Clients :
          \/ \E request \in Requests : Ask(c, request)
          \/ BeginClone(c) \/ EndClone(c) \/ Fetch(c)
          \/ BeginCheckout(c) \/ EndCheckout(c) \/ NameCommit(c) \/ ListFiles(c)
          \/ \E f \in Files : ReadFile(c, f)
          \/ Deliver(c) \/ EndsEarly(c)

GitSpec == GitInit /\ [][GitNext]_gitVars

-----------------------------------------------------------------------------
GitTypeOK == /\ remote \in Remote
             /\ checkout \in Checkout
             /\ client \in [Clients -> Client]

\* The files of a snapshot are those of the commit that it, its canonical ids
\* and the manifest name, whatever died in the checkout before.  (For runs that
\* do not overlap.)
SnapshotIsOneCommit ==
    \A c \in Clients : Done(c) => client[c].read = FilesOf(client[c].commit)

\* README.md: "When --ref names a remote branch, each run uses its freshly
\* fetched tip.  A bare name shared by a tag and branch selects the tag".  Of a
\* branch asked for as refs/heads/<name> this does not hold once the clone has
\* a branch of its own with that name: see Candidates.
RefIsFresh ==
    \A c \in Clients :
        LET r == client[c].request
            tagged == r.form = "bare" /\ client[c].seen.tag[r.name] # 0
            cloned == r.form = "full" /\ checkout.local[r.name] # 0
        IN
        Done(c) => client[c].commit = CASE tagged -> client[c].seen.tag[r.name]
                                        [] cloned -> checkout.local[r.name]
                                        [] OTHER  -> client[c].seen.branch[r.name]
=============================================================================
