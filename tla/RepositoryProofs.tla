--------------------------- MODULE RepositoryProofs ---------------------------
(***************************************************************************)
(* What holds of the adapters of git and GitHub repositories, for any      *)
(* repository, any history of it and any sequence of runs.                 *)
(*                                                                         *)
(* GitCheckout: runs that do not overlap deliver one commit, and the one   *)
(* that their reference names when they fetch it, whatever died in the     *)
(* checkout before them.  GitHubMetadata: a listing by pages has what it   *)
(* must while records come and go, and a hash in a manifest is the hash of *)
(* the artifact.  GitHubSelection: a selection has the records that were   *)
(* asked for, and all that was said of them.                               *)
(***************************************************************************)
EXTENDS GitCheckout, GitHubMetadata, GitHubSelection, Induction

-----------------------------------------------------------------------------
(* GitCheckout.                                                            *)

(* Type correctness.                                                       *)

\* The parts of the checkout and of a run.
LEMMA CheckoutParts ==
    ASSUME NEW k \in Checkout
    PROVE  /\ k.branch \in Refs /\ k.tag \in Refs /\ k.local \in Refs
           /\ k.head \in 0..LastCommit /\ k.files \in [Files -> 0..LastCommit]
BY DEF Checkout

LEMMA RefsType ==
    /\ NoRefs \in Refs
    /\ \A old, new \in Refs : Merged(old, new) \in Refs
    /\ \A refs \in Refs, n \in Names, k \in 0..LastCommit : [refs EXCEPT ![n] = k] \in Refs
BY GitAssumption DEF NoRefs, Refs, Merged

LEMMA FilesOfType ==
    ASSUME NEW k \in 0..LastCommit
    PROVE  FilesOf(k) \in [Files -> 0..LastCommit]
BY GitAssumption DEF FilesOf

LEMMA FirstRemoteType == FirstRemote \in Remote
<1>1. 1 \in 0..LastCommit /\ 1 \in Commits /\ Main \in Names
  BY GitAssumption DEF Commits
<1>2. [NoRefs EXCEPT ![Main] = 1] \in Refs
  BY <1>1, RefsType
<1>3. QED
  BY <1>1, <1>2, RefsType DEF FirstRemote, Remote

LEMMA NewRunType ==
    ASSUME NEW request \in Request
    PROVE  NewRun(request) \in Client
<1>1. [f \in Files |-> 0] \in [Files -> 0..LastCommit] /\ 0 \in 0..LastCommit
  BY GitAssumption
<1>2. QED
  BY <1>1, FirstRemoteType DEF NewRun, Client, Stages

LEMMA NoRunType == NoRun \in Client /\ NoRun.at = "idle"
<1>1. [form |-> "default", name |-> Main] \in Request
  BY DEF Request
<1>2. NewRun([form |-> "default", name |-> Main]) \in Client
  BY <1>1, NewRunType
<1>3. QED
  BY <1>2 DEF NoRun, Client, Stages

LEMMA NoCheckoutType == NoCheckout \in Checkout
<1>1. [f \in Files |-> 0] \in [Files -> 0..LastCommit] /\ 0 \in 0..LastCommit
  BY GitAssumption
<1>2. QED
  BY <1>1, RefsType DEF NoCheckout, Checkout

LEMMA GitTypeInit == GitInit => GitTypeOK
BY FirstRemoteType, NoCheckoutType, NoRunType DEF GitInit, GitTypeOK

LEMMA GitTypeStep == GitTypeOK /\ [GitNext]_gitVars => GitTypeOK'
<1>0. SUFFICES ASSUME GitTypeOK, [GitNext]_gitVars PROVE GitTypeOK'
  OBVIOUS
<1> USE <1>0 DEF GitTypeOK
<1>t. /\ NoRun \in Client /\ NoCheckout \in Checkout
      /\ remote.branch \in Refs /\ remote.tag \in Refs /\ remote.last \in Commits
  BY NoRunType, NoCheckoutType DEF Remote
<1>1. ASSUME NEW n \in Names, Push(n) PROVE GitTypeOK'
  <2>1. remote.last + 1 \in Commits /\ remote.last + 1 \in 0..LastCommit
    BY <1>1, <1>t, GitAssumption DEF Push, Commits
  <2>2. [remote.branch EXCEPT ![n] = remote.last + 1] \in Refs
    BY <2>1, <1>t, RefsType
  <2>3. QED
    BY <1>1, <2>1, <2>2 DEF Push, Remote
<1>2. ASSUME NEW n \in Names, NEW k \in Commits, TagRef(n, k) PROVE GitTypeOK'
  <2>1. k \in 0..LastCommit
    BY GitAssumption DEF Commits
  <2>2. [remote.tag EXCEPT ![n] = k] \in Refs
    BY <2>1, <1>t, RefsType
  <2>3. QED
    BY <1>2, <2>2 DEF TagRef, Remote
<1>3. CASE RemoveCheckout
  BY <1>3, <1>t DEF RemoveCheckout
<1>4. ASSUME NEW c \in Clients, NEW request \in Requests, Ask(c, request) PROVE GitTypeOK'
  <2>1. NewRun(request) \in Client
    BY NewRunType, GitAssumption
  <2>2. QED
    BY <1>4, <2>1 DEF Ask
<1>5. ASSUME NEW c \in Clients, BeginClone(c) PROVE GitTypeOK'
  <2>1. client' \in [Clients -> Client]
    BY <1>5 DEF BeginClone, Client, Stages
  <2>2. checkout' \in Checkout
    BY <1>5, <1>t DEF BeginClone, Checkout
  <2>3. QED
    BY <1>5, <2>1, <2>2 DEF BeginClone
<1>6. ASSUME NEW c \in Clients, EndClone(c) PROVE GitTypeOK'
  <2>1. client' \in [Clients -> Client]
    BY <1>6 DEF EndClone, Client, Stages
  <2>2. remote.branch[Main] \in 0..LastCommit /\ Main \in Names
    BY <1>t, GitAssumption DEF Refs
  <2>3. [checkout.local EXCEPT ![Main] = remote.branch[Main]] \in Refs
    BY <2>2, RefsType, CheckoutParts
  <2>4. FilesOf(remote.branch[Main]) \in [Files -> 0..LastCommit]
    BY <2>2, FilesOfType
  <2>5. checkout' \in Checkout
    BY <1>6, <1>t, <2>2, <2>3, <2>4 DEF EndClone, Checkout
  <2>6. QED
    BY <1>6, <2>1, <2>5 DEF EndClone
<1>7. ASSUME NEW c \in Clients, Fetch(c) PROVE GitTypeOK'
  <2>1. client' \in [Clients -> Client]
    BY <1>7, <1>t DEF Fetch, AfterFailure, Client, Stages
  <2>2. /\ Merged(checkout.branch, remote.branch) \in Refs
        /\ Merged(remote.tag, checkout.tag) \in Refs
    BY <1>t, RefsType, CheckoutParts
  <2>3. checkout' \in Checkout
    BY <1>7, <2>2 DEF Fetch, Fetched, Checkout
  <2>4. QED
    BY <1>7, <2>1, <2>3 DEF Fetch
<1>8. ASSUME NEW c \in Clients, BeginCheckout(c) PROVE GitTypeOK'
  <2>1. PICK k \in Commits, mixed \in [Files -> 0..LastCommit] :
            /\ checkout' = [checkout EXCEPT !.locked = TRUE, !.files = mixed]
            /\ client' = [client EXCEPT ![c].at = "checkout", ![c].commit = k,
                              ![c].seen = IF Found(Candidates(client[c].request)) = {}
                                          THEN remote ELSE client[c].seen]
    BY <1>8 DEF BeginCheckout
  <2>2. k \in 0..LastCommit
    BY GitAssumption DEF Commits
  <2> DEFINE seen == IF Found(Candidates(client[c].request)) = {}
                     THEN remote ELSE client[c].seen
  <2>3. client' \in [Clients -> Client]
    <3>1. seen \in Remote
      BY DEF Client
    <3>2. [client[c] EXCEPT !.at = "checkout", !.commit = k, !.seen = seen] \in Client
      BY <2>2, <3>1 DEF Client, Stages
    <3>3. client' = [client EXCEPT ![c] = [client[c] EXCEPT !.at = "checkout", !.commit = k,
                                                            !.seen = seen]]
      BY <2>1
    <3>4. QED
      BY <3>2, <3>3
  <2>4. checkout' \in Checkout
    BY <2>1 DEF Checkout
  <2>5. QED
    BY <1>8, <2>3, <2>4 DEF BeginCheckout
<1>9. ASSUME NEW c \in Clients, EndCheckout(c) PROVE GitTypeOK'
  <2>1. client[c].commit \in 0..LastCommit
    BY DEF Client
  <2>2. client' \in [Clients -> Client]
    BY <1>9 DEF EndCheckout, Client, Stages
  <2>3. checkout' \in Checkout
    BY <1>9, <2>1, FilesOfType DEF EndCheckout, Checkout
  <2>4. QED
    BY <1>9, <2>2, <2>3 DEF EndCheckout
<1>10. ASSUME NEW c \in Clients, NameCommit(c) PROVE GitTypeOK'
  BY <1>10, CheckoutParts DEF NameCommit, Client, Stages
<1>11. ASSUME NEW c \in Clients, ListFiles(c) PROVE GitTypeOK'
  <2>1. Tracked[checkout.head] \in SUBSET Files
    BY <1>11, CheckoutParts, GitAssumption DEF ListFiles, Commits
  <2>2. QED
    BY <1>11, <2>1 DEF ListFiles, Client, Stages
<1>12. ASSUME NEW c \in Clients, NEW f \in Files, ReadFile(c, f) PROVE GitTypeOK'
  <2>1. checkout.files[f] \in 0..LastCommit
    BY CheckoutParts
  <2>2. [client[c].read EXCEPT ![f] = checkout.files[f]] \in [Files -> 0..LastCommit]
    BY <2>1 DEF Client
  <2>3. QED
    BY <1>12, <2>2 DEF ReadFile, Client
<1>13. ASSUME NEW c \in Clients, Deliver(c) PROVE GitTypeOK'
  BY <1>13, <1>t DEF Deliver
<1>14. ASSUME NEW c \in Clients, EndsEarly(c) PROVE GitTypeOK'
  BY <1>14, <1>t DEF EndsEarly, AfterFailure
<1>15. CASE UNCHANGED gitVars
  BY <1>15 DEF gitVars
<1>16. QED
  BY <1>1, <1>2, <1>3, <1>4, <1>5, <1>6, <1>7, <1>8, <1>9, <1>10, <1>11, <1>12, <1>13, <1>14,
     <1>15 DEF GitNext

\* The remote, the checkout and the runs keep their types.
THEOREM GitTypeCorrect == GitSpec => []GitTypeOK
BY GitTypeInit, GitTypeStep, PTL DEF GitSpec
-----------------------------------------------------------------------------
(* Runs that do not overlap.                                               *)

OneAtATime == \A c, d \in Clients : c = d

\* What the checkout knows of the remote is not more than there is: git fetch
\* prunes nothing, and the remote loses nothing.
NothingIsLost ==
    \A n \in Names : /\ checkout.branch[n] # 0 => remote.branch[n] # 0
                     /\ checkout.tag[n] # 0 => remote.tag[n] # 0

\* After the fetch it is what the remote held.
AsSeen(c) == client[c].at = "resolve" => /\ checkout.branch = client[c].seen.branch
                                         /\ checkout.tag = client[c].seen.tag

\* What is asked for, of what the run saw.
Wanted(c) ==
    LET r == client[c].request
    IN  CASE r.form = "bare" /\ client[c].seen.tag[r.name] # 0 -> client[c].seen.tag[r.name]
          [] r.form = "full" /\ checkout.local[r.name] # 0 -> checkout.local[r.name]
          [] OTHER -> client[c].seen.branch[r.name]

Chosen(c) == client[c].at \in {"checkout", "name", "list", "read"} =>
                 client[c].commit \in Commits /\ client[c].commit = Wanted(c)

\* The files of the checkout are those of its head, whatever a run that died
\* in it has left.
CheckedOut(c) == client[c].at \in {"name", "list", "read"} =>
                     checkout.head \in Commits /\ checkout.files = FilesOf(checkout.head)

Named(c) == client[c].at \in {"name", "list", "read"} => client[c].commit = checkout.head

Unread(c) == client[c].at # "read" => client[c].read = [f \in Files |-> 0]

ReadSoFar(c) == client[c].at = "read" =>
    /\ client[c].todo \subseteq Tracked[checkout.head]
    /\ \A f \in Files : client[c].read[f] = IF f \in client[c].todo THEN 0
                                            ELSE checkout.files[f]

RunInv(c) == /\ CheckedOut(c) /\ Named(c) /\ Unread(c) /\ ReadSoFar(c)
             /\ AsSeen(c) /\ Chosen(c)

CheckoutInv == NothingIsLost /\ \A c \in Clients : RunInv(c)

LEMMA NoRunParts ==
    /\ NoRun.at = "idle" /\ NoRun.read = [f \in Files |-> 0]
    /\ \A request \in Request : /\ NewRun(request).at = "ensure"
                                /\ NewRun(request).read = [f \in Files |-> 0]
BY DEF NoRun, NewRun

\* A run is not there, or has done nothing yet.
LEMMA AtRest ==
    ASSUME NEW c, client'[c].at \in {"idle", "ensure", "clone"},
           client'[c].read = [f \in Files |-> 0]
    PROVE  RunInv(c)'
<1>1. client'[c].at \notin {"resolve", "checkout", "name", "list", "read"}
  OBVIOUS
<1>2. (CheckedOut(c) /\ Named(c) /\ Unread(c))'
  BY <1>1 DEF CheckedOut, Named, Unread
<1>3. (ReadSoFar(c) /\ AsSeen(c) /\ Chosen(c))'
  BY <1>1 DEF ReadSoFar, AsSeen, Chosen
<1>4. QED
  BY <1>2, <1>3 DEF RunInv

LEMMA CheckoutInit == GitInit => CheckoutInv
BY NoRunParts DEF GitInit, CheckoutInv, NothingIsLost, RunInv, CheckedOut, Named, Unread, ReadSoFar,
   AsSeen, Chosen, NoCheckout, NoRefs

\* The remote repository changes.
LEMMA RemoteMoves ==
    ASSUME CheckoutInv, checkout' = checkout, client' = client,
           \A n \in Names : /\ remote.branch[n] # 0 => remote'.branch[n] # 0
                            /\ remote.tag[n] # 0 => remote'.tag[n] # 0
    PROVE  CheckoutInv'
<1>1. ASSUME NEW n \in Names
      PROVE  /\ checkout'.branch[n] # 0 => remote'.branch[n] # 0
             /\ checkout'.tag[n] # 0 => remote'.tag[n] # 0
  BY DEF CheckoutInv, NothingIsLost
<1>2. ASSUME NEW c \in Clients PROVE RunInv(c)'
  <2>1. RunInv(c)
    BY DEF CheckoutInv
  <2>2. (CheckedOut(c) /\ Named(c) /\ Unread(c) /\ ReadSoFar(c))'
    BY <2>1 DEF RunInv, CheckedOut, Named, Unread, ReadSoFar
  <2>3. (AsSeen(c) /\ Chosen(c))'
    BY <2>1 DEF RunInv, AsSeen, Chosen, Wanted
  <2>4. QED
    BY <2>2, <2>3 DEF RunInv
<1>3. QED
  BY <1>1, <1>2 DEF CheckoutInv, NothingIsLost

\* What git clone and git fetch bring is what the remote holds.
LEMMA FetchBrings ==
    ASSUME GitTypeOK, NothingIsLost, ~Clobbers
    PROVE  /\ Fetched.branch = remote.branch /\ Fetched.tag = remote.tag
           /\ Fetched.head = checkout.head /\ Fetched.local = checkout.local
<1>1. /\ checkout \in Checkout /\ checkout.branch \in Refs /\ checkout.tag \in Refs
      /\ remote.branch \in Refs /\ remote.tag \in Refs
  BY CheckoutParts DEF GitTypeOK, Remote
<1>2. Merged(checkout.branch, remote.branch) = remote.branch
  BY <1>1 DEF Merged, NothingIsLost, Refs
<1>3. Merged(remote.tag, checkout.tag) = remote.tag
  BY <1>1 DEF Merged, NothingIsLost, Clobbers, Refs
<1>4. QED
  BY <1>1, <1>2, <1>3 DEF Fetched, Checkout

\* What _checkout_ref resolves is what was asked for.
LEMMA ResolvesWanted ==
    ASSUME GitTypeOK, NEW c \in Clients, AsSeen(c), client[c].at = "resolve",
           NEW k, Resolves(client[c].request, k)
    PROVE  LET r == client[c].request
               seen == IF Found(Candidates(r)) = {} THEN remote ELSE client[c].seen
           IN  k = CASE r.form = "bare" /\ seen.tag[r.name] # 0 -> seen.tag[r.name]
                     [] r.form = "full" /\ checkout.local[r.name] # 0 -> checkout.local[r.name]
                     [] OTHER -> seen.branch[r.name]
<1> DEFINE r == client[c].request
<1>1. r \in Request
  BY DEF GitTypeOK, Client
<1>2. CASE r.form = "default"
  <2>1. r.name = Main
    BY <1>1, <1>2 DEF Request
  <2>2. checkout.cloned /\ k = checkout.branch[Main] /\ Found(Candidates(r)) # {}
    BY <1>2 DEF Resolves, Candidates, Found, Direct
  <2>3. QED
    BY <1>2, <2>1, <2>2 DEF AsSeen
<1>3. CASE r.form = "bare"
  <2>1. Candidates(r) = <<checkout.tag[r.name], checkout.branch[r.name]>>
    BY <1>3 DEF Candidates
  <2>2. /\ DOMAIN Candidates(r) = {1, 2}
        /\ Candidates(r)[1] = checkout.tag[r.name] /\ Candidates(r)[2] = checkout.branch[r.name]
    BY <2>1
  <2> HIDE DEF r
  <2>3. CASE checkout.tag[r.name] # 0
    <3>1. 1 \in Found(Candidates(r)) /\ Found(Candidates(r)) \subseteq {1, 2}
      BY <2>2, <2>3 DEF Found
    <3>2. k = checkout.tag[r.name]
      BY <2>2, <3>1 DEF Resolves, r
    <3>3. QED
      BY <1>3, <2>3, <3>1, <3>2 DEF AsSeen, r
  <2>4. CASE checkout.tag[r.name] = 0 /\ checkout.branch[r.name] # 0
    <3>1. Found(Candidates(r)) = {2}
      BY <2>2, <2>4 DEF Found
    <3>2. k = checkout.branch[r.name]
      BY <2>2, <3>1 DEF Resolves, r
    <3>3. QED
      BY <1>3, <2>4, <3>1, <3>2 DEF AsSeen, r
  <2>5. CASE checkout.tag[r.name] = 0 /\ checkout.branch[r.name] = 0
    <3>1. Found(Candidates(r)) = {}
      BY <2>2, <2>5 DEF Found
    <3>2. k = Direct(r)
      BY <3>1 DEF Resolves, r
    <3>3. QED
      BY <1>3, <3>1, <3>2 DEF Direct, r
  <2>6. QED
    BY <2>3, <2>4, <2>5
<1>4. CASE r.form = "full"
  <2>1. Candidates(r) = <<checkout.local[r.name]>> /\ DOMAIN Candidates(r) = {1}
    BY <1>4 DEF Candidates
  <2>2. CASE checkout.local[r.name] # 0
    BY <1>4, <2>1, <2>2 DEF Resolves, Found
  <2>3. CASE checkout.local[r.name] = 0
    BY <1>4, <2>1, <2>3 DEF Resolves, Found, Direct
  <2>4. QED
    BY <2>2, <2>3
<1>5. QED
  BY <1>1, <1>2, <1>3, <1>4 DEF Request

LEMMA CheckoutStep ==
    ASSUME OneAtATime, GitTypeOK, CheckoutInv, [GitNext]_gitVars
    PROVE  CheckoutInv'
<1> USE DEF GitTypeOK
<1>o. ASSUME NEW c \in Clients, RunInv(c)', NothingIsLost' PROVE CheckoutInv'
  BY <1>o DEF OneAtATime, CheckoutInv
<1>i. ASSUME NEW c \in Clients PROVE RunInv(c) /\ NothingIsLost /\ client[c] \in Client
  BY DEF CheckoutInv
<1>t. /\ remote.branch \in Refs /\ remote.tag \in Refs /\ remote.last \in Commits
      /\ checkout.branch \in Refs /\ checkout.tag \in Refs
  BY CheckoutParts DEF Remote
<1>1. ASSUME NEW n \in Names, Push(n) PROVE CheckoutInv'
  <2>1. /\ remote'.tag = remote.tag
        /\ remote'.branch = [remote.branch EXCEPT ![n] = remote.last + 1]
        /\ remote.last + 1 # 0
    BY <1>1, <1>t DEF Push, Remote, Commits
  <2>2. ASSUME NEW m \in Names, remote.branch[m] # 0 PROVE remote'.branch[m] # 0
    BY <2>1, <2>2, <1>t DEF Refs
  <2>3. checkout' = checkout /\ client' = client
    BY <1>1 DEF Push
  <2>4. QED
    BY <2>1, <2>2, <2>3, RemoteMoves
<1>2. ASSUME NEW n \in Names, NEW k \in Commits, TagRef(n, k) PROVE CheckoutInv'
  <2>1. /\ remote'.branch = remote.branch
        /\ remote'.tag = [remote.tag EXCEPT ![n] = k] /\ k # 0
    BY <1>2 DEF TagRef, Remote, Commits
  <2>2. ASSUME NEW m \in Names, remote.tag[m] # 0 PROVE remote'.tag[m] # 0
    BY <2>1, <2>2, <1>t DEF Refs
  <2>3. checkout' = checkout /\ client' = client
    BY <1>2 DEF TagRef
  <2>4. QED
    BY <2>1, <2>2, <2>3, RemoteMoves
<1>3. CASE RemoveCheckout
  <2>1. NothingIsLost'
    BY <1>3 DEF RemoveCheckout, NothingIsLost, NoCheckout, NoRefs
  <2>2. ASSUME NEW c \in Clients PROVE RunInv(c)'
    <3>1. client'[c].at = "idle" /\ client'[c].read = [f \in Files |-> 0]
      BY <1>3, <1>i DEF RemoveCheckout, RunInv, Unread
    <3>2. QED
      BY <3>1, AtRest
  <2>3. QED
    BY <2>1, <2>2 DEF CheckoutInv
<1>4. ASSUME NEW c \in Clients, NEW request \in Requests, Ask(c, request) PROVE CheckoutInv'
  <2>1. client'[c].at = "ensure" /\ client'[c].read = [f \in Files |-> 0]
    BY <1>4, NoRunParts, GitAssumption DEF Ask
  <2>2. QED
    BY <1>4, <1>i, <1>o, <2>1, AtRest DEF Ask, NothingIsLost
<1>5. ASSUME NEW c \in Clients, BeginClone(c) PROVE CheckoutInv'
  <2>1. client'[c].at = "clone" /\ client'[c].read = [f \in Files |-> 0]
    BY <1>5, <1>i DEF BeginClone, RunInv, Unread, Client
  <2>2. NothingIsLost'
    BY <1>5 DEF BeginClone, NothingIsLost, NoCheckout, NoRefs
  <2>3. QED
    BY <1>o, <2>1, <2>2, AtRest
<1>6. ASSUME NEW c \in Clients, EndClone(c) PROVE CheckoutInv'
  <2>1. /\ client'[c].at = "resolve" /\ client'[c].seen = remote
        /\ client'[c].read = client[c].read /\ client[c].at = "clone"
    BY <1>6 DEF EndClone, Client
  <2>2. checkout'.branch = remote.branch /\ checkout'.tag = remote.tag /\ remote' = remote
    BY <1>6 DEF EndClone, Checkout
  <2>3. RunInv(c)'
    BY <2>1, <2>2, <1>i DEF RunInv, CheckedOut, Named, Unread, ReadSoFar, AsSeen, Chosen
  <2>4. NothingIsLost'
    BY <2>2 DEF NothingIsLost
  <2>5. QED
    BY <1>o, <2>3, <2>4
<1>7. ASSUME NEW c \in Clients, Fetch(c) PROVE CheckoutInv'
  <2>1. remote' = remote /\ checkout' = Fetched
    BY <1>7 DEF Fetch
  <2>2. NothingIsLost'
    BY <2>1, <1>i, <1>t DEF Fetched, Merged, Checkout, NothingIsLost, Refs
  <2>3. CASE Clobbers
    <3>1. client'[c] = NoRun
      BY <1>7, <2>3 DEF Fetch, AfterFailure
    <3>2. QED
      BY <1>o, <2>2, <3>1, NoRunParts, AtRest
  <2>4. CASE ~Clobbers
    <3>1. /\ client'[c].at = "resolve" /\ client'[c].seen = remote
          /\ client'[c].read = client[c].read /\ client[c].at = "ensure"
      BY <1>7, <2>4 DEF Fetch, Client
    <3>2. checkout'.branch = remote.branch /\ checkout'.tag = remote.tag
      BY <2>1, <2>4, <1>i, FetchBrings
    <3>3. RunInv(c)'
      BY <3>1, <3>2, <1>i DEF RunInv, CheckedOut, Named, Unread, ReadSoFar, AsSeen, Chosen
    <3>4. QED
      BY <1>o, <2>2, <3>3
  <2>5. QED
    BY <2>3, <2>4
<1>8. ASSUME NEW c \in Clients, BeginCheckout(c) PROVE CheckoutInv'
  <2> DEFINE r == client[c].request
             seen == IF Found(Candidates(r)) = {} THEN remote ELSE client[c].seen
  <2>1. PICK k \in Commits, mixed \in [Files -> 0..LastCommit] :
            /\ Resolves(client[c].request, k)
            /\ checkout' = [checkout EXCEPT !.locked = TRUE, !.files = mixed]
            /\ client' = [client EXCEPT ![c].at = "checkout", ![c].commit = k, ![c].seen = seen]
    BY <1>8 DEF BeginCheckout
  <2>2. /\ client[c].at = "resolve" /\ client'[c].at = "checkout" /\ client'[c].commit = k
        /\ client'[c].seen = seen /\ client'[c].request = r
        /\ client'[c].read = client[c].read
    BY <1>8, <2>1 DEF BeginCheckout, Client
  <2>3. /\ checkout'.branch = checkout.branch /\ checkout'.tag = checkout.tag
        /\ checkout'.local = checkout.local /\ remote' = remote
    BY <1>8, <2>1 DEF BeginCheckout, Checkout
  <2>4. k = CASE r.form = "bare" /\ seen.tag[r.name] # 0 -> seen.tag[r.name]
              [] r.form = "full" /\ checkout.local[r.name] # 0 -> checkout.local[r.name]
              [] OTHER -> seen.branch[r.name]
    BY <1>i, <2>1, <2>2, ResolvesWanted DEF RunInv
  <2> HIDE DEF seen, r
  <2>5. Wanted(c)' = k
    BY <2>2, <2>3, <2>4 DEF Wanted
  <2>6. RunInv(c)'
    BY <2>2, <2>5, <1>i DEF RunInv, CheckedOut, Named, Unread, ReadSoFar, AsSeen, Chosen
  <2>7. QED
    BY <1>o, <1>i, <2>3, <2>6 DEF NothingIsLost
<1>9. ASSUME NEW c \in Clients, EndCheckout(c) PROVE CheckoutInv'
  <2>1. /\ client[c].at = "checkout" /\ client'[c].at = "name"
        /\ client'[c].commit = client[c].commit /\ client'[c].seen = client[c].seen
        /\ client'[c].request = client[c].request /\ client'[c].read = client[c].read
    BY <1>9 DEF EndCheckout, Client
  <2>2. /\ checkout'.branch = checkout.branch /\ checkout'.tag = checkout.tag
        /\ checkout'.local = checkout.local /\ remote' = remote
        /\ checkout'.head = client[c].commit /\ checkout'.files = FilesOf(client[c].commit)
    BY <1>9 DEF EndCheckout, Checkout
  <2>3. Wanted(c)' = Wanted(c)
    BY <2>1, <2>2 DEF Wanted
  <2>4. client[c].commit \in Commits /\ client[c].commit = Wanted(c)
    BY <1>i, <2>1 DEF RunInv, Chosen
  <2>5. RunInv(c)'
    BY <2>1, <2>2, <2>3, <2>4, <1>i
       DEF RunInv, CheckedOut, Named, Unread, ReadSoFar, AsSeen, Chosen
  <2>6. QED
    BY <1>o, <1>i, <2>2, <2>5 DEF NothingIsLost
<1>10. ASSUME NEW c \in Clients, NameCommit(c) PROVE CheckoutInv'
  <2>1. /\ client[c].at = "name" /\ client'[c].at = "list"
        /\ client'[c].commit = checkout.head /\ client'[c].seen = client[c].seen
        /\ client'[c].request = client[c].request /\ client'[c].read = client[c].read
        /\ checkout' = checkout /\ remote' = remote
    BY <1>10 DEF NameCommit, Client
  <2>2. client[c].commit = checkout.head
    BY <1>i, <2>1 DEF RunInv, Named
  <2>3. Wanted(c)' = Wanted(c)
    BY <2>1 DEF Wanted
  <2>4. RunInv(c)'
    BY <2>1, <2>2, <2>3, <1>i DEF RunInv, CheckedOut, Named, Unread, ReadSoFar, AsSeen, Chosen
  <2>5. QED
    BY <1>o, <1>i, <2>1, <2>4 DEF NothingIsLost
<1>11. ASSUME NEW c \in Clients, ListFiles(c) PROVE CheckoutInv'
  <2>1. /\ client[c].at = "list" /\ client'[c].at = "read"
        /\ client'[c].todo = Tracked[checkout.head]
        /\ client'[c].commit = client[c].commit /\ client'[c].seen = client[c].seen
        /\ client'[c].request = client[c].request /\ client'[c].read = client[c].read
        /\ checkout' = checkout /\ remote' = remote
    BY <1>11 DEF ListFiles, Client
  <2>2. Wanted(c)' = Wanted(c)
    BY <2>1 DEF Wanted
  <2>3. /\ client[c].read = [f \in Files |-> 0]
        /\ checkout.head \in Commits /\ checkout.files = FilesOf(checkout.head)
    BY <1>i, <2>1 DEF RunInv, Unread, CheckedOut
  <2>4. ReadSoFar(c)'
    BY <2>1, <2>3 DEF ReadSoFar, FilesOf
  <2>5. RunInv(c)'
    BY <2>1, <2>2, <2>4, <1>i DEF RunInv, CheckedOut, Named, Unread, AsSeen, Chosen
  <2>6. QED
    BY <1>o, <1>i, <2>1, <2>5 DEF NothingIsLost
<1>12. ASSUME NEW c \in Clients, NEW f \in Files, ReadFile(c, f) PROVE CheckoutInv'
  <2>1. /\ client[c].at = "read" /\ client'[c].at = "read"
        /\ client'[c].todo = client[c].todo \ {f}
        /\ client'[c].commit = client[c].commit /\ client'[c].seen = client[c].seen
        /\ client'[c].request = client[c].request
        /\ client'[c].read = [client[c].read EXCEPT ![f] = checkout.files[f]]
        /\ checkout' = checkout /\ remote' = remote
    BY <1>12 DEF ReadFile, Client
  <2>2. Wanted(c)' = Wanted(c)
    BY <2>1 DEF Wanted
  <2>3. ReadSoFar(c)'
    BY <2>1, <1>i DEF RunInv, ReadSoFar, Client
  <2>4. RunInv(c)'
    BY <2>1, <2>2, <2>3, <1>i DEF RunInv, CheckedOut, Named, Unread, AsSeen, Chosen
  <2>5. QED
    BY <1>o, <1>i, <2>1, <2>4 DEF NothingIsLost
<1>13. ASSUME NEW c \in Clients, Deliver(c) PROVE CheckoutInv'
  <2>1. client'[c] = NoRun /\ checkout' = checkout /\ remote' = remote
    BY <1>13 DEF Deliver
  <2>2. QED
    BY <1>o, <1>i, <2>1, NoRunParts, AtRest DEF NothingIsLost
<1>14. ASSUME NEW c \in Clients, EndsEarly(c) PROVE CheckoutInv'
  <2>1. client'[c] = NoRun /\ checkout' \in {checkout, NoCheckout} /\ remote' = remote
    BY <1>14 DEF EndsEarly, AfterFailure
  <2>2. NothingIsLost'
    BY <1>i, <2>1 DEF NothingIsLost, NoCheckout, NoRefs
  <2>3. QED
    BY <1>o, <2>1, <2>2, NoRunParts, AtRest
<1>15. CASE UNCHANGED gitVars
  BY <1>15, RemoteMoves DEF gitVars
<1>16. QED
  BY <1>1, <1>2, <1>3, <1>4, <1>5, <1>6, <1>7, <1>8, <1>9, <1>10, <1>11, <1>12, <1>13, <1>14,
     <1>15 DEF GitNext

\* The invariant of runs that do not overlap.
THEOREM CheckoutInvariant ==
    ASSUME OneAtATime
    PROVE  GitSpec => []CheckoutInv
<1>1. GitTypeOK /\ CheckoutInv /\ [GitNext]_gitVars => CheckoutInv'
  BY CheckoutStep
<1>2. QED
  BY <1>1, CheckoutInit, GitTypeCorrect, PTL DEF GitSpec

\* If runs do not overlap, the files of a snapshot are those of the commit that
\* it names, whatever clone, fetch or checkout died before it.
THEOREM SnapshotsAreCommits ==
    ASSUME OneAtATime
    PROVE  GitSpec => []SnapshotIsOneCommit
<1>1. GitTypeOK /\ CheckoutInv => SnapshotIsOneCommit
  <2>1. SUFFICES ASSUME GitTypeOK, CheckoutInv, NEW c \in Clients, Done(c)
                 PROVE  client[c].read = FilesOf(client[c].commit)
    BY DEF SnapshotIsOneCommit
  <2>2. /\ checkout.files = FilesOf(checkout.head) /\ client[c].commit = checkout.head
        /\ \A f \in Files : client[c].read[f] = checkout.files[f]
    BY <2>1 DEF Done, CheckoutInv, RunInv, CheckedOut, Named, ReadSoFar
  <2>3. client[c].read \in [Files -> 0..LastCommit] /\ checkout.files \in [Files -> 0..LastCommit]
    BY <2>1, CheckoutParts DEF GitTypeOK, Client
  <2>4. QED
    BY <2>2, <2>3
<1>2. QED
  BY <1>1, GitTypeCorrect, CheckoutInvariant, PTL

\* If runs do not overlap, what a snapshot names is what its reference named on
\* the remote when the run last looked, for any tags and branches that come and
\* move between runs.
THEOREM RefsAreFresh ==
    ASSUME OneAtATime
    PROVE  GitSpec => []RefIsFresh
<1>1. CheckoutInv => RefIsFresh
  BY DEF RefIsFresh, CheckoutInv, RunInv, Chosen, Wanted, Done
<1>2. QED
  BY <1>1, CheckoutInvariant, PTL

-----------------------------------------------------------------------------
(* GitHubMetadata.                                                         *)

Flags == {"dry", "stale", "orphans"}

-----------------------------------------------------------------------------
(* The rank of a record in the list.                                       *)

Newer(open, n) == {m \in open : m > n}

LEMMA OpenIsFinite ==
    ASSUME NEW open \in SUBSET Records
    PROVE  /\ IsFiniteSet(open)
           /\ Cardinality(open) \in Nat
           /\ \A n \in Records : /\ IsFiniteSet(Newer(open, n))
                                 /\ Cardinality(Newer(open, n)) \in Nat
<1>1. IsFiniteSet(Records)
  BY GitHubAssumption, FS_Interval DEF Records
<1>2. IsFiniteSet(open) /\ Cardinality(open) \in Nat
  BY <1>1, FS_Subset, FS_CardinalityType
<1>3. ASSUME NEW n \in Records
      PROVE  IsFiniteSet(Newer(open, n)) /\ Cardinality(Newer(open, n)) \in Nat
  <2>1. Newer(open, n) \subseteq open
    BY DEF Newer
  <2>2. QED
    BY <1>2, <2>1, FS_Subset, FS_CardinalityType
<1>4. QED
  BY <1>2, <1>3

LEMMA BeforeIsNewer ==
    ASSUME NEW n
    PROVE  Before(n) = Cardinality(Newer(tracker.open, n))
BY DEF Before, Newer

\* An open record has its place in the list.
LEMMA RankInList ==
    ASSUME NEW open \in SUBSET Records, NEW n \in open
    PROVE  Cardinality(Newer(open, n)) < Cardinality(open)
<1>1. Newer(open, n) \subseteq open \ {n}
  BY DEF Newer, Records
<1>2. IsFiniteSet(open) /\ IsFiniteSet(open \ {n})
  BY OpenIsFinite, FS_RemoveElement
<1>3. Cardinality(open \ {n}) = Cardinality(open) - 1
  BY <1>2, FS_RemoveElement
<1>4. Cardinality(Newer(open, n)) <= Cardinality(open \ {n})
  BY <1>1, <1>2, FS_Subset
<1>5. Cardinality(Newer(open, n)) \in Nat /\ Cardinality(open) \in Nat
  BY OpenIsFinite
<1>6. QED
  BY <1>3, <1>4, <1>5

\* Opening records moves others towards the end, closing towards the beginning.
LEMMA RankGrows ==
    ASSUME NEW open \in SUBSET Records, NEW more \in SUBSET Records, open \subseteq more,
           NEW n \in Records
    PROVE  Cardinality(Newer(open, n)) <= Cardinality(Newer(more, n))
<1>1. Newer(open, n) \subseteq Newer(more, n)
  BY DEF Newer
<1>2. QED
  BY <1>1, OpenIsFinite, FS_Subset

LEMMA BeforeType ==
    ASSUME tracker.open \in SUBSET Records, NEW n \in Records
    PROVE  Before(n) \in Nat
BY OpenIsFinite, BeforeIsNewer

-----------------------------------------------------------------------------
(* Type correctness.                                                       *)

\* What is written was listed, and has a last text.
WritesListed == listing.writes \subseteq Listed(listing.copies)

TypeInv == GHTypeOK /\ WritesListed

LEMMA NoListingType == NoListing \in Listing /\ NoListing.writes = {} /\ NoCopies \in Copies
<1>1. NoCopies \in Copies
  BY DEF NoCopies, Copies
<1>2. QED
  BY <1>1 DEF NoListing, Listing

LEMMA LastType ==
    ASSUME NEW s \in Seq(Texts), s # <<>>
    PROVE  Last(s) \in Texts /\ Len(s) \in Nat \ {0}
BY DEF Last

LEMMA TypeInit == GHInit => TypeInv
<1>1. SUFFICES ASSUME GHInit PROVE TypeInv
  OBVIOUS
<1>2. NoListing \in Listing /\ NoListing.writes = {} /\ NoCopies \in Copies
  BY NoListingType
<1>3. tracker \in Tracker
  BY <1>1, GitHubAssumption DEF GHInit, Tracker, Records, Texts
<1>4. output \in Output
  BY <1>1, <1>2 DEF GHInit, Output
<1>5. QED
  BY <1>1, <1>2, <1>3, <1>4, GitHubAssumption DEF GHInit, TypeInv, GHTypeOK, WritesListed

LEMMA TypeStep == TypeInv /\ [GHNext]_ghVars => TypeInv'
<1>0. SUFFICES ASSUME TypeInv, [GHNext]_ghVars PROVE TypeInv'
  OBVIOUS
<1> USE <1>0 DEF TypeInv, GHTypeOK, WritesListed
<1>t. /\ NoListing \in Listing /\ NoListing.writes = {} /\ NoCopies \in Copies
      /\ quota - 1 \in 0..Quota \/ quota = 0
  BY NoListingType, GitHubAssumption
<1>a. ASSUME Arrive
      PROVE  /\ listing' \in Listing
             /\ listing'.copies = listing.copies /\ listing'.writes = listing.writes
  BY <1>a DEF Arrive, Listing
<1>1. ASSUME NEW flags \in FlagChoices, BeginListing(flags) PROVE TypeInv'
  <2>1. NewListing(flags) \in Listing
    BY <1>t, GitHubAssumption DEF NewListing, Listing, Tracker
  <2>2. QED
    BY <1>1, <2>1, <1>t DEF BeginListing, NewListing
<1>2. CASE ReadPage
  <2> DEFINE page == OnPage(listing.from)
             read == [n \in Records |-> IF n \in page THEN Append(listing.copies[n], tracker.text[n])
                                                      ELSE listing.copies[n]]
  <2>1. ASSUME NEW n \in Records
        PROVE  /\ read[n] \in Seq(Texts)
               /\ listing.copies[n] # <<>> => read[n] # <<>>
    <3>1. listing.copies[n] \in Seq(Texts) /\ tracker.text[n] \in Texts
      BY DEF Listing, Copies, Tracker
    <3>2. /\ Append(listing.copies[n], tracker.text[n]) \in Seq(Texts)
          /\ Append(listing.copies[n], tracker.text[n]) # <<>>
      BY <3>1
    <3>3. QED
      BY <3>1, <3>2
  <2>2. read \in Copies
    BY <2>1 DEF Copies
  <2>3. listing' = [listing EXCEPT !.copies = read, !.from = listing.from + PageSize,
                                   !.at = IF IsLastPage(listing.from) THEN "load" ELSE "list"]
    BY <1>2 DEF ReadPage
  <2> HIDE DEF read
  <2>a. listing.from + PageSize \in Nat
    BY GitHubAssumption DEF Listing
  <2>4. listing' \in Listing
    BY <2>2, <2>3, <2>a DEF Listing
  <2>5. listing'.writes = listing.writes /\ listing'.copies = read
    BY <2>3 DEF Listing
  <2>6. Listed(listing.copies) \subseteq Listed(listing'.copies)
    BY <2>1, <2>5 DEF Listed
  <2>7. QED
    BY <1>2, <2>4, <2>5, <2>6 DEF ReadPage
<1>3. CASE PlanListing
  <2>1. /\ StaleFiles \subseteq Records /\ OrphanFiles \subseteq Records
        /\ {n \in Records : \E i \in DOMAIN listing.copies[n] : ~Same(n, listing.copies[n][i])}
               \subseteq Listed(listing.copies)
    BY DEF StaleFiles, OrphanFiles, Written, Listed, Listing, Copies
  <2>2. Listed(listing.copies) \subseteq Records
    BY DEF Listed
  <2>3. listing' \in Listing /\ listing'.writes \subseteq Listed(listing'.copies)
    BY <1>3, <1>t, <2>1, <2>2 DEF PlanListing, Listing
  <2>4. QED
    BY <1>3, <2>3 DEF PlanListing
<1>4. CASE RefuseManifest
  BY <1>4, <1>t DEF RefuseManifest
<1>5. CASE WriteListing
  BY <1>5 DEF WriteListing, Listing, Output
<1>6. CASE FinishListing
  BY <1>6, <1>t DEF FinishListing
<1>7. CASE FailListing
  <2>1. output' \in Output
    <3>1. CASE UNCHANGED output
      BY <3>1
    <3>2. ASSUME NEW n \in listing.writes, output' = [output EXCEPT !.file[n] = Torn]
          PROVE  output' \in Output
      BY <3>2 DEF Output
    <3>3. CASE output' = [output EXCEPT !.manifest = "torn", !.entries = NoCopies]
      BY <3>3, <1>t DEF Output
    <3>4. QED
      BY <1>7, <3>1, <3>2, <3>3 DEF FailListing
  <2>2. QED
    BY <1>7, <1>t, <2>1 DEF FailListing, UseQuota
<1>8. CASE DropManifest
  BY <1>8, <1>t DEF DropManifest, Output
<1>9. ASSUME NEW n \in Records, OpenRecord(n) PROVE TypeInv'
  <2>1. tracker' \in Tracker
    <3>1. n \in 0..LastRecord
      BY GitHubAssumption DEF Records
    <3>2. tracker' = [tracker EXCEPT !.last = n, !.open = tracker.open \cup {n}]
      BY <1>9 DEF OpenRecord
    <3>3. QED
      BY <3>1, <3>2 DEF Tracker
  <2>2. quota' \in 0..Quota /\ output' = output
    BY <1>9, <1>t DEF OpenRecord, UseQuota
  <2>3. QED
    BY <1>9, <1>a, <2>1, <2>2 DEF OpenRecord
<1>10. ASSUME NEW n \in Records, ReopenRecord(n) PROVE TypeInv'
  <2>1. tracker' \in Tracker
    <3>1. PICK t \in Texts :
              tracker' = [tracker EXCEPT !.open = tracker.open \cup {n}, !.text[n] = t]
      BY <1>10 DEF ReopenRecord
    <3>2. [tracker.text EXCEPT ![n] = t] \in [Records -> Texts]
      BY DEF Tracker
    <3>3. QED
      BY <3>1, <3>2 DEF Tracker
  <2>2. quota' \in 0..Quota /\ output' = output
    BY <1>10, <1>t DEF ReopenRecord, UseQuota
  <2>3. QED
    BY <1>10, <1>a, <2>1, <2>2 DEF ReopenRecord
<1>11. ASSUME NEW n \in Records, CloseRecord(n) PROVE TypeInv'
  <2>1. tracker' \in Tracker
    BY <1>11 DEF CloseRecord, Tracker
  <2>2. quota' \in 0..Quota /\ output' = output
    BY <1>11, <1>t DEF CloseRecord, UseQuota
  <2>3. /\ listing' \in Listing
        /\ listing'.copies = listing.copies /\ listing'.writes = listing.writes
    BY <1>11 DEF CloseRecord, Listing
  <2>4. QED
    BY <2>1, <2>2, <2>3
<1>12. ASSUME NEW n \in Records, EditRecord(n) PROVE TypeInv'
  BY <1>12, <1>t DEF EditRecord, UseQuota, Tracker
<1>13. ASSUME NEW n \in Records, WriteRecord(n) PROVE TypeInv'
  <2>1. listing.copies[n] \in Seq(Texts) /\ listing.copies[n] # <<>>
    BY <1>13 DEF WriteRecord, Listed, Listing, Copies
  <2>2. WriteText(n) \in Texts
    BY <2>1, LastType DEF WriteText
  <2>3. QED
    BY <1>13, <2>2 DEF WriteRecord, Listing, Output
<1>14. ASSUME NEW n \in Records, PruneFile(n) PROVE TypeInv'
  BY <1>14 DEF PruneFile, Listing, Output
<1>15. CASE UNCHANGED ghVars
  BY <1>15 DEF ghVars
<1>16. QED
  BY <1>1, <1>2, <1>3, <1>4, <1>5, <1>6, <1>7, <1>8, <1>9, <1>10, <1>11, <1>12, <1>13, <1>14,
     <1>15 DEF GHNext

\* The variables of the command keep their types.
THEOREM GHTypeCorrect == GHSpec => []GHTypeOK
<1>1. TypeInv => GHTypeOK
  BY DEF TypeInv
<1>2. QED
  BY <1>1, TypeInit, TypeStep, PTL DEF GHSpec

-----------------------------------------------------------------------------
(* Paging: what was read is before the next page, what was not is behind.  *)

StayedIsOpen == listing.at # "idle" => listing.stayed \subseteq tracker.open

Once == \A n \in Records : Len(listing.copies[n]) <= 1

ReadIsBefore == \A n \in tracker.open : listing.copies[n] # <<>> => Before(n) < listing.from

UnreadIsBehind == \A n \in listing.stayed : listing.copies[n] # <<>> \/ listing.from <= Before(n)

AllStayedListed == listing.stayed \subseteq Listed(listing.copies)

Still == "in" \notin listing.moved      \* nothing was opened
Held == "out" \notin listing.moved      \* nothing was closed

PagingInv ==
    /\ StayedIsOpen
    /\ listing.at = "list" /\ Still => Once /\ ReadIsBefore
    /\ listing.at = "list" /\ Held => UnreadIsBehind
    /\ listing.at = "load" /\ Still => Once
    /\ listing.at \in {"load", "write", "prune"} /\ Held => AllStayedListed
    /\ listing.at \in {"write", "prune"} => listing.prunes \cap Listed(listing.copies) = {}

LEMMA PagingInit == GHInit => PagingInv
BY DEF GHInit, PagingInv, NoListing, StayedIsOpen

\* No run: nothing to show.
LEMMA PagingIdle ==
    ASSUME listing' = NoListing
    PROVE  PagingInv'
BY DEF PagingInv, NoListing, StayedIsOpen

\* A record is opened.
LEMMA PagingArrive ==
    ASSUME TypeInv, TypeInv', PagingInv, NEW n \in Records,
           tracker'.open = tracker.open \cup {n}, Arrive
    PROVE  PagingInv'
<1> USE DEF TypeInv, GHTypeOK
<1>1. CASE listing.at = "idle"
  BY <1>1 DEF Arrive, PagingInv, StayedIsOpen
<1>2. CASE listing.at # "idle"
  <2>1. /\ listing'.at = listing.at /\ listing'.copies = listing.copies
        /\ listing'.from = listing.from /\ listing'.stayed = listing.stayed
        /\ listing'.prunes = listing.prunes /\ listing'.moved = listing.moved \cup {"in"}
    BY <1>2 DEF Arrive, Listing
  <2>2. StayedIsOpen'
    BY <1>2, <2>1 DEF PagingInv, StayedIsOpen
  <2>3. ~Still' /\ (Held' => Held)
    BY <2>1 DEF Still, Held
  <2>4. ASSUME UnreadIsBehind PROVE UnreadIsBehind'
    <3>1. ASSUME NEW m \in listing.stayed PROVE Before(m) <= Before(m)'
      <4>1. /\ tracker.open \in SUBSET Records /\ tracker'.open \in SUBSET Records
            /\ tracker.open \subseteq tracker'.open /\ m \in Records
        BY DEF Tracker, Listing
      <4>2. QED
        BY <4>1, RankGrows DEF Before, Newer
    <3>2. ASSUME NEW m \in listing.stayed
          PROVE  Before(m) \in Nat /\ Before(m)' \in Nat /\ listing.from \in Nat
      <4>1. /\ tracker.open \in SUBSET Records /\ tracker'.open \in SUBSET Records
            /\ m \in Records
        BY DEF Tracker, Listing
      <4>2. QED
        BY <4>1, OpenIsFinite DEF Before, Newer, Listing
    <3>3. QED
      BY <2>1, <2>4, <3>1, <3>2 DEF UnreadIsBehind
  <2>5. (AllStayedListed => AllStayedListed') /\ Listed(listing'.copies) = Listed(listing.copies)
    BY <2>1 DEF AllStayedListed, Listed
  <2>6. QED
    BY <2>1, <2>2, <2>3, <2>4, <2>5 DEF PagingInv
<1>3. QED
  BY <1>1, <1>2

\* A record is closed.
LEMMA PagingLeave ==
    ASSUME TypeInv, TypeInv', PagingInv, NEW n \in Records, CloseRecord(n)
    PROVE  PagingInv'
<1> USE DEF TypeInv, GHTypeOK
<1>1. CASE listing.at = "idle"
  BY <1>1 DEF CloseRecord, PagingInv, StayedIsOpen
<1>2. CASE listing.at # "idle"
  <2>1. /\ listing'.at = listing.at /\ listing'.copies = listing.copies
        /\ listing'.from = listing.from /\ listing'.stayed = listing.stayed \ {n}
        /\ listing'.prunes = listing.prunes /\ listing'.moved = listing.moved \cup {"out"}
        /\ tracker'.open = tracker.open \ {n}
    BY <1>2 DEF CloseRecord, Listing, Tracker
  <2>2. StayedIsOpen'
    BY <1>2, <2>1 DEF PagingInv, StayedIsOpen
  <2>3. ~Held' /\ (Still' => Still)
    BY <2>1 DEF Still, Held
  <2>4. ASSUME ReadIsBefore PROVE ReadIsBefore'
    <3>1. ASSUME NEW m \in tracker'.open
          PROVE  Before(m)' <= Before(m) /\ Before(m) \in Nat /\ Before(m)' \in Nat /\ m \in tracker.open
      <4>1. /\ tracker.open \in SUBSET Records /\ tracker'.open \in SUBSET Records
            /\ tracker'.open \subseteq tracker.open /\ m \in Records
        BY <2>1 DEF Tracker
      <4>2. QED
        BY <4>1, RankGrows, OpenIsFinite DEF Before, Newer
    <3>2. listing.from \in Nat
      BY DEF Listing
    <3>3. QED
      BY <2>1, <2>4, <3>1, <3>2 DEF ReadIsBefore
  <2>5. (Once => Once') /\ Listed(listing'.copies) = Listed(listing.copies)
    BY <2>1 DEF Once, Listed
  <2>6. QED
    BY <2>1, <2>2, <2>3, <2>4, <2>5 DEF PagingInv
<1>3. QED
  BY <1>1, <1>2

\* A page is read.
LEMMA PagingRead ==
    ASSUME TypeInv, TypeInv', PagingInv, ReadPage
    PROVE  PagingInv'
<1> USE DEF TypeInv, GHTypeOK
<1> DEFINE from == listing.from
           page == OnPage(from)
<1>1. /\ from \in Nat /\ PageSize \in Nat \ {0}
      /\ tracker.open \in SUBSET Records /\ listing.stayed \in SUBSET Records
      /\ \A n \in Records : Before(n) \in Nat
      /\ \A n \in Records : listing.copies[n] \in Seq(Texts) /\ tracker.text[n] \in Texts
  BY GitHubAssumption, BeforeType DEF Listing, Tracker, Copies
<1>2. /\ listing.at = "list"
      /\ listing'.stayed = listing.stayed /\ listing'.moved = listing.moved
      /\ listing'.from = from + PageSize
      /\ listing'.at = IF IsLastPage(from) THEN "load" ELSE "list"
      /\ \A n \in Records : listing'.copies[n] = IF n \in page
                THEN Append(listing.copies[n], tracker.text[n]) ELSE listing.copies[n]
      /\ tracker' = tracker
  BY DEF ReadPage, Listing, Copies
<1>3. \A n \in Records : Before(n)' = Before(n)
  BY <1>2 DEF Before
<1>4. \A n \in Records : n \in page <=>
          n \in tracker.open /\ from <= Before(n) /\ Before(n) < from + PageSize
  BY DEF OnPage
<1>5. \A n \in Records : listing'.copies[n] # <<>> <=> n \in page \/ listing.copies[n] # <<>>
  <2>1. ASSUME NEW n \in Records
        PROVE  Append(listing.copies[n], tracker.text[n]) # <<>>
    BY <1>1
  <2>2. QED
    BY <1>2, <2>1
<1>6. StayedIsOpen'
  BY <1>2 DEF StayedIsOpen, PagingInv
<1>7. ASSUME Still PROVE Once' /\ ReadIsBefore'
  <2>1. Once /\ ReadIsBefore
    BY <1>2, <1>7 DEF PagingInv
  <2>2. ASSUME NEW n \in Records PROVE Len(listing'.copies[n]) <= 1
    <3>1. CASE n \in page
      <4>1. listing.copies[n] = <<>>
        BY <1>1, <1>4, <2>1, <3>1 DEF ReadIsBefore
      <4>2. listing'.copies[n] = Append(<<>>, tracker.text[n])
        BY <1>2, <3>1, <4>1
      <4>3. QED
        BY <4>2
    <3>2. CASE n \notin page
      BY <1>2, <2>1, <3>2 DEF Once
    <3>3. QED
      BY <3>1, <3>2
  <2>3. ASSUME NEW n \in tracker'.open, listing'.copies[n] # <<>>
        PROVE  Before(n)' < listing'.from
    <3>1. n \in Records /\ n \in tracker.open
      BY <1>1, <1>2, <2>3
    <3>2. CASE n \in page
      BY <1>1, <1>2, <1>3, <1>4, <3>1, <3>2
    <3>3. CASE listing.copies[n] # <<>>
      BY <1>1, <1>2, <1>3, <2>1, <3>1, <3>3 DEF ReadIsBefore
    <3>4. QED
      BY <1>5, <2>3, <3>1, <3>2, <3>3
  <2>4. QED
    BY <2>2, <2>3 DEF Once, ReadIsBefore
<1>8. ASSUME Held PROVE UnreadIsBehind'
  <2>1. UnreadIsBehind
    BY <1>2, <1>8 DEF PagingInv
  <2>2. ASSUME NEW n \in listing.stayed, listing'.copies[n] = <<>>
        PROVE  from + PageSize <= Before(n)
    <3>1. n \in Records /\ n \in tracker.open
      BY <1>1, <1>2, <2>2 DEF PagingInv, StayedIsOpen
    <3>2. listing.copies[n] = <<>> /\ n \notin page
      BY <1>5, <2>2, <3>1
    <3>3. from <= Before(n)
      BY <2>1, <3>2 DEF UnreadIsBehind
    <3>4. QED
      BY <1>1, <1>4, <3>1, <3>2, <3>3
  <2>3. QED
    BY <1>1, <1>2, <1>3, <2>2 DEF UnreadIsBehind
<1>9. ASSUME Held, IsLastPage(from) PROVE AllStayedListed'
  <2>1. ASSUME NEW n \in listing.stayed, listing'.copies[n] = <<>> PROVE FALSE
    <3>1. n \in Records /\ n \in tracker.open
      BY <1>1, <1>2 DEF PagingInv, StayedIsOpen
    <3>2. from + PageSize <= Before(n)
      BY <1>1, <1>2, <1>3, <1>8, <1>9, <2>1, <3>1 DEF UnreadIsBehind
    <3>3. Before(n) < Cardinality(tracker.open) /\ Cardinality(tracker.open) \in Nat
      BY <1>1, <3>1, RankInList, OpenIsFinite DEF Before, Newer
    <3>4. Cardinality(tracker.open) <= from + PageSize
      BY <1>1, <1>9, <3>3 DEF IsLastPage
    <3>5. QED
      BY <1>1, <3>1, <3>2, <3>3, <3>4
  <2>2. QED
    BY <1>1, <1>2, <2>1 DEF AllStayedListed, Listed
<1>10. /\ Still' = Still /\ Held' = Held
       /\ listing'.at \in {"list", "load"} /\ (listing'.at = "load" => IsLastPage(from))
  BY <1>2 DEF Still, Held
<1>11. QED
  BY <1>6, <1>7, <1>8, <1>9, <1>10 DEF PagingInv

\* Everything else leaves the list and what was read of it alone.
LEMMA PagingRest ==
    ASSUME TypeInv, PagingInv,
           tracker'.open = tracker.open, UNCHANGED listing
    PROVE  PagingInv'
<1>1. \A n \in Records : Before(n)' = Before(n)
  BY DEF Before
<1>2. (ReadIsBefore => ReadIsBefore') /\ (UnreadIsBehind => UnreadIsBehind')
  <2>1. tracker.open \subseteq Records /\ listing.stayed \subseteq Records
    BY DEF TypeInv, GHTypeOK, Tracker, Listing
  <2>2. QED
    BY <1>1, <2>1 DEF ReadIsBefore, UnreadIsBehind
<1>3. QED
  BY <1>2 DEF PagingInv, StayedIsOpen, Once, AllStayedListed, Listed, Still, Held

LEMMA PagingStep == TypeInv /\ TypeInv' /\ PagingInv /\ [GHNext]_ghVars => PagingInv'
<1>0. SUFFICES ASSUME TypeInv, TypeInv', PagingInv, [GHNext]_ghVars PROVE PagingInv'
  OBVIOUS
<1> USE <1>0
<1>1. ASSUME NEW flags \in FlagChoices, BeginListing(flags) PROVE PagingInv'
  <2>1. /\ tracker.open \in SUBSET Records
        /\ listing' = NewListing(flags) /\ tracker' = tracker
    BY <1>1 DEF BeginListing, TypeInv, GHTypeOK, Tracker
  <2>2. \A n \in Records : Before(n)' \in Nat
    BY <2>1, OpenIsFinite DEF Before, Newer
  <2>3. StayedIsOpen'
    BY <2>1 DEF StayedIsOpen, NewListing
  <2>4. Once' /\ ReadIsBefore'
    BY <2>1 DEF Once, ReadIsBefore, NewListing, NoCopies
  <2>5. UnreadIsBehind'
    BY <2>1, <2>2 DEF UnreadIsBehind, NewListing
  <2>6. listing'.at = "list"
    BY <2>1 DEF NewListing
  <2>7. QED
    BY <2>3, <2>4, <2>5, <2>6 DEF PagingInv
<1>2. CASE ReadPage
  BY <1>2, PagingRead
<1>3. CASE PlanListing
  <2>1. CASE listing' = NoListing
    BY <2>1, PagingIdle
  <2>2. CASE listing' # NoListing
    <3>1. /\ listing.at = "load" /\ listing'.at = "write" /\ tracker' = tracker
          /\ listing'.copies = listing.copies /\ listing'.moved = listing.moved
          /\ listing'.stayed = listing.stayed
          /\ listing'.prunes = (IF "stale" \in listing.flags THEN StaleFiles ELSE {})
                                \cup (IF "orphans" \in listing.flags THEN OrphanFiles ELSE {})
      BY <1>3, <2>2 DEF PlanListing, TypeInv, GHTypeOK, Listing
    <3>2. listing'.prunes \cap Listed(listing'.copies) = {}
      BY <3>1 DEF StaleFiles, OrphanFiles
    <3>3. QED
      BY <3>1, <3>2 DEF PagingInv, StayedIsOpen, AllStayedListed, Listed, Held
  <2>3. QED
    BY <2>1, <2>2
<1>4. CASE RefuseManifest
  BY <1>4, PagingIdle DEF RefuseManifest
<1>5. CASE WriteListing
  <2>1. /\ listing.at = "write" /\ listing'.at = "prune" /\ tracker' = tracker
        /\ listing'.copies = listing.copies /\ listing'.moved = listing.moved
        /\ listing'.stayed = listing.stayed /\ listing'.prunes = listing.prunes
    BY <1>5 DEF WriteListing, TypeInv, GHTypeOK, Listing
  <2>2. QED
    BY <2>1 DEF PagingInv, StayedIsOpen, AllStayedListed, Listed, Held
<1>6. CASE FinishListing
  BY <1>6, PagingIdle DEF FinishListing
<1>7. CASE FailListing
  BY <1>7, PagingIdle DEF FailListing
<1>8. CASE DropManifest
  BY <1>8, PagingRest DEF DropManifest
<1>9. ASSUME NEW n \in Records, OpenRecord(n) PROVE PagingInv'
  <2>1. tracker'.open = tracker.open \cup {n}
    BY <1>9 DEF OpenRecord, TypeInv, GHTypeOK, Tracker
  <2>2. QED
    BY <1>9, <2>1, PagingArrive DEF OpenRecord
<1>10. ASSUME NEW n \in Records, ReopenRecord(n) PROVE PagingInv'
  <2>1. tracker'.open = tracker.open \cup {n}
    BY <1>10 DEF ReopenRecord, TypeInv, GHTypeOK, Tracker
  <2>2. QED
    BY <1>10, <2>1, PagingArrive DEF ReopenRecord
<1>11. ASSUME NEW n \in Records, CloseRecord(n) PROVE PagingInv'
  BY <1>11, PagingLeave
<1>12. ASSUME NEW n \in Records, EditRecord(n) PROVE PagingInv'
  <2>1. tracker'.open = tracker.open
    BY <1>12 DEF EditRecord, TypeInv, GHTypeOK, Tracker
  <2>2. QED
    BY <1>12, <2>1, PagingRest DEF EditRecord
<1>13. ASSUME NEW n \in Records, WriteRecord(n) PROVE PagingInv'
  <2>1. /\ listing.at = "write" /\ listing'.at = "write" /\ tracker' = tracker
        /\ listing'.copies = listing.copies /\ listing'.moved = listing.moved
        /\ listing'.stayed = listing.stayed /\ listing'.prunes = listing.prunes
    BY <1>13 DEF WriteRecord, TypeInv, GHTypeOK, Listing
  <2>2. QED
    BY <2>1 DEF PagingInv, StayedIsOpen, AllStayedListed, Listed, Held
<1>14. ASSUME NEW n \in Records, PruneFile(n) PROVE PagingInv'
  <2>1. /\ listing.at = "prune" /\ listing'.at = "prune" /\ tracker' = tracker
        /\ listing'.copies = listing.copies /\ listing'.moved = listing.moved
        /\ listing'.stayed = listing.stayed /\ listing'.prunes \subseteq listing.prunes
    BY <1>14 DEF PruneFile, TypeInv, GHTypeOK, Listing
  <2>2. QED
    BY <2>1 DEF PagingInv, StayedIsOpen, AllStayedListed, Listed, Held
<1>15. CASE UNCHANGED ghVars
  BY <1>15, PagingRest DEF ghVars
<1>16. QED
  BY <1>1, <1>2, <1>3, <1>4, <1>5, <1>6, <1>7, <1>8, <1>9, <1>10, <1>11, <1>12, <1>13, <1>14,
     <1>15 DEF GHNext

\* The inductive invariant of the listing.
THEOREM PagingInvariant == GHSpec => [](TypeInv /\ PagingInv)
BY TypeInit, TypeStep, PagingInit, PagingStep, PTL DEF GHSpec

\* However many records and pages there are, and whatever is edited meanwhile:
\* a listing of list_repository_issues has no record twice unless one was opened
\* while it was read, and misses none unless one was closed.
THEOREM PagingIsExact == GHSpec => []ListingIsExact
<1>1. PagingInv => ListingIsExact
  BY DEF PagingInv, ListingIsExact, Once, Still, Held, AllStayedListed
<1>2. QED
  BY <1>1, PagingInvariant, PTL

LEMMA PruneStep ==
    TypeInv /\ PagingInv /\ [GHNext]_ghVars =>
        [\A n \in listing.stayed :
            output.file[n] # 0 /\ output'.file[n] = 0 => "out" \in listing.moved]_ghVars
<1>0. SUFFICES ASSUME TypeInv, PagingInv, GHNext, NEW n \in listing.stayed,
                      output.file[n] # 0, output'.file[n] = 0, "out" \notin listing.moved
               PROVE  FALSE
  OBVIOUS
<1> USE <1>0 DEF TypeInv, GHTypeOK
<1>a. n \in Records /\ Torn # 0
  BY GitHubAssumption DEF Listing
<1>b. output'.file # output.file
  OBVIOUS
<1>1. ASSUME NEW m \in Records, WriteRecord(m) PROVE FALSE
  <2>1. listing.copies[m] \in Seq(Texts) /\ listing.copies[m] # <<>>
    BY <1>1 DEF WriteRecord, WritesListed, Listed, Listing, Copies
  <2>2. WriteText(m) # 0
    BY <2>1, LastType DEF WriteText, Texts
  <2>3. QED
    BY <1>1, <1>a, <2>2 DEF WriteRecord, Output
<1>2. ASSUME NEW m \in Records, PruneFile(m) PROVE FALSE
  <2>1. listing.at = "prune" /\ m \in listing.prunes /\ n = m
    BY <1>2, <1>a DEF PruneFile, Output
  <2>2. QED
    BY <2>1 DEF PagingInv, Held, AllStayedListed
<1>3. CASE FailListing
  <2>1. PICK m \in listing.writes : output' = [output EXCEPT !.file[m] = Torn]
    BY <1>3, <1>b DEF FailListing, Output
  <2>2. QED
    BY <1>a, <2>1 DEF Output, Listing
<1>4. \A flags : ~BeginListing(flags)
  BY <1>b DEF BeginListing
<1>5. ~ReadPage /\ ~PlanListing /\ ~RefuseManifest /\ ~FinishListing
  BY <1>b DEF ReadPage, PlanListing, RefuseManifest, FinishListing
<1>6. ~WriteListing /\ ~DropManifest
  BY <1>b DEF WriteListing, DropManifest, Output
<1>7. \A m : ~OpenRecord(m) /\ ~ReopenRecord(m) /\ ~CloseRecord(m) /\ ~EditRecord(m)
  BY <1>b DEF OpenRecord, ReopenRecord, CloseRecord, EditRecord
<1>8. QED
  BY <1>1, <1>2, <1>3, <1>4, <1>5, <1>6, <1>7 DEF GHNext

\* No run deletes the artifact of a record that was open all the time since it
\* began, unless it missed it because another one was closed.
THEOREM OpenIsKept == GHSpec => PrunesWhatLeft
BY PagingInvariant, PruneStep, PTL DEF GHSpec, PrunesWhatLeft
-----------------------------------------------------------------------------
(* Content hashes, for records whose text never is again what it was.      *)

\* What it takes that a manifest says e of record n: the artifact has that
\* text, or the record has a later one, which every listing from then on has.
Promised(n, e) ==
    /\ e <= tracker.text[n]
    /\ \A i \in DOMAIN listing.copies[n] : e <= listing.copies[n][i]
    /\ \/ output.file[n] = e
       \/ /\ e < tracker.text[n]
          /\ listing.at \in {"list", "load"} =>
                 \A i \in DOMAIN listing.copies[n] : e < listing.copies[n][i]
    /\ listing.at = "write" /\ n \in listing.writes => e < tracker.text[n]

\* What is listed is not later than the record.
CopiesAge(n) == \A i \in DOMAIN listing.copies[n] : listing.copies[n][i] <= tracker.text[n]

EntryHasFile(n) == output.entries[n] # <<>> => output.file[n] # 0

PromisesKept(n) == \A e \in Texts : output.entries[n] = <<e>> => Promised(n, e)

\* What a run does not write, or has written, is there as listed.
Settled(n) ==
    listing.at = "write" /\ listing.copies[n] # <<>> /\ n \notin listing.writes =>
        output.file[n] = Last(listing.copies[n])

Recorded(n) ==
    listing.at = "prune" => /\ output.entries[n] = listing.copies[n]
                            /\ listing.copies[n] # <<>> =>
                                   output.file[n] = Last(listing.copies[n])

RecordInv(n) ==
    CopiesAge(n) /\ EntryHasFile(n) /\ PromisesKept(n) /\ Settled(n) /\ Recorded(n)

HashInv == \A n \in Records : RecordInv(n)

\* The parts of the state that one record has.
LEMMA RecordParts ==
    ASSUME GHTypeOK, NEW n \in Records
    PROVE  /\ tracker.text[n] \in Texts
           /\ listing.copies[n] \in Seq(Texts) /\ output.entries[n] \in Seq(Texts)
           /\ \A i \in DOMAIN listing.copies[n] : listing.copies[n][i] \in Texts
           /\ Texts \subseteq Nat /\ Torn \notin Texts /\ Torn # 0 /\ 0 \notin Texts
BY GitHubAssumption DEF GHTypeOK, Tracker, Listing, Output, Copies, Texts

LEMMA HashInit == GHInit => HashInv
<1>1. SUFFICES ASSUME GHInit, NEW n \in Records PROVE RecordInv(n)
  BY DEF HashInv
<1>2. /\ listing.copies[n] = <<>> /\ listing.at = "idle" /\ output.entries[n] = <<>>
  BY <1>1 DEF GHInit, NoListing, NoCopies
<1>3. QED
  BY <1>2 DEF RecordInv, CopiesAge, EntryHasFile, PromisesKept, Settled, Recorded

\* The steps of a run, and the records of the tracker, one record at a time.
\* A step that leaves the record's files and entries alone.
LEMMA RecordRests ==
    ASSUME GHTypeOK, NEW n \in Records, RecordInv(n),
           tracker'.text[n] \in Texts, tracker.text[n] <= tracker'.text[n],
           output'.file[n] = output.file[n], output'.entries[n] = output.entries[n],
           \/ /\ listing'.at = listing.at
              /\ listing'.copies[n] = listing.copies[n]
              /\ n \in listing'.writes <=> n \in listing.writes
           \/ /\ listing'.at \in {"idle", "list"} /\ listing'.copies[n] = <<>>
    PROVE  RecordInv(n)'
<1> USE RecordParts
<1>1. CASE /\ listing'.at = listing.at
           /\ listing'.copies[n] = listing.copies[n]
           /\ n \in listing'.writes <=> n \in listing.writes
  <2>1. CopiesAge(n)' /\ EntryHasFile(n)' /\ Settled(n)' /\ Recorded(n)'
    BY <1>1 DEF RecordInv, CopiesAge, EntryHasFile, Settled, Recorded
  <2>2. ASSUME NEW e \in Texts, output.entries[n] = <<e>> PROVE Promised(n, e)'
    BY <1>1, <2>2 DEF RecordInv, PromisesKept, Promised
  <2>3. QED
    BY <2>1, <2>2 DEF RecordInv, PromisesKept
<1>2. CASE listing'.at \in {"idle", "list"} /\ listing'.copies[n] = <<>>
  <2>1. CopiesAge(n)' /\ EntryHasFile(n)' /\ Settled(n)' /\ Recorded(n)'
    BY <1>2 DEF RecordInv, CopiesAge, EntryHasFile, Settled, Recorded
  <2>2. ASSUME NEW e \in Texts, output.entries[n] = <<e>> PROVE Promised(n, e)'
    BY <1>2, <2>2 DEF RecordInv, PromisesKept, Promised
  <2>3. QED
    BY <2>1, <2>2 DEF RecordInv, PromisesKept
<1>3. QED
  BY <1>1, <1>2

LEMMA RecordForgotten ==
    ASSUME NEW n \in Records, listing'.at = "idle", listing'.copies[n] = <<>>,
           output'.entries[n] = <<>>
    PROVE  RecordInv(n)'
BY DEF RecordInv, CopiesAge, EntryHasFile, PromisesKept, Settled, Recorded

LEMMA RecordRead ==
    ASSUME GHTypeOK, NEW n \in Records, RecordInv(n), ReadPage
    PROVE  RecordInv(n)'
<1> DEFINE text == tracker.text[n]
           copies == listing.copies[n]
           more == listing'.copies[n]
<1>0. /\ text \in Texts /\ copies \in Seq(Texts) /\ Texts \subseteq Nat
      /\ \A i \in DOMAIN copies : copies[i] \in Texts
  BY RecordParts
<1>1. /\ tracker' = tracker /\ output' = output
      /\ listing.at = "list" /\ listing'.at \in {"list", "load"}
  BY DEF ReadPage, GHTypeOK, Listing
<1>2. more = copies \/ more = Append(copies, text)
  <2> DEFINE read == [m \in Records |-> IF m \in OnPage(listing.from)
                                       THEN Append(listing.copies[m], tracker.text[m])
                                       ELSE listing.copies[m]]
  <2>1. /\ read[n] = copies \/ read[n] = Append(copies, text)
        /\ listing' = [listing EXCEPT !.copies = read, !.from = listing.from + PageSize,
                             !.at = IF IsLastPage(listing.from) THEN "load" ELSE "list"]
    BY DEF ReadPage
  <2> HIDE DEF read
  <2>2. listing'.copies = read
    BY <2>1 DEF GHTypeOK, Listing
  <2>3. QED
    BY <2>1, <2>2
<1>3. \A i \in DOMAIN more : (i \in DOMAIN copies /\ more[i] = copies[i]) \/ more[i] = text
  <2>1. CASE more = copies
    BY <2>1
  <2>2. CASE more = Append(copies, text)
    BY <1>0, <2>2
  <2>3. QED
    BY <1>2, <2>1, <2>2
<1>4. CopiesAge(n)'
  <2>1. text \in Nat /\ \A i \in DOMAIN copies : copies[i] <= text
    BY <1>0 DEF RecordInv, CopiesAge
  <2>2. \A i \in DOMAIN more : more[i] <= text
    BY <1>3, <2>1
  <2>3. QED
    BY <1>1, <2>2 DEF CopiesAge
<1>5. ASSUME NEW e \in Texts, output.entries[n] = <<e>> PROVE Promised(n, e)'
  <2>1. Promised(n, e)
    BY <1>5 DEF RecordInv, PromisesKept
  <2>2. QED
    BY <1>0, <1>1, <1>3, <2>1 DEF Promised
<1>6. EntryHasFile(n)' /\ Settled(n)' /\ Recorded(n)'
  BY <1>1 DEF RecordInv, EntryHasFile, Settled, Recorded
<1>7. QED
  BY <1>1, <1>4, <1>5, <1>6 DEF RecordInv, PromisesKept

LEMMA RecordPlanned ==
    ASSUME GHTypeOK, NEW n \in Records, RecordInv(n), PlanListing, listing' # NoListing
    PROVE  RecordInv(n)'
<1> DEFINE copies == listing.copies[n]
<1>0. /\ tracker.text[n] \in Texts /\ copies \in Seq(Texts) /\ Texts \subseteq Nat
      /\ \A i \in DOMAIN copies : copies[i] \in Texts
  BY RecordParts
<1>1. /\ tracker' = tracker /\ output' = output
      /\ listing.at = "load" /\ listing'.at = "write" /\ listing'.copies[n] = copies
      /\ n \in listing'.writes <=> \E i \in DOMAIN copies : ~Same(n, copies[i])
  BY DEF PlanListing, GHTypeOK, Listing
<1>2. CopiesAge(n)' /\ EntryHasFile(n)' /\ Recorded(n)'
  BY <1>1 DEF RecordInv, CopiesAge, EntryHasFile, Recorded
<1>3. ASSUME NEW e \in Texts, output.entries[n] = <<e>> PROVE Promised(n, e)'
  <2>1. Promised(n, e)
    BY <1>3 DEF RecordInv, PromisesKept
  <2>a. /\ e <= tracker.text[n]
        /\ \A i \in DOMAIN copies : e <= copies[i]
        /\ output.file[n] = e \/ e < tracker.text[n]
    BY <2>1 DEF Promised
  <2>2. ASSUME n \in listing'.writes PROVE e < tracker.text[n]
    <3>1. PICK i \in DOMAIN copies : ~Same(n, copies[i])
      BY <1>1, <2>2
    <3>2. n \in Written
      BY <1>3 DEF RecordInv, EntryHasFile, Written
    <3>3. copies[i] # e
      BY <1>3, <3>1, <3>2 DEF Same
    <3>4. e <= copies[i] /\ copies[i] <= tracker.text[n]
      BY <2>a DEF RecordInv, CopiesAge
    <3>5. e \in Nat /\ copies[i] \in Nat /\ tracker.text[n] \in Nat
      BY <1>0
    <3>6. QED
      BY <3>3, <3>4, <3>5
  <2>3. QED
    BY <1>1, <2>a, <2>2 DEF Promised
<1>4. Settled(n)'
  <2>1. SUFFICES ASSUME copies # <<>>, n \notin listing'.writes
                 PROVE  output.file[n] = Last(copies)
    BY <1>1 DEF Settled
  <2>2. Len(copies) \in DOMAIN copies /\ Last(copies) \in Texts
    BY <1>0, <2>1, LastType
  <2>3. output.entries[n] = <<Last(copies)>>
    BY <1>1, <2>1, <2>2 DEF Same, Last
  <2>4. Promised(n, Last(copies))
    BY <2>2, <2>3 DEF RecordInv, PromisesKept
  <2>5. Last(copies) = copies[Len(copies)] /\ Last(copies) \in Nat
    BY <1>0, <2>2 DEF Last
  <2>6. output.file[n] = Last(copies)
        \/ \A i \in DOMAIN copies : Last(copies) < copies[i]
    BY <1>1, <2>4 DEF Promised
  <2>7. QED
    BY <2>2, <2>5, <2>6
<1>5. QED
  BY <1>1, <1>2, <1>3, <1>4 DEF RecordInv, PromisesKept

LEMMA RecordWritten ==
    ASSUME TypeInv, NEW n \in Records, RecordInv(n), WriteRecord(n)
    PROVE  RecordInv(n)'
<1> DEFINE copies == listing.copies[n]
<1> USE DEF TypeInv
<1>0. /\ tracker.text[n] \in Texts /\ copies \in Seq(Texts) /\ Texts \subseteq Nat
      /\ 0 \notin Texts
  BY RecordParts
<1>1. /\ tracker' = tracker
      /\ output'.file[n] = Last(copies) /\ output'.entries[n] = output.entries[n]
      /\ listing.at = "write" /\ listing'.at = "write" /\ listing'.copies[n] = copies
      /\ n \notin listing'.writes /\ n \in listing.writes
  BY DEF WriteRecord, WriteText, GHTypeOK, Listing, Output
<1>2. copies # <<>> /\ Last(copies) \in Texts
  BY <1>0, <1>1, LastType DEF WritesListed, Listed
<1>3. CopiesAge(n)' /\ EntryHasFile(n)' /\ Settled(n)' /\ Recorded(n)'
  BY <1>0, <1>1, <1>2 DEF RecordInv, CopiesAge, EntryHasFile, Settled, Recorded
<1>4. ASSUME NEW e \in Texts, output.entries[n] = <<e>> PROVE Promised(n, e)'
  BY <1>1, <1>4 DEF RecordInv, PromisesKept, Promised
<1>5. QED
  BY <1>1, <1>3, <1>4 DEF RecordInv, PromisesKept

LEMMA RecordEntered ==
    ASSUME GHTypeOK, NEW n \in Records, RecordInv(n), WriteListing
    PROVE  RecordInv(n)'
<1> DEFINE copies == listing.copies[n]
<1>0. /\ tracker.text[n] \in Texts /\ copies \in Seq(Texts) /\ Texts \subseteq Nat
      /\ 0 \notin Texts
  BY RecordParts
<1>1. /\ tracker' = tracker
      /\ output'.file[n] = output.file[n] /\ output'.entries[n] = copies
      /\ listing.at = "write" /\ listing'.at = "prune" /\ listing'.copies[n] = copies
      /\ n \notin listing.writes
  BY DEF WriteListing, GHTypeOK, Listing, Output
<1>2. copies # <<>> => output.file[n] = Last(copies) /\ Last(copies) \in Texts
  BY <1>0, <1>1, LastType DEF RecordInv, Settled
<1>3. CopiesAge(n)' /\ EntryHasFile(n)' /\ Settled(n)' /\ Recorded(n)'
  BY <1>0, <1>1, <1>2 DEF RecordInv, CopiesAge, EntryHasFile, Settled, Recorded
<1>4. ASSUME NEW e \in Texts, copies = <<e>> PROVE Promised(n, e)'
  <2>1. DOMAIN copies = {1} /\ copies[1] = e /\ Last(copies) = e /\ copies # <<>>
    BY <1>4 DEF Last
  <2>2. e <= tracker.text[n]
    BY <2>1 DEF RecordInv, CopiesAge
  <2>3. QED
    BY <1>0, <1>1, <1>2, <2>1, <2>2 DEF Promised
<1>5. QED
  BY <1>1, <1>3, <1>4 DEF RecordInv, PromisesKept

LEMMA RecordTorn ==
    ASSUME GHTypeOK, NEW n \in Records, RecordInv(n),
           listing.at = "write", n \in listing.writes,
           tracker' = tracker, listing' = NoListing, output' = [output EXCEPT !.file[n] = Torn]
    PROVE  RecordInv(n)'
<1>0. /\ tracker.text[n] \in Texts /\ Torn # 0
  BY RecordParts
<1>1. /\ output'.file[n] = Torn /\ output'.entries[n] = output.entries[n]
      /\ listing'.at = "idle" /\ listing'.copies[n] = <<>>
  BY DEF NoListing, NoCopies, GHTypeOK, Output
<1>2. ASSUME NEW e \in Texts, output.entries[n] = <<e>> PROVE Promised(n, e)'
  BY <1>1, <1>2 DEF RecordInv, PromisesKept, Promised
<1>3. QED
  BY <1>0, <1>1, <1>2
     DEF RecordInv, CopiesAge, EntryHasFile, PromisesKept, Settled, Recorded

LEMMA RecordPruned ==
    ASSUME GHTypeOK, PagingInv, NEW n \in Records, RecordInv(n), PruneFile(n)
    PROVE  RecordInv(n)'
<1>1. /\ output'.entries[n] = output.entries[n] /\ listing.at = "prune" /\ listing'.at = "prune"
      /\ listing'.copies = listing.copies
  BY DEF PruneFile, GHTypeOK, Listing, Output
<1>2. listing.copies[n] = <<>>
  BY DEF PruneFile, PagingInv, Listed
<1>3. output'.entries[n] = <<>>
  BY <1>1, <1>2 DEF RecordInv, Recorded
<1>4. QED
  BY <1>1, <1>2, <1>3
     DEF RecordInv, CopiesAge, EntryHasFile, PromisesKept, Settled, Recorded

LEMMA HashStep ==
    ASSUME TextsReturn = FALSE, TypeInv, TypeInv', PagingInv, HashInv, [GHNext]_ghVars
    PROVE  HashInv'
<1>0. SUFFICES ASSUME NEW n \in Records PROVE RecordInv(n)'
  BY DEF HashInv
<1> USE DEF TypeInv
<1>r. GHTypeOK /\ GHTypeOK' /\ RecordInv(n)
  BY DEF HashInv
<1>t. /\ tracker.text[n] \in Nat /\ tracker'.text[n] \in Texts
      /\ NoListing.at = "idle" /\ NoListing.copies[n] = <<>>
  BY <1>r, RecordParts DEF GHTypeOK, Tracker, NoListing, NoCopies
<1>s. ASSUME tracker' = tracker, output' = output, listing' = NoListing PROVE RecordInv(n)'
  BY <1>r, <1>t, <1>s, RecordRests
<1>a. ASSUME listing'.at = listing.at, listing'.copies = listing.copies,
             listing'.writes = listing.writes, output' = output,
             tracker.text[n] <= tracker'.text[n]
      PROVE  RecordInv(n)'
  BY <1>r, <1>t, <1>a, RecordRests
<1>b. ASSUME Arrive
      PROVE  /\ listing'.at = listing.at /\ listing'.copies = listing.copies
             /\ listing'.writes = listing.writes
  BY <1>r, <1>b DEF Arrive, GHTypeOK, Listing
<1>c. ASSUME NEW m \in Records, NEW t \in Texts, Retexted(m, t),
             tracker'.text = [tracker.text EXCEPT ![m] = t]
      PROVE  tracker.text[n] <= tracker'.text[n]
  BY <1>r, <1>t, <1>c DEF Retexted, GHTypeOK, Tracker
<1>1. ASSUME NEW flags \in FlagChoices, BeginListing(flags) PROVE RecordInv(n)'
  <2>1. tracker' = tracker /\ output' = output
        /\ listing'.at = "list" /\ listing'.copies[n] = <<>>
    BY <1>1 DEF BeginListing, NewListing, NoCopies
  <2>2. QED
    BY <1>r, <1>t, <2>1, RecordRests
<1>2. CASE ReadPage
  BY <1>2, <1>r, RecordRead
<1>3. CASE PlanListing
  <2>1. CASE listing' = NoListing
    BY <1>3, <1>s, <2>1 DEF PlanListing
  <2>2. QED
    BY <1>3, <1>r, <2>1, RecordPlanned
<1>4. CASE RefuseManifest
  BY <1>4, <1>s DEF RefuseManifest
<1>5. CASE WriteListing
  BY <1>5, <1>r, RecordEntered
<1>6. CASE FinishListing
  BY <1>6, <1>s DEF FinishListing
<1>7. CASE FailListing
  <2>1. tracker' = tracker /\ listing' = NoListing
    BY <1>7 DEF FailListing
  <2>2. CASE UNCHANGED output
    BY <1>s, <2>1, <2>2
  <2>3. ASSUME NEW m \in listing.writes, listing.at = "write",
               output' = [output EXCEPT !.file[m] = Torn]
        PROVE  RecordInv(n)'
    <3>1. CASE m = n
      BY <1>r, <2>1, <2>3, <3>1, RecordTorn
    <3>2. CASE m # n
      <4>1. output'.file[n] = output.file[n] /\ output'.entries[n] = output.entries[n]
        BY <1>r, <2>3, <3>2 DEF GHTypeOK, Output
      <4>2. QED
        BY <1>r, <1>t, <2>1, <4>1, RecordRests
    <3>3. QED
      BY <3>1, <3>2
  <2>4. ASSUME output' = [output EXCEPT !.manifest = "torn", !.entries = NoCopies]
        PROVE  RecordInv(n)'
    <3>1. output'.entries[n] = <<>>
      BY <1>r, <2>4 DEF GHTypeOK, Output, NoCopies
    <3>2. QED
      BY <1>t, <2>1, <3>1, RecordForgotten
  <2>5. QED
    BY <1>7, <2>2, <2>3, <2>4 DEF FailListing
<1>8. CASE DropManifest
  <2>1. listing' = listing /\ listing.at = "idle" /\ output'.entries[n] = <<>>
        /\ output'.file = output.file /\ tracker' = tracker
    BY <1>8, <1>r DEF DropManifest, GHTypeOK, Output, NoCopies
  <2>2. QED
    BY <1>r, <2>1
       DEF RecordInv, CopiesAge, EntryHasFile, PromisesKept, Settled, Recorded
<1>9. ASSUME NEW m \in Records, OpenRecord(m) PROVE RecordInv(n)'
  <2>1. tracker'.text = tracker.text /\ output' = output /\ Arrive
    BY <1>9, <1>r DEF OpenRecord, GHTypeOK, Tracker
  <2>2. QED
    BY <1>a, <1>b, <1>t, <2>1
<1>10. ASSUME NEW m \in Records, ReopenRecord(m) PROVE RecordInv(n)'
  <2>1. PICK t \in Texts : Retexted(m, t)
                 /\ tracker' = [tracker EXCEPT !.open = tracker.open \cup {m}, !.text[m] = t]
    BY <1>10 DEF ReopenRecord
  <2>2. tracker'.text = [tracker.text EXCEPT ![m] = t]
    BY <1>r, <2>1 DEF GHTypeOK, Tracker
  <2>3. output' = output /\ Arrive
    BY <1>10 DEF ReopenRecord
  <2>4. QED
    BY <1>a, <1>b, <1>c, <2>1, <2>2, <2>3
<1>11. ASSUME NEW m \in Records, CloseRecord(m) PROVE RecordInv(n)'
  <2>1. tracker'.text = tracker.text /\ output' = output
    BY <1>11, <1>r DEF CloseRecord, GHTypeOK, Tracker
  <2>2. /\ listing'.at = listing.at /\ listing'.copies = listing.copies
        /\ listing'.writes = listing.writes
    BY <1>11, <1>r DEF CloseRecord, GHTypeOK, Listing
  <2>3. QED
    BY <1>a, <1>t, <2>1, <2>2
<1>12. ASSUME NEW m \in Records, EditRecord(m) PROVE RecordInv(n)'
  <2>1. PICK t \in Texts : Retexted(m, t) /\ tracker' = [tracker EXCEPT !.text[m] = t]
    BY <1>12 DEF EditRecord
  <2>2. tracker'.text = [tracker.text EXCEPT ![m] = t]
    BY <1>r, <2>1 DEF GHTypeOK, Tracker
  <2>3. output' = output /\ listing' = listing
    BY <1>12 DEF EditRecord
  <2>4. QED
    BY <1>a, <1>c, <2>1, <2>2, <2>3
<1>13. ASSUME NEW m \in Records, WriteRecord(m) PROVE RecordInv(n)'
  <2>1. CASE m = n
    BY <1>13, <1>r, <2>1, RecordWritten
  <2>2. CASE m # n
    <3>1. /\ tracker' = tracker
          /\ output'.file[n] = output.file[n] /\ output'.entries[n] = output.entries[n]
          /\ listing'.at = listing.at /\ listing'.copies[n] = listing.copies[n]
          /\ n \in listing'.writes <=> n \in listing.writes
      BY <1>13, <1>r, <2>2 DEF WriteRecord, GHTypeOK, Listing, Output
    <3>2. QED
      BY <1>r, <1>t, <3>1, RecordRests
  <2>3. QED
    BY <2>1, <2>2
<1>14. ASSUME NEW m \in Records, PruneFile(m) PROVE RecordInv(n)'
  <2>1. CASE m = n
    BY <1>14, <1>r, <2>1, RecordPruned
  <2>2. CASE m # n
    <3>1. /\ tracker' = tracker
          /\ output'.file[n] = output.file[n] /\ output'.entries[n] = output.entries[n]
          /\ listing'.at = listing.at /\ listing'.copies[n] = listing.copies[n]
          /\ n \in listing'.writes <=> n \in listing.writes
      BY <1>14, <1>r, <2>2 DEF PruneFile, GHTypeOK, Listing, Output
    <3>2. QED
      BY <1>r, <1>t, <3>1, RecordRests
  <2>3. QED
    BY <2>1, <2>2
<1>15. CASE UNCHANGED ghVars
  BY <1>15, <1>a, <1>t DEF ghVars
<1>16. QED
  BY <1>1, <1>2, <1>3, <1>4, <1>5, <1>6, <1>7, <1>8, <1>9, <1>10, <1>11, <1>12, <1>13, <1>14,
     <1>15 DEF GHNext

\* The inductive invariant of the content hashes.
THEOREM HashInvariant ==
    ASSUME TextsReturn = FALSE
    PROVE  GHSpec => [](TypeInv /\ PagingInv /\ HashInv)
<1>1. TypeInv /\ TypeInv' /\ PagingInv /\ HashInv /\ [GHNext]_ghVars => HashInv'
  BY HashStep
<1>2. QED
  BY <1>1, HashInit, PagingInvariant, PTL DEF GHSpec

\* If no record's text is ever again what it was (issues and pull requests carry
\* the time of their last change), then a run that finishes leaves a manifest
\* whose content hashes are those of the artifacts, whatever runs before it died.
THEOREM HashesAreOfArtifacts ==
    ASSUME TextsReturn = FALSE
    PROVE  GHSpec => HashIsOfArtifact
<1>1. TypeInv /\ PagingInv /\ HashInv /\ [GHNext]_ghVars =>
          [FinishListing => \A n \in Listed(output.entries) :
                                output.file[n] = Last(output.entries[n])]_ghVars
  <2>1. SUFFICES ASSUME HashInv, FinishListing, NEW n \in Listed(output.entries)
                 PROVE  output.file[n] = Last(output.entries[n])
    OBVIOUS
  <2>2. n \in Records /\ output.entries[n] # <<>> /\ listing.at = "prune"
    BY <2>1 DEF Listed, FinishListing
  <2>3. QED
    BY <2>1, <2>2 DEF HashInv, RecordInv, Recorded
<1>2. QED
  BY <1>1, HashInvariant, PTL DEF GHSpec, HashIsOfArtifact

-----------------------------------------------------------------------------
(* GitHubSelection.                                                        *)

\* A thread's comments are numbered as they come, and a run knows how many
\* there were when it began.
Numbered ==
    \A n \in Items, t \in Threads :
        /\ board.talk[n][t].kept \subseteq 1..board.talk[n][t].last
        /\ picking.at # "idle" => picking.upto[n][t] <= board.talk[n][t].last

Matches(n) == InList(n) /\ Keeps(n)

\* While no record comes or goes, what has been listed once is what matches and
\* is before the place where the next page begins.
ListedOnce ==
    picking.at = "list" /\ ~picking.moved =>
        \A n \in Items : picking.copies[n] = IF Matches(n) /\ NewerItems(n) < picking.from
                                             THEN 1 ELSE 0

Gathered ==
    picking.at = "choose" /\ ~picking.moved =>
        \A n \in Items : picking.copies[n] = IF Matches(n) THEN 1 ELSE 0

Older(c, kept) == Cardinality({b \in kept : b < c})

\* Of record k's thread t those comments have been read that come before the
\* m-th.
HeardTo(k, t, m) ==
    LET n == picking.chosen[k]
        kept == board.talk[n][t].kept
    IN  <<n, t>> \notin picking.cut =>
            \A c \in kept : c <= picking.upto[n][t] /\ Older(c, kept) < m
                               => c \in picking.heard[k][t]

HeardAll(k, t) ==
    LET n == picking.chosen[k] IN
    <<n, t>> \notin picking.cut =>
        \A c \in board.talk[n][t].kept : c <= picking.upto[n][t] => c \in picking.heard[k][t]

HeardInTurn ==
    picking.at = "talk" =>
        /\ Len(picking.heard) = Len(picking.chosen)
        /\ picking.place \in 1..(Len(picking.chosen) + 1)
        /\ Turns # <<>> => picking.turn \in DOMAIN Turns
        /\ \A k \in DOMAIN picking.chosen, j \in DOMAIN Turns :
              /\ k < picking.place \/ (k = picking.place /\ j < picking.turn) => HeardAll(k, Turns[j])
              /\ k = picking.place /\ j = picking.turn => HeardTo(k, Turns[j], picking.from)

\* Until a record is chosen nothing has been read of its threads.
Unheard == picking.at \in {"list", "choose"} => picking.place = 1 /\ picking.turn = 1

SelectionInv == /\ SelectionTypeOK
                /\ Unheard
                /\ Numbered
                /\ ListedOnce
                /\ Gathered
                /\ SelectionIsExact
                /\ HeardInTurn

-----------------------------------------------------------------------------

\* A run that begins has nothing listed.
LEMMA NewPickingType ==
    ASSUME NEW options \in PickOptions
    PROVE  NewPicking(options) \in Picking
<1>1. [n \in Items |-> 0] \in [Items -> Nat]
  OBVIOUS
<1>2. [n \in Items |-> [t \in Threads |-> 0]] \in [Items -> [Threads -> 0..LastComment]]
  BY SelectionAssumption
<1>3. QED
  BY <1>1, <1>2 DEF NewPicking, Picking

\* So has one that has not begun.
LEMMA NotPickingType == NotPicking \in Picking /\ NotPicking.at = "idle"
<1>1. NoOptions \in PickOptions
  BY SelectionAssumption DEF NoOptions, PickOptions
<1>2. QED
  BY <1>1, NewPickingType DEF NotPicking, NewPicking

\* At the start no run is in progress.
LEMMA SelectionInitInv == SelectionInit => SelectionInv
<1> SUFFICES ASSUME SelectionInit PROVE SelectionInv
  OBVIOUS
<1>1. /\ resource \in {"issues", "pull_requests", "releases"}
      /\ board = [last |-> LastItem - 1, open |-> 1..(LastItem - 1), recent |-> {1},
                  talk |-> [n \in Items |-> [t \in Threads |->
                               [last |-> LastComment - 1, kept |-> 1..(LastComment - 1)]]]]
      /\ picking = NotPicking /\ meddling = Meddling
  BY DEF SelectionInit
<1>2. /\ LastItem - 1 \in 0..LastItem /\ 1..(LastItem - 1) \subseteq Items /\ {1} \subseteq Items
      /\ LastComment - 1 \in 0..LastComment /\ 1..(LastComment - 1) \subseteq Comments
  BY SelectionAssumption DEF Items, Comments
<1>3. board \in Board
  BY <1>1, <1>2 DEF Board
<1>4. Numbered
  BY <1>1, NotPickingType DEF Numbered
<1>5. SelectionTypeOK
  BY <1>1, <1>3, NotPickingType, SelectionAssumption DEF SelectionTypeOK
<1>6. QED
  BY <1>1, <1>4, <1>5, NotPickingType
     DEF SelectionInv, Unheard, ListedOnce, Gathered, SelectionIsExact, HeardInTurn

\* The threads of a record are read in turn.
LEMMA TurnsType ==
    ASSUME SelectionTypeOK
    PROVE  /\ Turns \in Seq(Threads) /\ Len(Turns) \in 0..2
           /\ \A j \in DOMAIN Turns : Turns[j] \in picking.options.threads
           /\ \A t \in picking.options.threads : \E j \in DOMAIN Turns : Turns[j] = t
<1> DEFINE asked == picking.options.threads
<1>1. asked \subseteq Threads
  BY DEF SelectionTypeOK, Picking, PickOptions
<1>2. CASE asked = {}
  <2>1. Turns = <<>>
    BY <1>2 DEF Turns, Threads
  <2>2. <<>> \in Seq(Threads) /\ Len(<<>>) = 0 /\ DOMAIN <<>> = {}
    OBVIOUS
  <2>3. QED
    BY <1>2, <2>1, <2>2
<1>3. CASE asked = Threads
  <2>1. Turns = <<"comments", "review">>
    BY <1>3 DEF Turns, Threads
  <2>2. QED
    BY <1>3, <2>1 DEF Threads
<1>4. CASE asked # {} /\ asked # Threads
  <2>1. PICK t \in Threads : asked = {t}
    BY <1>1, <1>4 DEF Threads
  <2>2. Turns = <<t>>
    BY <1>4, <2>1 DEF Turns
  <2>3. QED
    BY <2>1, <2>2
<1>5. QED
  BY <1>2, <1>3, <1>4

\* How many comments come before one of them.
LEMMA OlderType ==
    ASSUME NEW kept \in SUBSET Comments, NEW c
    PROVE  /\ IsFiniteSet(kept) /\ Cardinality(kept) \in Nat
           /\ Older(c, kept) \in Nat
           /\ c \in kept => Older(c, kept) < Cardinality(kept)
<1>1. IsFiniteSet(Comments)
  BY SelectionAssumption, FS_Interval DEF Comments
<1>2. IsFiniteSet(kept)
  BY <1>1, FS_Subset
<1> DEFINE below == {b \in kept : b < c}
<1>3. /\ IsFiniteSet(below) /\ Cardinality(below) <= Cardinality(kept)
      /\ Cardinality(kept) = Cardinality(below) => kept = below
  BY <1>2, FS_Subset
<1>4. Cardinality(kept) \in Nat /\ Cardinality(below) \in Nat
  BY <1>2, <1>3, FS_CardinalityType
<1>5. c \in kept => c \notin below
  BY SelectionAssumption DEF Comments
<1>6. QED
  BY <1>2, <1>3, <1>4, <1>5 DEF Older

\* There are finitely many records.
LEMMA ItemsCounted ==
    ASSUME NEW s \in SUBSET Items
    PROVE  IsFiniteSet(s) /\ Cardinality(s) \in Nat
<1>1. IsFiniteSet(Items)
  BY SelectionAssumption, FS_Interval DEF Items
<1>2. QED
  BY <1>1, FS_Subset, FS_CardinalityType

\* How many records come before one in the list.
LEMMA NewerType ==
    ASSUME NEW n \in Items
    PROVE  /\ NewerItems(n) \in Nat
           /\ InList(n) => NewerItems(n) < Cardinality({m \in Items : InList(m)})
<1> DEFINE listed == {m \in Items : InList(m)}
           newer == {m \in Items : InList(m) /\ m > n}
<1>1. IsFiniteSet(listed) /\ newer \in SUBSET listed
  BY ItemsCounted
<1>2. /\ Cardinality(newer) <= Cardinality(listed)
      /\ Cardinality(listed) = Cardinality(newer) => listed = newer
  BY <1>1, FS_Subset
<1>3. Cardinality(newer) \in Nat /\ Cardinality(listed) \in Nat
  BY ItemsCounted
<1>4. InList(n) => n \in listed /\ n \notin newer
  BY SelectionAssumption DEF Items
<1>5. QED
  BY <1>2, <1>3, <1>4 DEF NewerItems

-----------------------------------------------------------------------------

\* What people do.  While no record comes or goes the listing is the same.
LEMMA SameListing ==
    ASSUME resource' = resource, board'.open = board.open, board'.recent = board.recent,
           picking'.options = picking.options
    PROVE  \A n \in Items : /\ Matches(n)' <=> Matches(n)
                            /\ InList(n)' <=> InList(n)
                            /\ NewerItems(n)' = NewerItems(n)
<1>1. ASSUME NEW n \in Items PROVE (InList(n)' <=> InList(n)) /\ (Keeps(n)' <=> Keeps(n))
  BY DEF InList, Keeps
<1>2. ASSUME NEW n \in Items PROVE NewerItems(n)' = NewerItems(n)
  BY <1>1 DEF NewerItems
<1>3. QED
  BY <1>1, <1>2 DEF Matches

\* What has been listed stays right, if no record comes or goes or if the run knows.
LEMMA ListingGoesOn ==
    ASSUME SelectionInv, resource' = resource,
           picking'.at = picking.at, picking'.options = picking.options,
           picking'.copies = picking.copies, picking'.chosen = picking.chosen,
           picking'.from = picking.from,
           picking.at # "idle" /\ ~picking'.moved =>
               /\ ~picking.moved
               /\ board'.open = board.open /\ board'.recent = board.recent
    PROVE  ListedOnce' /\ Gathered' /\ SelectionIsExact'
<1>1. CASE picking.at = "idle" \/ picking'.moved
  BY <1>1 DEF ListedOnce, Gathered, SelectionIsExact
<1>2. CASE picking.at # "idle" /\ ~picking'.moved
  <2>1. \A n \in Items : /\ Matches(n)' <=> Matches(n)
                         /\ NewerItems(n)' = NewerItems(n)
    BY <1>2, SameListing
  <2>2. ListedOnce' /\ Gathered'
    BY <1>2, <2>1 DEF SelectionInv, ListedOnce, Gathered
  <2>3. SelectionIsExact'
    BY <1>2 DEF SelectionInv, SelectionIsExact, Kept
  <2>4. QED
    BY <2>2, <2>3
<1>3. QED
  BY <1>1, <1>2

\* What has been heard is still heard if comments are added only behind those
\* that were there when the run began, or the thread counts as cut.
LEMMA HearingGoesOn ==
    ASSUME SelectionInv,
           picking'.at = picking.at, picking'.options = picking.options,
           picking'.chosen = picking.chosen, picking'.heard = picking.heard,
           picking'.place = picking.place, picking'.turn = picking.turn,
           picking'.from = picking.from, picking'.upto = picking.upto,
           \A n \in Items, t \in Threads : <<n, t>> \notin picking'.cut =>
               /\ <<n, t>> \notin picking.cut
               /\ \A c \in board'.talk[n][t].kept : c <= picking.upto[n][t] =>
                     /\ c \in board.talk[n][t].kept
                     /\ Older(c, board'.talk[n][t].kept) = Older(c, board.talk[n][t].kept)
    PROVE  HeardInTurn'
<1>1. Turns' = Turns
  BY DEF Turns
<1>2. ASSUME NEW k \in DOMAIN picking.chosen, NEW j \in DOMAIN Turns
      PROVE  picking.chosen[k] \in Items /\ Turns[j] \in Threads
  BY TurnsType DEF SelectionInv, SelectionTypeOK, Picking
<1>3. ASSUME NEW k \in DOMAIN picking.chosen, NEW j \in DOMAIN Turns, HeardAll(k, Turns[j])
      PROVE  HeardAll(k, Turns[j])'
  <2> DEFINE n == picking.chosen[k]
             t == Turns[j]
  <2>1. n \in Items /\ t \in Threads
    BY <1>2
  <2>2. SUFFICES ASSUME <<n, t>> \notin picking'.cut,
                        NEW c \in board'.talk[n][t].kept, c <= picking.upto[n][t]
                 PROVE  c \in picking.heard[k][t]
    BY <1>1 DEF HeardAll
  <2>3. <<n, t>> \notin picking.cut /\ c \in board.talk[n][t].kept
    BY <2>1, <2>2
  <2>4. QED
    BY <1>3, <2>2, <2>3 DEF HeardAll
<1>4. ASSUME NEW k \in DOMAIN picking.chosen, NEW j \in DOMAIN Turns,
             HeardTo(k, Turns[j], picking.from)
      PROVE  HeardTo(k, Turns[j], picking.from)'
  <2> DEFINE n == picking.chosen[k]
             t == Turns[j]
  <2>1. n \in Items /\ t \in Threads
    BY <1>2
  <2>2. SUFFICES ASSUME <<n, t>> \notin picking'.cut,
                        NEW c \in board'.talk[n][t].kept, c <= picking.upto[n][t],
                        Older(c, board'.talk[n][t].kept) < picking.from
                 PROVE  c \in picking.heard[k][t]
    BY <1>1 DEF HeardTo
  <2>3. /\ <<n, t>> \notin picking.cut /\ c \in board.talk[n][t].kept
        /\ Older(c, board'.talk[n][t].kept) = Older(c, board.talk[n][t].kept)
    BY <2>1, <2>2
  <2>4. QED
    BY <1>4, <2>2, <2>3 DEF HeardTo
<1>5. QED
  BY <1>1, <1>3, <1>4 DEF SelectionInv, HeardInTurn

\* Of a step of those who work on the repository: a comment is added at most.
LEMMA BecomesInv ==
    ASSUME SelectionInv, NEW new \in Board, Becomes(new), meddling' \in 0..Meddling,
           \A n \in Items, t \in Threads :
              \/ new.talk[n][t] = board.talk[n][t]
              \/ LET c == board.talk[n][t].last + 1 IN
                 new.talk[n][t] = [last |-> c, kept |-> board.talk[n][t].kept \cup {c}]
    PROVE  SelectionInv'
<1> DEFINE moved == picking.moved \/ /\ picking.at # "idle"
                                     /\ <<new.open, new.recent>> # <<board.open, board.recent>>
<1>0. SelectionTypeOK /\ Numbered /\ Unheard
  BY DEF SelectionInv
<1>1. board' = new /\ resource' = resource /\ picking' = [picking EXCEPT !.moved = moved]
  BY DEF Becomes
<1>2. moved \in BOOLEAN
  BY <1>0 DEF SelectionTypeOK, Picking
<1>3. picking \in Picking
  BY <1>0 DEF SelectionTypeOK
<1> HIDE DEF moved
<1>4. /\ picking' \in Picking /\ picking'.moved = moved
      /\ picking'.at = picking.at /\ picking'.options = picking.options
      /\ picking'.copies = picking.copies /\ picking'.chosen = picking.chosen
      /\ picking'.from = picking.from /\ picking'.heard = picking.heard
      /\ picking'.place = picking.place /\ picking'.turn = picking.turn
      /\ picking'.upto = picking.upto /\ picking'.cut = picking.cut
  BY <1>1, <1>2, <1>3 DEF Picking
<1>5. SelectionTypeOK' /\ Unheard'
  BY <1>0, <1>1, <1>4 DEF SelectionTypeOK, Unheard
<1>6. ListedOnce' /\ Gathered' /\ SelectionIsExact'
  <2>1. picking.at # "idle" /\ ~picking'.moved =>
            ~picking.moved /\ board'.open = board.open /\ board'.recent = board.recent
    BY <1>1, <1>4 DEF moved
  <2>2. QED
    BY <1>1, <1>4, <2>1, ListingGoesOn
<1>7. ASSUME NEW n \in Items, NEW t \in Threads
      PROVE  /\ board.talk[n][t].last \in Nat
             /\ board.talk[n][t].kept \subseteq 1..board.talk[n][t].last
             /\ picking.at # "idle" => picking.upto[n][t] <= board.talk[n][t].last
             /\ picking.upto[n][t] \in Nat
  BY <1>0, SelectionAssumption DEF Numbered, SelectionTypeOK, Board, Picking
<1>8. Numbered'
  <2> SUFFICES ASSUME NEW n \in Items, NEW t \in Threads
               PROVE  /\ new.talk[n][t].kept \subseteq 1..new.talk[n][t].last
                      /\ picking.at # "idle" => picking.upto[n][t] <= new.talk[n][t].last
    BY <1>1, <1>4 DEF Numbered
  <2>1. CASE new.talk[n][t] = board.talk[n][t]
    BY <1>7, <2>1
  <2> DEFINE c == board.talk[n][t].last + 1
  <2>2. CASE new.talk[n][t] = [last |-> c, kept |-> board.talk[n][t].kept \cup {c}]
    BY <1>7, <2>2
  <2>3. QED
    BY <2>1, <2>2
<1>9. HeardInTurn'
  <2>0. CASE picking.at = "idle"
    BY <1>4, <2>0 DEF HeardInTurn
  <2>1. CASE picking.at # "idle"
    <3>1. ASSUME NEW n \in Items, NEW t \in Threads,
                 NEW c \in new.talk[n][t].kept, c <= picking.upto[n][t]
          PROVE  /\ c \in board.talk[n][t].kept
                 /\ Older(c, new.talk[n][t].kept) = Older(c, board.talk[n][t].kept)
      <4> DEFINE l == board.talk[n][t].last + 1
                 kept == board.talk[n][t].kept
      <4>1. CASE new.talk[n][t] = board.talk[n][t]
        BY <3>1, <4>1
      <4>2. CASE new.talk[n][t] = [last |-> l, kept |-> kept \cup {l}]
        <5>1. c \in kept \cup {l}
          BY <4>2
        <5>2. c < l /\ c \in kept /\ ~ (l < c)
          BY <1>7, <2>1, <3>1, <5>1
        <5>3. {b \in kept \cup {l} : b < c} = {b \in kept : b < c}
          BY <5>2
        <5>4. new.talk[n][t].kept = kept \cup {l}
          BY <4>2
        <5>5. QED
          BY <5>2, <5>3, <5>4 DEF Older
      <4>3. QED
        BY <4>1, <4>2
    <3>2. QED
      BY <1>1, <1>4, <3>1, HearingGoesOn
  <2>2. QED
    BY <2>0, <2>1
<1>10. QED
  BY <1>5, <1>6, <1>8, <1>9 DEF SelectionInv

\* Their steps are bounded.
LEMMA MeddleType ==
    ASSUME SelectionTypeOK, Meddle
    PROVE  meddling' \in 0..Meddling
BY SelectionAssumption DEF SelectionTypeOK, Meddle

\* A record is opened.
LEMMA OpenItemInv ==
    ASSUME SelectionInv, NEW n \in Items, OpenItem(n)
    PROVE  SelectionInv'
<1> DEFINE new == [board EXCEPT !.last = IF n > @ THEN n ELSE @,
                                !.open = @ \cup {n}, !.recent = @ \cup {n}]
           last == IF n > board.last THEN n ELSE board.last
<1>0. SelectionTypeOK
  BY DEF SelectionInv
<1>1. new \in Board /\ new.talk = board.talk
  <2>1. last \in 0..LastItem
    BY <1>0, SelectionAssumption DEF SelectionTypeOK, Board, Items
  <2>2. new = [board EXCEPT !.last = last, !.open = board.open \cup {n},
                            !.recent = board.recent \cup {n}]
    OBVIOUS
  <2> HIDE DEF last, new
  <2>3. QED
    BY <1>0, <2>1, <2>2 DEF SelectionTypeOK, Board
<1>2. Becomes(new) /\ meddling' \in 0..Meddling
  BY <1>0, MeddleType DEF OpenItem
<1> HIDE DEF new
<1>3. QED
  BY <1>1, <1>2, BecomesInv

\* A record is closed.
LEMMA CloseItemInv ==
    ASSUME SelectionInv, NEW n \in Items, CloseItem(n)
    PROVE  SelectionInv'
<1> DEFINE new == [board EXCEPT !.open = @ \ {n}, !.recent = @ \cup {n}]
<1>0. SelectionTypeOK
  BY DEF SelectionInv
<1>1. new \in Board /\ new.talk = board.talk
  BY <1>0 DEF SelectionTypeOK, Board
<1>2. Becomes(new) /\ meddling' \in 0..Meddling
  BY <1>0, MeddleType DEF CloseItem
<1> HIDE DEF new
<1>3. QED
  BY <1>1, <1>2, BecomesInv

\* A record is edited, and is a recent one from then on.
LEMMA EditItemInv ==
    ASSUME SelectionInv, NEW n \in Items, EditItem(n)
    PROVE  SelectionInv'
<1> DEFINE new == [board EXCEPT !.recent = @ \cup {n}]
<1>0. SelectionTypeOK
  BY DEF SelectionInv
<1>1. new \in Board /\ new.talk = board.talk
  BY <1>0 DEF SelectionTypeOK, Board
<1>2. Becomes(new) /\ meddling' \in 0..Meddling
  BY <1>0, MeddleType DEF EditItem
<1> HIDE DEF new
<1>3. QED
  BY <1>1, <1>2, BecomesInv

\* A comment is added after those there were when the run began.
LEMMA AddCommentInv ==
    ASSUME SelectionInv, NEW n \in Items, NEW t \in Threads, AddComment(n, t)
    PROVE  SelectionInv'
<1> DEFINE c == board.talk[n][t].last + 1
           said == [last |-> c, kept |-> board.talk[n][t].kept \cup {c}]
           talk == [board.talk EXCEPT ![n][t] = said]
           new == [board EXCEPT !.talk[n][t] = [last |-> c, kept |-> @.kept \cup {c}],
                                !.recent = @ \cup {n}]
<1>0. SelectionTypeOK
  BY DEF SelectionInv
<1>1. c \in 0..LastComment /\ c \in Comments /\ board.talk[n][t].kept \subseteq Comments
  BY <1>0, SelectionAssumption DEF AddComment, SelectionTypeOK, Board, Comments
<1>2. said \in [last : 0..LastComment, kept : SUBSET Comments]
  BY <1>1
<1>3. new = [board EXCEPT !.talk = talk, !.recent = board.recent \cup {n}]
  OBVIOUS
<1> HIDE DEF said
<1>4. talk \in [Items -> [Threads -> [last : 0..LastComment, kept : SUBSET Comments]]]
  BY <1>0, <1>2 DEF SelectionTypeOK, Board
<1>5. \A m \in Items, u \in Threads :
          talk[m][u] = IF m = n /\ u = t THEN said ELSE board.talk[m][u]
  BY <1>0 DEF SelectionTypeOK, Board
<1>6. Becomes(new) /\ meddling' \in 0..Meddling
  BY <1>0, MeddleType DEF AddComment
<1> HIDE DEF talk, new
<1>7. new \in Board /\ new.talk = talk
  BY <1>0, <1>3, <1>4 DEF SelectionTypeOK, Board
<1>8. \A m \in Items, u \in Threads :
         \/ new.talk[m][u] = board.talk[m][u]
         \/ LET l == board.talk[m][u].last + 1 IN
            new.talk[m][u] = [last |-> l, kept |-> board.talk[m][u].kept \cup {l}]
  BY <1>5, <1>7 DEF said
<1>9. QED
  BY <1>6, <1>7, <1>8, BecomesInv

\* A comment is deleted: its thread counts as cut from then on.
LEMMA DropCommentInv ==
    ASSUME SelectionInv, NEW n \in Items, NEW t \in Threads, NEW c, DropComment(n, t, c)
    PROVE  SelectionInv'
<1> DEFINE said == [board.talk[n][t] EXCEPT !.kept = @ \ {c}]
           talk == [board.talk EXCEPT ![n][t] = said]
           cut == IF picking.at = "idle" THEN picking.cut ELSE picking.cut \cup {<<n, t>>}
<1>0. SelectionTypeOK /\ Numbered /\ Unheard
  BY DEF SelectionInv
<1>1. board' = [board EXCEPT !.talk = talk]
  BY DEF DropComment
<1>2. /\ picking' = [picking EXCEPT !.cut = cut] /\ resource' = resource
      /\ meddling' \in 0..Meddling
  BY <1>0, MeddleType DEF DropComment
<1>3. said \in [last : 0..LastComment, kept : SUBSET Comments]
  BY <1>0 DEF SelectionTypeOK, Board
<1>4. said.last = board.talk[n][t].last /\ said.kept \subseteq board.talk[n][t].kept
  BY <1>0 DEF SelectionTypeOK, Board
<1> HIDE DEF said
<1>5. talk \in [Items -> [Threads -> [last : 0..LastComment, kept : SUBSET Comments]]]
  BY <1>0, <1>3 DEF SelectionTypeOK, Board
<1>6. \A m \in Items, u \in Threads :
          talk[m][u] = IF m = n /\ u = t THEN said ELSE board.talk[m][u]
  BY <1>0 DEF SelectionTypeOK, Board
<1>7. cut \in SUBSET (Items \X Threads) /\ picking.cut \subseteq cut
      /\ (picking.at # "idle" => <<n, t>> \in cut)
  BY <1>0 DEF SelectionTypeOK, Picking
<1> HIDE DEF talk, cut
<1>8. /\ board' \in Board /\ board'.talk = talk
      /\ board'.open = board.open /\ board'.recent = board.recent
  BY <1>0, <1>1, <1>5 DEF SelectionTypeOK, Board
<1>9. /\ picking' \in Picking /\ picking'.moved = picking.moved
      /\ picking'.at = picking.at /\ picking'.options = picking.options
      /\ picking'.copies = picking.copies /\ picking'.chosen = picking.chosen
      /\ picking'.from = picking.from /\ picking'.heard = picking.heard
      /\ picking'.place = picking.place /\ picking'.turn = picking.turn
      /\ picking'.upto = picking.upto /\ picking'.cut = cut
  BY <1>0, <1>2, <1>7 DEF SelectionTypeOK, Picking
<1>10. SelectionTypeOK' /\ Unheard'
  BY <1>0, <1>2, <1>8, <1>9 DEF SelectionTypeOK, Unheard
<1>11. ListedOnce' /\ Gathered' /\ SelectionIsExact'
  BY <1>2, <1>8, <1>9, ListingGoesOn
<1>12. Numbered'
  BY <1>0, <1>4, <1>6, <1>8, <1>9 DEF Numbered
<1>13. HeardInTurn'
  <2>1. CASE picking.at = "idle"
    BY <1>9, <2>1 DEF HeardInTurn
  <2>2. CASE picking.at # "idle"
    <3>1. ASSUME NEW m \in Items, NEW u \in Threads, <<m, u>> \notin cut
          PROVE  <<m, u>> \notin picking.cut /\ talk[m][u] = board.talk[m][u]
      BY <1>6, <1>7, <2>2, <3>1
    <3>2. QED
      BY <1>8, <1>9, <3>1, HearingGoesOn
  <2>3. QED
    BY <2>1, <2>2
<1>14. QED
  BY <1>10, <1>11, <1>12, <1>13 DEF SelectionInv

-----------------------------------------------------------------------------

\* The run.
LEMMA BeginPickingInv ==
    ASSUME SelectionInv, NEW options \in PickOptions, BeginPicking(options)
    PROVE  SelectionInv'
<1> DEFINE upto == [n \in Items |-> [t \in Threads |-> board.talk[n][t].last]]
           fresh == NewPicking(options)
<1>0. SelectionTypeOK /\ Numbered
  BY DEF SelectionInv
<1>1. upto \in [Items -> [Threads -> 0..LastComment]]
  BY <1>0 DEF SelectionTypeOK, Board
<1>2. \A n \in Items, t \in Threads : upto[n][t] = board.talk[n][t].last
  OBVIOUS
<1>3. fresh \in Picking
  BY NewPickingType
<1>4. /\ picking' = [fresh EXCEPT !.at = "list", !.upto = upto]
      /\ resource' = resource /\ board' = board /\ meddling' = meddling
  BY DEF BeginPicking
<1>5. /\ fresh.from = 0 /\ fresh.copies = [n \in Items |-> 0]
      /\ fresh.place = 1 /\ fresh.turn = 1
  BY DEF NewPicking
<1> HIDE DEF upto, fresh
<1>6. /\ picking' \in Picking /\ picking'.at = "list" /\ picking'.upto = upto
      /\ picking'.from = 0 /\ picking'.copies = [n \in Items |-> 0]
      /\ picking'.place = 1 /\ picking'.turn = 1
  BY <1>1, <1>3, <1>4, <1>5 DEF Picking
<1>7. SelectionTypeOK' /\ Unheard'
  BY <1>0, <1>4, <1>6 DEF SelectionTypeOK, Unheard
<1>8. Numbered'
  <2>1. ASSUME NEW n \in Items, NEW t \in Threads
        PROVE  upto[n][t] <= board.talk[n][t].last
    BY <1>0, <1>2, SelectionAssumption DEF SelectionTypeOK, Board
  <2>2. QED
    BY <1>0, <1>4, <1>6, <2>1 DEF Numbered
<1>9. ListedOnce'
  <2>1. ASSUME NEW n \in Items PROVE ~ (NewerItems(n)' < 0)
    <3>1. {m \in Items : InList(m)' /\ m > n} \in SUBSET Items
      OBVIOUS
    <3>2. NewerItems(n)' \in Nat
      BY <3>1, ItemsCounted DEF NewerItems
    <3>3. QED
      BY <3>2
  <2>2. QED
    BY <1>6, <2>1 DEF ListedOnce
<1>10. Gathered' /\ SelectionIsExact' /\ HeardInTurn'
  BY <1>6 DEF Gathered, SelectionIsExact, HeardInTurn
<1>11. QED
  BY <1>7, <1>8, <1>9, <1>10 DEF SelectionInv

\* A page of records is read: those that match, of the next places.
LEMMA ReadItemsInv ==
    ASSUME SelectionInv, ReadItems
    PROVE  SelectionInv'
<1> DEFINE copies == [n \in Items |->
                        IF n \in ItemPage(picking.from) /\ Keeps(n) THEN picking.copies[n] + 1
                                                                    ELSE picking.copies[n]]
           at == IF LastItemPage THEN "choose" ELSE "list"
<1>0. SelectionTypeOK /\ Numbered /\ Unheard /\ ListedOnce
  BY DEF SelectionInv
<1>1. /\ picking.at = "list" /\ resource' = resource /\ board' = board /\ meddling' = meddling
      /\ picking' = [picking EXCEPT !.copies = copies, !.from = picking.from + PerPage, !.at = at]
  BY DEF ReadItems
<1>2. picking.from \in Nat /\ PerPage \in Nat \ {0} /\ picking.from + PerPage \in Nat
  BY <1>0, SelectionAssumption DEF SelectionTypeOK, Picking
<1>3. copies \in [Items -> Nat]
  BY <1>0 DEF SelectionTypeOK, Picking
<1>4. \A n \in Items : copies[n] = IF n \in ItemPage(picking.from) /\ Keeps(n)
                                   THEN picking.copies[n] + 1 ELSE picking.copies[n]
  OBVIOUS
<1>5. at \in {"list", "choose"} /\ (at = "choose" <=> LastItemPage)
  OBVIOUS
<1> HIDE DEF copies, at
<1>6. /\ picking' \in Picking /\ picking'.at = at /\ picking'.copies = copies
      /\ picking'.from = picking.from + PerPage /\ picking'.moved = picking.moved
      /\ picking'.options = picking.options /\ picking'.upto = picking.upto
      /\ picking'.place = picking.place /\ picking'.turn = picking.turn
  BY <1>0, <1>1, <1>2, <1>3, <1>5 DEF SelectionTypeOK, Picking
<1>7. SelectionTypeOK' /\ Unheard' /\ Numbered'
  BY <1>0, <1>1, <1>5, <1>6 DEF SelectionTypeOK, Unheard, Numbered
<1>8. SelectionIsExact' /\ HeardInTurn'
  BY <1>5, <1>6 DEF SelectionIsExact, HeardInTurn
<1>9. \A n \in Items : /\ Matches(n)' <=> Matches(n)
                       /\ NewerItems(n)' = NewerItems(n)
  BY <1>1, <1>6, SameListing
<1>10. ASSUME ~picking.moved, NEW n \in Items
       PROVE  /\ copies[n] = IF Matches(n) /\ NewerItems(n) < picking.from + PerPage
                             THEN 1 ELSE 0
              /\ LastItemPage => copies[n] = IF Matches(n) THEN 1 ELSE 0
  <2>1. picking.copies[n] = IF Matches(n) /\ NewerItems(n) < picking.from THEN 1 ELSE 0
    BY <1>0, <1>1, <1>10 DEF ListedOnce
  <2>2. n \in ItemPage(picking.from) <=> /\ InList(n) /\ picking.from <= NewerItems(n)
                                         /\ NewerItems(n) < picking.from + PerPage
    BY DEF ItemPage
  <2>3. NewerItems(n) \in Nat
    BY NewerType
  <2>4. copies[n] = IF Matches(n) /\ NewerItems(n) < picking.from + PerPage THEN 1 ELSE 0
    BY <1>2, <1>4, <2>1, <2>2, <2>3 DEF Matches
  <2>5. ASSUME LastItemPage, Matches(n) PROVE NewerItems(n) < picking.from + PerPage
    <3>1. NewerItems(n) < Cardinality({m \in Items : InList(m)})
      BY <2>5, NewerType DEF Matches
    <3>2. Cardinality({m \in Items : InList(m)}) \in Nat
      BY ItemsCounted
    <3>3. QED
      BY <1>2, <2>3, <2>5, <3>1, <3>2 DEF LastItemPage
  <2>6. QED
    BY <2>4, <2>5
<1>11. ListedOnce' /\ Gathered'
  BY <1>5, <1>6, <1>9, <1>10 DEF ListedOnce, Gathered
<1>12. QED
  BY <1>7, <1>8, <1>11 DEF SelectionInv

-----------------------------------------------------------------------------

\* max_items.  CopiesTo sums up the copies, and each place up to the last sum
\* belongs to one record.
LEMMA CopiesType ==
    ASSUME SelectionTypeOK
    PROVE  /\ CopiesTo \in [0..LastItem -> Nat]
           /\ CopiesTo[0] = 0
           /\ \A n \in Items : CopiesTo[n] = CopiesTo[n - 1] + picking.copies[n]
<1> DEFINE copies == [n \in Nat |-> IF n \in Items THEN picking.copies[n] ELSE 0]
           step == [x \in Nat \X Nat |-> x[2] + copies[x[1]]]
           Sum(f) == [n \in 0..LastItem |-> IF n = 0 THEN 0 ELSE f[n - 1] + picking.copies[n]]
<1>1. /\ LastItem \in Nat /\ Items = 1..LastItem
      /\ \A n \in Items : n \in Nat /\ n # 0 /\ n \in 0..LastItem /\ n - 1 \in 0..LastItem
  BY SelectionAssumption DEF Items
<1>2. \A n \in Items : picking.copies[n] \in Nat
  BY DEF SelectionTypeOK, Picking
<1>3. copies \in [Nat -> Nat]
  BY <1>2
<1>4. step \in [Nat \X Nat -> Nat]
  BY <1>3
<1>5. \A n \in Items, k \in Nat : step[<<n, k>>] = k + picking.copies[n]
  BY <1>1
<1> HIDE DEF step
<1>6. PICK f : Recurs(f, LastItem, Nat, 0, step)
  BY <1>1, <1>4, Recursion
<1>a. /\ f \in [0..LastItem -> Nat] /\ f[0] = 0
      /\ \A n \in 1..LastItem : f[n] = step[<<n, f[n - 1]>>]
  BY <1>6 DEF Recurs
<1>7. \A n \in Items : f[n] = f[n - 1] + picking.copies[n]
  BY <1>1, <1>5, <1>a
<1>8. f = Sum(f)
  BY <1>1, <1>7, <1>a
<1>9. CopiesTo = CHOOSE g : g = Sum(g)
  BY DEF CopiesTo
<1> HIDE DEF Sum
<1>10. CopiesTo = Sum(CopiesTo)
  BY <1>8, <1>9
<1> DEFINE s == {n \in 0..LastItem : CopiesTo[n] \in Nat}
<1>11. CopiesTo[0] = 0 /\ \A n \in Items : CopiesTo[n] = CopiesTo[n - 1] + picking.copies[n]
  BY <1>1, <1>10 DEF Sum
<1>12. 0 \in s
  BY <1>1, <1>11
<1>13. ASSUME NEW n \in 0..(LastItem - 1), n \in s PROVE n + 1 \in s
  <2>1. n + 1 \in Items /\ (n + 1) - 1 = n
    BY <1>1
  <2>2. CopiesTo[n + 1] = CopiesTo[n] + picking.copies[n + 1]
    BY <1>11, <2>1
  <2>3. QED
    BY <1>1, <1>2, <1>13, <2>1, <2>2
<1>14. \A n \in 0..LastItem : n \in s
  <2> HIDE DEF s
  <2>1. QED
    BY <1>1, <1>12, <1>13, UpTo
<1>15. QED
  BY <1>10, <1>11, <1>14 DEF Sum

\* The sum of copies grows with the record.
LEMMA CopiesGrow ==
    ASSUME SelectionTypeOK, NEW n \in 0..LastItem
    PROVE  \A m \in 0..LastItem : n <= m => CopiesTo[n] <= CopiesTo[m]
<1> DEFINE s == {m \in 0..LastItem : n <= m => CopiesTo[n] <= CopiesTo[m]}
<1>1. LastItem \in Nat /\ Items = 1..LastItem
  BY SelectionAssumption DEF Items
<1>2. \A m \in 0..LastItem : CopiesTo[m] \in Nat
  BY CopiesType
<1>3. 0 \in s
  BY <1>1, <1>2
<1>4. ASSUME NEW m \in 0..(LastItem - 1), m \in s PROVE m + 1 \in s
  <2>1. m + 1 \in Items /\ m + 1 \in 0..LastItem /\ (m + 1) - 1 = m
    BY <1>1
  <2>2. CopiesTo[m + 1] = CopiesTo[m] + picking.copies[m + 1] /\ picking.copies[m + 1] \in Nat
    BY <2>1, CopiesType DEF SelectionTypeOK, Picking
  <2>3. CopiesTo[m] <= CopiesTo[m + 1]
    BY <1>1, <1>2, <2>2
  <2>4. CASE n <= m
    BY <1>1, <1>2, <1>4, <2>1, <2>3, <2>4
  <2>5. CASE n = m + 1
    BY <1>2, <2>1, <2>5
  <2>6. CASE n > m + 1
    BY <2>1, <2>6
  <2>7. QED
    BY <1>1, <2>4, <2>5, <2>6
<1>5. \A m \in 0..LastItem : m \in s
  <2> HIDE DEF s
  <2>1. QED
    BY <1>1, <1>3, <1>4, UpTo
<1>6. QED
  BY <1>5

\* Each place belongs to a record.
LEMMA PlaceTaken ==
    ASSUME SelectionTypeOK, NEW k \in 1..CopiesTo[LastItem]
    PROVE  /\ InPlace(k) \in Items
           /\ CopiesTo[InPlace(k) - 1] < k /\ k <= CopiesTo[InPlace(k)]
<1> DEFINE s == {n \in Items : k <= CopiesTo[n]}
<1>1. LastItem \in Nat \ {0} /\ Items = 1..LastItem
  BY SelectionAssumption DEF Items
<1>2. CopiesTo[0] = 0 /\ \A n \in 0..LastItem : CopiesTo[n] \in Nat
  BY CopiesType
<1>3. k \in Nat \ {0} /\ k <= CopiesTo[LastItem]
  BY <1>1, <1>2
<1>4. s \in SUBSET Nat /\ s # {}
  BY <1>1, <1>3
<1>5. PICK n \in s : \A m \in s : n <= m
  BY <1>4, LeastNumber
<1>6. n \in Items /\ n - 1 \in 0..LastItem /\ n - 1 \notin s
  BY <1>1, <1>5
<1>7. CopiesTo[n - 1] < k
  <2>1. CASE n = 1
    BY <1>2, <1>3, <2>1
  <2>2. CASE n # 1
    <3>1. n - 1 \in Items
      BY <1>1, <1>6, <2>2
    <3>2. ~ (k <= CopiesTo[n - 1])
      BY <1>6, <3>1
    <3>3. QED
      BY <1>2, <1>3, <1>6, <3>2
  <2>3. QED
    BY <2>1, <2>2
<1>8. \E m \in Items : CopiesTo[m - 1] < k /\ k <= CopiesTo[m]
  BY <1>5, <1>6, <1>7
<1>9. QED
  BY <1>8 DEF InPlace

\* Of records that were listed once each the sum is a count.
LEMMA CopiesCount ==
    ASSUME SelectionTypeOK, NEW wanted \in SUBSET Items,
           \A n \in Items : picking.copies[n] = IF n \in wanted THEN 1 ELSE 0
    PROVE  CopiesTo[LastItem] = Cardinality(wanted)
<1> DEFINE upTo(n) == {m \in wanted : m <= n}
           s == {n \in 0..LastItem : CopiesTo[n] = Cardinality(upTo(n))}
<1>1. LastItem \in Nat /\ \A n \in Items : n \in Nat /\ 1 <= n /\ n <= LastItem
  BY SelectionAssumption DEF Items
<1>0. \A n \in wanted : n \in Items
  OBVIOUS
<1>2. CopiesTo[0] = 0 /\ \A n \in 0..LastItem : CopiesTo[n] \in Nat
  BY CopiesType
<1>3. 0 \in s
  <2>1. \A m \in wanted : ~ (m <= 0)
    BY <1>0, <1>1
  <2>2. upTo(0) = {}
    BY <2>1
  <2>3. Cardinality(upTo(0)) = 0
    BY <2>2, FS_EmptySet
  <2>4. QED
    BY <1>1, <1>2, <2>3
<1>4. ASSUME NEW n \in 0..(LastItem - 1), n \in s PROVE n + 1 \in s
  <2>1. n + 1 \in Items /\ n + 1 \in 0..LastItem /\ (n + 1) - 1 = n /\ n \in Nat
    BY SelectionAssumption DEF Items
  <2>0. \A m \in wanted : m <= n + 1 <=> m <= n \/ m = n + 1
    BY <1>0, <1>1, <2>1
  <2>2. CopiesTo[n + 1] = CopiesTo[n] + picking.copies[n + 1]
    BY <2>1, CopiesType
  <2>3. upTo(n) \in SUBSET Items
    OBVIOUS
  <2>4. IsFiniteSet(upTo(n)) /\ Cardinality(upTo(n)) \in Nat
    BY <2>3, ItemsCounted
  <2>5. CASE n + 1 \in wanted
    <3>1. upTo(n + 1) = upTo(n) \cup {n + 1} /\ n + 1 \notin upTo(n)
      BY <2>0, <2>1, <2>5
    <3>2. Cardinality(upTo(n + 1)) = Cardinality(upTo(n)) + 1
      BY <2>4, <3>1, FS_AddElement
    <3>3. QED
      BY <1>4, <2>1, <2>2, <2>5, <3>2
  <2>6. CASE n + 1 \notin wanted
    <3>1. upTo(n + 1) = upTo(n)
      BY <2>0, <2>1, <2>6
    <3>2. CopiesTo[n + 1] = CopiesTo[n]
      BY <1>1, <1>2, <2>1, <2>2, <2>6
    <3>3. QED
      BY <1>4, <2>1, <3>1, <3>2
  <2>7. QED
    BY <2>5, <2>6
<1>5. LastItem \in s
  <2>1. LastItem \in 0..LastItem
    BY <1>1
  <2> HIDE DEF s
  <2>2. QED
    BY <1>1, <1>3, <1>4, <2>1, UpTo
<1>6. upTo(LastItem) = wanted
  BY <1>0, <1>1
<1>7. QED
  BY <1>5, <1>6

\* How many of the places are kept.
LEMMA KeptType ==
    ASSUME SelectionTypeOK, NEW count \in Nat
    PROVE  Kept(count) \in 0..count
<1>1. picking.options.limit \in Nat
  BY SelectionAssumption DEF SelectionTypeOK, Picking, PickOptions
<1>2. QED
  BY <1>1 DEF Kept

\* The first places go to the first of the wanted records.
LEMMA ChosenAreFirst ==
    ASSUME SelectionTypeOK, NEW wanted \in SUBSET Items,
           \A n \in Items : picking.copies[n] = IF n \in wanted THEN 1 ELSE 0,
           NEW count \in 0..CopiesTo[LastItem]
    PROVE  /\ \A k \in 1..count : InPlace(k) \in wanted
           /\ \A j, k \in 1..count : j < k => InPlace(j) < InPlace(k)
           /\ \A n \in wanted : \/ \E k \in 1..count : InPlace(k) = n
                                \/ \A k \in 1..count : InPlace(k) < n
<1>1. LastItem \in Nat \ {0} /\ Items = 1..LastItem
  BY SelectionAssumption DEF Items
<1>2. CopiesTo[0] = 0 /\ \A n \in 0..LastItem : CopiesTo[n] \in Nat
  BY CopiesType
<1>3. ASSUME NEW n \in Items
      PROVE  /\ n \in 0..LastItem /\ n - 1 \in 0..LastItem
             /\ CopiesTo[n] = CopiesTo[n - 1] + (IF n \in wanted THEN 1 ELSE 0)
  BY <1>1, CopiesType
<1>4. ASSUME NEW k \in 1..count
      PROVE  /\ k \in Nat \ {0} /\ InPlace(k) \in wanted
             /\ CopiesTo[InPlace(k)] = k /\ CopiesTo[InPlace(k) - 1] = k - 1
  <2>1. k \in 1..CopiesTo[LastItem] /\ k \in Nat \ {0}
    BY <1>1, <1>2
  <2>2. /\ InPlace(k) \in Items
        /\ CopiesTo[InPlace(k) - 1] < k /\ k <= CopiesTo[InPlace(k)]
    BY <2>1, PlaceTaken
  <2> DEFINE n == InPlace(k)
  <2> HIDE DEF n
  <2>3. n \in Items /\ CopiesTo[n - 1] < k /\ k <= CopiesTo[n]
    BY <2>2 DEF n
  <2>4. CopiesTo[n] \in Nat /\ CopiesTo[n - 1] \in Nat
    BY <1>2, <1>3, <2>3
  <2>5. n \in wanted /\ CopiesTo[n] = k /\ CopiesTo[n - 1] = k - 1
    BY <1>3, <2>1, <2>3, <2>4
  <2>6. QED
    BY <2>1, <2>5 DEF n
<1>5. ASSUME NEW n \in Items, NEW m \in Items, CopiesTo[n] < CopiesTo[m] PROVE n < m
  <2>1. ~ (m <= n)
    BY <1>2, <1>3, <1>5, CopiesGrow
  <2>2. QED
    BY <1>1, <2>1
<1>6. ASSUME NEW j \in 1..count, NEW k \in 1..count, j < k PROVE InPlace(j) < InPlace(k)
  BY <1>4, <1>5, <1>6
<1>7. ASSUME NEW n \in wanted
      PROVE  \/ \E k \in 1..count : InPlace(k) = n
             \/ \A k \in 1..count : InPlace(k) < n
  <2> DEFINE c == CopiesTo[n]
  <2>1. n \in Items /\ c \in Nat /\ c = CopiesTo[n - 1] + 1 /\ CopiesTo[n - 1] \in Nat
    BY <1>2, <1>3
  <2>2. CASE c <= count
    <3>1. c \in 1..count
      BY <1>1, <1>2, <2>1, <2>2
    <3>2. CopiesTo[InPlace(c)] = c /\ CopiesTo[InPlace(c) - 1] = c - 1 /\ InPlace(c) \in Items
      BY <1>4, <3>1
    <3>3. InPlace(c) = n
      <4>1. CASE InPlace(c) < n
        <5>1. InPlace(c) <= n - 1 /\ InPlace(c) \in 0..LastItem /\ n - 1 \in 0..LastItem
          BY <1>1, <2>1, <3>2, <4>1
        <5>2. CopiesTo[InPlace(c)] <= CopiesTo[n - 1]
          BY <5>1, CopiesGrow
        <5>3. QED
          BY <2>1, <3>2, <5>2
      <4>2. CASE n < InPlace(c)
        <5>1. n <= InPlace(c) - 1 /\ n \in 0..LastItem /\ InPlace(c) - 1 \in 0..LastItem
          BY <1>1, <2>1, <3>2, <4>2
        <5>2. c <= CopiesTo[InPlace(c) - 1]
          BY <5>1, CopiesGrow
        <5>3. QED
          BY <2>1, <3>2, <5>2
      <4>3. QED
        BY <1>1, <2>1, <3>2, <4>1, <4>2
    <3>4. QED
      BY <3>1, <3>3
  <2>3. CASE c > count
    <3>1. ASSUME NEW k \in 1..count PROVE InPlace(k) < n
      <4>1. CopiesTo[InPlace(k)] = k /\ InPlace(k) \in Items
        BY <1>4
      <4>2. k < c
        BY <1>1, <1>2, <2>1, <2>3
      <4>3. QED
        BY <1>5, <2>1, <4>1, <4>2
    <3>2. QED
      BY <3>1
  <2>4. QED
    BY <1>1, <1>2, <2>1, <2>2, <2>3
<1>8. QED
  BY <1>4, <1>6, <1>7

\* The first of the wanted records are chosen, in order, each once.
LEMMA ChooseItemsInv ==
    ASSUME SelectionInv, ChooseItems
    PROVE  SelectionInv'
<1> DEFINE count == Kept(CopiesTo[LastItem])
           chosen == [k \in 1..count |-> InPlace(k)]
           heard == [k \in 1..count |-> [t \in Threads |-> {}]]
<1>0. SelectionTypeOK /\ Numbered /\ Unheard /\ Gathered
  BY DEF SelectionInv
<1>1. /\ picking.at = "choose" /\ resource' = resource /\ board' = board /\ meddling' = meddling
      /\ picking' = [picking EXCEPT !.at = "talk", !.from = 0, !.chosen = chosen, !.heard = heard]
  BY DEF ChooseItems
<1>2. CopiesTo[LastItem] \in Nat /\ count \in 0..CopiesTo[LastItem]
  BY <1>0, CopiesType, KeptType, SelectionAssumption
<1>3. \A k \in 1..count : InPlace(k) \in Items
  <2>1. \A k \in 1..count : k \in 1..CopiesTo[LastItem]
    BY <1>2
  <2>2. QED
    BY <1>0, <2>1, PlaceTaken
<1>4. chosen \in Seq(Items) /\ Len(chosen) = count /\ DOMAIN chosen = 1..count
      /\ \A k \in 1..count : chosen[k] = InPlace(k)
  BY <1>2, <1>3
<1>5. heard \in Seq([Threads -> SUBSET Comments]) /\ Len(heard) = count
  BY <1>2
<1> HIDE DEF chosen, heard
<1>6. /\ picking' \in Picking /\ picking'.at = "talk" /\ picking'.from = 0
      /\ picking'.chosen = chosen /\ picking'.heard = heard
      /\ picking'.moved = picking.moved /\ picking'.options = picking.options
      /\ picking'.upto = picking.upto /\ picking'.cut = picking.cut
      /\ picking'.place = picking.place /\ picking'.turn = picking.turn
  BY <1>0, <1>1, <1>4, <1>5 DEF SelectionTypeOK, Picking
<1>7. SelectionTypeOK' /\ Unheard' /\ Numbered'
  BY <1>0, <1>1, <1>6 DEF SelectionTypeOK, Unheard, Numbered
<1>8. ListedOnce' /\ Gathered'
  BY <1>6 DEF ListedOnce, Gathered
<1>9. SelectionIsExact'
  <2> DEFINE wanted == {n \in Items :
                          /\ n \in board.open
                          /\ resource = "issues" => n \notin PullItems
                          /\ resource = "pull_requests" => n \in PullItems
                          /\ picking.options.since => n \in board.recent}
  <2>1. SUFFICES ASSUME ~picking.moved
                 PROVE  /\ \A j, k \in 1..count : j < k => chosen[j] < chosen[k]
                        /\ \A k \in 1..count : chosen[k] \in wanted
                        /\ count = Kept(Cardinality(wanted))
                        /\ \A n \in wanted :
                              \/ \E k \in 1..count : chosen[k] = n
                              \/ \A k \in 1..count : chosen[k] < n
    BY <1>1, <1>4, <1>6 DEF SelectionIsExact, Kept
  <2>2. resource \in {"issues", "pull_requests", "releases"}
    BY <1>0 DEF SelectionTypeOK
  <2>3. \A n \in Items : Matches(n) <=> n \in wanted
    BY <2>2 DEF Matches, InList, Keeps
  <2>4. wanted \in SUBSET Items
    OBVIOUS
  <2> HIDE DEF wanted
  <2>5. \A n \in Items : picking.copies[n] = IF n \in wanted THEN 1 ELSE 0
    BY <1>0, <1>1, <2>1, <2>3 DEF Gathered
  <2>6. CopiesTo[LastItem] = Cardinality(wanted)
    BY <1>0, <2>4, <2>5, CopiesCount
  <2> HIDE DEF count
  <2>7. /\ \A k \in 1..count : InPlace(k) \in wanted
        /\ \A j, k \in 1..count : j < k => InPlace(j) < InPlace(k)
        /\ \A n \in wanted : \/ \E k \in 1..count : InPlace(k) = n
                             \/ \A k \in 1..count : InPlace(k) < n
    BY <1>0, <1>2, <2>4, <2>5, ChosenAreFirst
  <2>8. count = Kept(Cardinality(wanted))
    BY <2>6 DEF count
  <2>9. QED
    BY <1>4, <2>7, <2>8
<1>10. HeardInTurn'
  <2>1. Turns' = Turns
    BY <1>6 DEF Turns
  <2>2. picking.place = 1 /\ picking.turn = 1
    BY <1>0, <1>1 DEF Unheard
  <2>3. Turns # <<>> => 1 \in DOMAIN Turns
    BY <1>0, TurnsType
  <2>4. ASSUME NEW k \in 1..count, NEW j \in DOMAIN Turns
        PROVE  HeardTo(k, Turns[j], 0)'
    <3>1. ASSUME NEW n, NEW t, NEW c, n \in Items, t \in Threads
          PROVE  ~ (Older(c, board.talk[n][t].kept) < 0)
      <4>1. board.talk[n][t].kept \in SUBSET Comments
        BY <1>0, <3>1 DEF SelectionTypeOK, Board
      <4>2. Older(c, board.talk[n][t].kept) \in Nat
        BY <4>1, OlderType
      <4>3. QED
        BY <4>2
    <3>2. chosen[k] \in Items /\ Turns[j] \in Threads
      BY <1>0, <1>3, <1>4, TurnsType
    <3>3. QED
      BY <1>1, <1>6, <2>1, <3>1, <3>2 DEF HeardTo
  <2>5. \A k \in 1..count, j \in DOMAIN Turns :
            /\ ~ (k < 1) /\ ~ (k = 1 /\ j < 1)
    BY <1>0, <1>2, TurnsType
  <2>6. 1 \in 1..(Len(chosen) + 1) /\ Len(heard) = Len(chosen)
    BY <1>2, <1>4, <1>5
  <2>7. QED
    BY <1>4, <1>6, <2>1, <2>2, <2>3, <2>4, <2>5, <2>6 DEF HeardInTurn
<1>11. QED
  BY <1>7, <1>8, <1>9, <1>10 DEF SelectionInv

\* A page of comments is read, and then the next thread or record is at hand.
LEMMA ReadCommentsInv ==
    ASSUME SelectionInv, ReadComments
    PROVE  SelectionInv'
<1> DEFINE place == picking.place
           thread == Turns[picking.turn]
           kept == board.talk[picking.chosen[place]][thread].kept
           heard == [picking.heard EXCEPT ![place][thread] = @ \cup CommentPage(kept)]
           run == [picking EXCEPT !.heard = heard]
           more == ~LastCommentPage(kept)
           next == picking.turn < Len(Turns)
<1>0. SelectionTypeOK /\ Numbered /\ Unheard /\ HeardInTurn /\ SelectionIsExact
  BY DEF SelectionInv
<1>1. /\ picking.at = "talk" /\ place <= Len(picking.chosen) /\ Turns # <<>>
      /\ resource' = resource /\ board' = board /\ meddling' = meddling
      /\ picking' = IF more THEN [run EXCEPT !.from = @ + PerPage]
                    ELSE IF next THEN [run EXCEPT !.from = 0, !.turn = 2]
                    ELSE [run EXCEPT !.from = 0, !.turn = 1, !.place = @ + 1]
  BY DEF ReadComments, Talking
<1>2. /\ picking \in Picking /\ picking.from \in Nat /\ PerPage \in Nat \ {0}
      /\ picking.chosen \in Seq(Items) /\ picking.heard \in Seq([Threads -> SUBSET Comments])
      /\ Len(picking.chosen) \in Nat
  BY <1>0, SelectionAssumption DEF SelectionTypeOK, Picking
<1>3. /\ Len(picking.heard) = Len(picking.chosen)
      /\ place \in 1..(Len(picking.chosen) + 1) /\ picking.turn \in DOMAIN Turns
  BY <1>0, <1>1 DEF HeardInTurn
<1>4. place \in DOMAIN picking.chosen /\ place \in DOMAIN picking.heard /\ place \in Nat
  BY <1>1, <1>2, <1>3
<1>5. /\ Turns \in Seq(Threads) /\ Len(Turns) \in 1..2 /\ DOMAIN Turns = 1..Len(Turns)
      /\ picking.turn \in 1..Len(Turns) /\ thread \in Threads
  <2>1. Turns \in Seq(Threads) /\ Len(Turns) \in 0..2
    BY <1>0, TurnsType
  <2>2. Len(Turns) # 0
    BY <1>1, <2>1
  <2>3. QED
    BY <1>3, <2>1, <2>2
<1>6. picking.chosen[place] \in Items /\ kept \in SUBSET Comments
  <2>1. picking.chosen[place] \in Items
    BY <1>2, <1>4
  <2>2. \A n \in Items, t \in Threads : board.talk[n][t].kept \in SUBSET Comments
    BY <1>0 DEF SelectionTypeOK, Board
  <2>3. QED
    BY <1>5, <2>1, <2>2
<1>7. CommentPage(kept) \subseteq Comments
  BY <1>6 DEF CommentPage
<1>8. /\ heard \in Seq([Threads -> SUBSET Comments]) /\ Len(heard) = Len(picking.heard)
      /\ \A k \in DOMAIN picking.heard, t \in Threads :
            heard[k][t] = IF k = place /\ t = thread
                          THEN picking.heard[k][t] \cup CommentPage(kept)
                          ELSE picking.heard[k][t]
  <2> DEFINE new == CommentPage(kept)
             row == [picking.heard[place] EXCEPT ![thread] = @ \cup new]
  <2>0. thread \in Threads /\ new \subseteq Comments
    BY <1>5, <1>7
  <2> HIDE DEF new, kept, thread
  <2>1. picking.heard[place] \in [Threads -> SUBSET Comments]
    BY <1>2, <1>4
  <2>2. /\ row \in [Threads -> SUBSET Comments]
        /\ \A t \in Threads : row[t] = IF t = thread THEN picking.heard[place][t] \cup new
                                       ELSE picking.heard[place][t]
    BY <2>0, <2>1
  <2>3. heard = [picking.heard EXCEPT ![place] = row]
    BY DEF new
  <2> HIDE DEF row, heard, place
  <2>4. /\ heard \in Seq([Threads -> SUBSET Comments]) /\ Len(heard) = Len(picking.heard)
        /\ \A k \in DOMAIN picking.heard :
              heard[k] = IF k = place THEN row ELSE picking.heard[k]
    BY <1>2, <1>4, <2>2, <2>3
  <2>5. QED
    BY <2>2, <2>4 DEF new
<1> HIDE DEF heard
<1>9. run \in Picking /\ run = [picking EXCEPT !.heard = heard]
  BY <1>2, <1>8 DEF Picking
<1> HIDE DEF run, kept, thread, more, next
<1>10. /\ picking' \in Picking /\ picking'.at = picking.at /\ picking'.options = picking.options
       /\ picking'.chosen = picking.chosen /\ picking'.heard = heard
       /\ picking'.upto = picking.upto /\ picking'.cut = picking.cut
       /\ picking'.moved = picking.moved /\ picking'.copies = picking.copies
       /\ \/ more /\ picking'.from = picking.from + PerPage
             /\ picking'.turn = picking.turn /\ picking'.place = place
          \/ ~more /\ next /\ picking'.from = 0 /\ picking'.turn = 2 /\ picking'.place = place
          \/ ~more /\ ~next /\ picking'.from = 0 /\ picking'.turn = 1
             /\ picking'.place = place + 1
  <2>1. /\ run \in Picking /\ run.at = picking.at /\ run.options = picking.options
        /\ run.chosen = picking.chosen /\ run.heard = heard /\ run.upto = picking.upto
        /\ run.cut = picking.cut /\ run.moved = picking.moved /\ run.copies = picking.copies
        /\ run.from = picking.from /\ run.place = place /\ run.turn = picking.turn
    BY <1>2, <1>9 DEF Picking
  <2>2. CASE more
    <3>1. picking' = [run EXCEPT !.from = picking.from + PerPage]
      BY <1>1, <2>1, <2>2
    <3>2. PICK from \in Nat : from = picking.from + PerPage
      BY <1>2
    <3>3. picking' \in Picking
      BY <2>1, <3>1, <3>2 DEF Picking
    <3>4. QED
      BY <2>1, <2>2, <3>1, <3>3 DEF Picking
  <2>3. CASE ~more /\ next
    <3>1. picking' = [run EXCEPT !.from = 0, !.turn = 2]
      BY <1>1, <2>3
    <3>2. QED
      BY <1>2, <2>1, <2>3, <3>1 DEF Picking
  <2>4. CASE ~more /\ ~next
    <3>1. picking' = [run EXCEPT !.from = 0, !.turn = 1, !.place = place + 1]
      BY <1>1, <2>1, <2>4
    <3>2. PICK p \in Nat : p = place + 1
      BY <1>4
    <3>3. picking' \in Picking
      BY <2>1, <3>1, <3>2 DEF Picking
    <3>4. QED
      BY <2>1, <2>4, <3>1, <3>3 DEF Picking
  <2>5. QED
    BY <2>2, <2>3, <2>4
<1>11. /\ SelectionTypeOK' /\ Unheard' /\ Numbered'
       /\ ListedOnce' /\ Gathered' /\ SelectionIsExact'
  <2>1. SelectionTypeOK' /\ Unheard' /\ ListedOnce' /\ Gathered'
    BY <1>0, <1>1, <1>10 DEF SelectionTypeOK, Unheard, ListedOnce, Gathered
  <2>2. Numbered'
    BY <1>0, <1>1, <1>10 DEF Numbered
  <2>3. SelectionIsExact'
    BY <1>0, <1>1, <1>10 DEF SelectionIsExact, Kept
  <2>4. QED
    BY <2>1, <2>2, <2>3
<1>12. Turns' = Turns
  BY <1>10 DEF Turns
<1>13. ASSUME NEW k \in DOMAIN picking.chosen, NEW t \in Threads
       PROVE  /\ picking.heard[k][t] \subseteq heard[k][t]
              /\ k = place /\ t = thread => CommentPage(kept) \subseteq heard[k][t]
  <2>1. k \in DOMAIN picking.heard
    BY <1>2, <1>3
  <2>2. QED
    BY <1>8, <2>1
<1>14. ASSUME NEW k \in DOMAIN picking.chosen, NEW t \in Threads, HeardAll(k, t)
       PROVE  HeardAll(k, t)'
  BY <1>1, <1>10, <1>13, <1>14 DEF HeardAll
<1>15. ASSUME NEW k, k = place, NEW t, t = thread, NEW m, m = picking.from + PerPage
       PROVE  HeardTo(k, t, m)'
  <2> DEFINE n == picking.chosen[k]
  <2>1. k \in DOMAIN picking.chosen /\ t \in Threads /\ kept = board.talk[n][t].kept
    BY <1>4, <1>5, <1>15 DEF kept
  <2>2. HeardTo(k, t, picking.from)
    BY <1>0, <1>1, <1>3, <1>4, <1>15 DEF HeardInTurn, thread
  <2>3. SUFFICES ASSUME <<n, t>> \notin picking.cut, NEW c \in kept, c <= picking.upto[n][t],
                        Older(c, kept) < m
                 PROVE  c \in heard[k][t]
    BY <1>1, <1>10, <2>1 DEF HeardTo
  <2>4. Older(c, kept) \in Nat
    BY <1>6, OlderType
  <2>5. CASE Older(c, kept) < picking.from
    <3>1. c \in picking.heard[k][t]
      BY <2>1, <2>2, <2>3, <2>5 DEF HeardTo
    <3>2. QED
      BY <1>13, <2>1, <3>1
  <2>6. CASE picking.from <= Older(c, kept)
    <3>1. c \in CommentPage(kept)
      BY <1>15, <2>3, <2>6 DEF CommentPage, Older
    <3>2. QED
      BY <1>13, <1>15, <2>1, <3>1
  <2>7. QED
    BY <1>2, <2>4, <2>5, <2>6
<1>16. ASSUME ~more, NEW k, k = place, NEW t, t = thread
       PROVE  HeardAll(k, t)'
  <2> DEFINE m == picking.from + PerPage
             n == picking.chosen[k]
  <2>1. k \in DOMAIN picking.chosen /\ t \in Threads /\ kept = board.talk[n][t].kept
    BY <1>4, <1>5, <1>16 DEF kept
  <2>2. PICK l : l = picking.from + PerPage
    OBVIOUS
  <2>3. HeardTo(k, t, l)'
    BY <1>15, <1>16, <2>2
  <2>4. \A c \in kept : Older(c, kept) < l
    <3>1. ASSUME NEW c \in kept PROVE Older(c, kept) < l
      <4>1. Cardinality(kept) \in Nat /\ Older(c, kept) \in Nat /\ Older(c, kept) < Cardinality(kept)
        BY <1>6, OlderType
      <4>2. l >= Cardinality(kept)
        BY <1>16, <2>2 DEF more, LastCommentPage
      <4>3. QED
        BY <1>2, <2>2, <4>1, <4>2
    <3>2. QED
      BY <3>1
  <2>5. QED
    BY <1>1, <1>10, <2>1, <2>3, <2>4 DEF HeardTo, HeardAll
<1>17. ASSUME NEW k \in DOMAIN picking.chosen, NEW t \in Threads
       PROVE  HeardTo(k, t, 0)'
  <2>1. picking.chosen[k] \in Items
    BY <1>2
  <2>2. board.talk[picking.chosen[k]][t].kept \in SUBSET Comments
    BY <1>0, <2>1 DEF SelectionTypeOK, Board
  <2>3. \A c : Older(c, board.talk[picking.chosen[k]][t].kept) \in Nat
    BY <2>2, OlderType
  <2>4. \A c : ~ (Older(c, board.talk[picking.chosen[k]][t].kept) < 0)
    BY <2>3
  <2>5. QED
    BY <1>1, <1>10, <2>4 DEF HeardTo
<1>18. ASSUME NEW k \in DOMAIN picking.chosen, NEW j \in DOMAIN Turns,
              k < place \/ (k = place /\ j < picking.turn)
       PROVE  HeardAll(k, Turns[j])
  BY <1>0, <1>1, <1>18 DEF HeardInTurn
<1>19. \A j \in DOMAIN Turns : Turns[j] \in Threads
  BY <1>5
<1>20. ASSUME NEW k \in DOMAIN picking.chosen, NEW j \in DOMAIN Turns
       PROVE  /\ k < picking'.place \/ (k = picking'.place /\ j < picking'.turn)
                    => HeardAll(k, Turns[j])'
              /\ k = picking'.place /\ j = picking'.turn => HeardTo(k, Turns[j], picking.from)'
  <2>0. PICK t \in Threads : t = Turns[j]
    BY <1>19
  <2>1. k \in Nat /\ j \in 1..Len(Turns) /\ picking.turn \in 1..Len(Turns) /\ Len(Turns) \in 1..2
    BY <1>2, <1>5
  <2>2. CASE more /\ picking'.from = picking.from + PerPage
             /\ picking'.turn = picking.turn /\ picking'.place = place
    <3>1. ASSUME k = place, j = picking.turn PROVE HeardTo(k, t, picking.from)'
      <4>1. t = thread
        BY <2>0, <3>1 DEF thread
      <4>2. PICK m : m = picking.from + PerPage
        OBVIOUS
      <4>3. HeardTo(k, t, m)'
        BY <1>15, <3>1, <4>1, <4>2
      <4>4. picking'.from = m
        BY <2>2, <4>2
      <4>5. QED
        BY <4>3, <4>4 DEF HeardTo
    <3>2. ASSUME k < place \/ (k = place /\ j < picking.turn) PROVE HeardAll(k, t)'
      BY <1>14, <1>18, <2>0, <3>2
    <3>3. HeardAll(k, t)' => HeardAll(k, Turns[j])'
      BY <1>12, <2>0 DEF HeardAll
    <3>4. HeardTo(k, t, picking.from)' => HeardTo(k, Turns[j], picking.from)'
      BY <1>12, <2>0 DEF HeardTo
    <3>5. QED
      BY <2>2, <3>1, <3>2, <3>3, <3>4
  <2>3. ASSUME ~more, k < place \/ (k = place /\ j <= picking.turn) PROVE HeardAll(k, t)'
    <3>1. CASE k = place /\ j = picking.turn
      <4>1. t = thread
        BY <2>0, <3>1 DEF thread
      <4>2. QED
        BY <1>16, <2>3, <3>1, <4>1
    <3>2. CASE k < place \/ (k = place /\ j < picking.turn)
      BY <1>14, <1>18, <2>0, <3>2
    <3>3. QED
      BY <2>1, <2>3, <3>1, <3>2
  <2>4. HeardTo(k, t, 0)'
    BY <1>17
  <2>5. HeardAll(k, t)' => HeardAll(k, Turns[j])'
    BY <1>12, <2>0 DEF HeardAll
  <2>6. picking'.from = 0 => HeardTo(k, Turns[j], picking.from)'
    BY <1>12, <2>0, <2>4 DEF HeardTo
  <2>7. CASE ~more /\ next /\ picking'.from = 0 /\ picking'.turn = 2 /\ picking'.place = place
    <3>1. picking.turn = 1
      <4>1. picking.turn < Len(Turns)
        BY <2>7 DEF next
      <4>2. PICK l \in 1..2 : l = Len(Turns)
        BY <2>1
      <4>3. picking.turn \in 1..l /\ picking.turn < l
        BY <2>1, <4>1, <4>2
      <4>4. QED
        BY <4>3
    <3>2. QED
      BY <1>4, <2>1, <2>3, <2>5, <2>6, <2>7, <3>1
  <2>8. CASE ~more /\ ~next /\ picking'.from = 0 /\ picking'.turn = 1
             /\ picking'.place = place + 1
    <3>1. picking.turn = Len(Turns)
      BY <2>1, <2>8 DEF next
    <3>2. k < place + 1 <=> k < place \/ k = place
      BY <1>4, <2>1
    <3>3. j <= picking.turn /\ ~ (j < 1)
      BY <2>1, <3>1
    <3>4. QED
      BY <2>3, <2>5, <2>6, <2>8, <3>2, <3>3
  <2>9. QED
    BY <1>10, <2>2, <2>7, <2>8
<1>21. HeardInTurn'
  <2>1. Len(heard) = Len(picking.chosen)
    BY <1>3, <1>8
  <2>2. picking'.place \in 1..(Len(picking.chosen) + 1)
    BY <1>1, <1>2, <1>3, <1>4, <1>10
  <2>3. picking'.turn \in DOMAIN Turns
    BY <1>5, <1>10 DEF next
  <2>4. QED
    BY <1>10, <1>12, <1>20, <2>1, <2>2, <2>3 DEF HeardInTurn
<1>22. QED
  BY <1>11, <1>21 DEF SelectionInv

\* The run returns, or fails.
LEMMA ReturnItemsInv ==
    ASSUME SelectionInv, ReturnItems \/ FailPicking
    PROVE  SelectionInv'
<1>1. picking' = NotPicking /\ resource' = resource /\ board' = board
  BY DEF ReturnItems, FailPicking
<1>2. SelectionTypeOK /\ Numbered
  BY DEF SelectionInv
<1>3. meddling' \in 0..Meddling
  BY <1>2, MeddleType DEF ReturnItems, FailPicking, SelectionTypeOK
<1>4. SelectionTypeOK' /\ Numbered' /\ Unheard'
  <2>1. picking' \in Picking /\ picking'.at = "idle"
    BY <1>1, NotPickingType
  <2>2. SelectionTypeOK'
    BY <1>1, <1>2, <1>3, <2>1 DEF SelectionTypeOK
  <2>3. Numbered'
    BY <1>1, <1>2, <2>1 DEF Numbered
  <2>4. Unheard'
    BY <2>1 DEF Unheard
  <2>5. QED
    BY <2>2, <2>3, <2>4
<1>5. ListedOnce' /\ Gathered' /\ SelectionIsExact' /\ HeardInTurn'
  BY <1>1, NotPickingType DEF ListedOnce, Gathered, SelectionIsExact, HeardInTurn
<1>6. QED
  BY <1>4, <1>5 DEF SelectionInv

\* A step of the run or of those who work on the repository keeps the invariant.
LEMMA SelectionStep ==
    ASSUME SelectionInv, [SelectionNext]_selectionVars
    PROVE  SelectionInv'
<1>1. CASE UNCHANGED selectionVars
  <2>1. resource' = resource /\ board' = board /\ picking' = picking /\ meddling' = meddling
    BY <1>1 DEF selectionVars
  <2>2. SelectionTypeOK' /\ Unheard' /\ Numbered'
    BY <2>1 DEF SelectionInv, SelectionTypeOK, Unheard, Numbered
  <2>3. ListedOnce' /\ Gathered' /\ SelectionIsExact'
    BY <2>1, ListingGoesOn
  <2>4. HeardInTurn'
    BY <2>1, HearingGoesOn
  <2>5. QED
    BY <2>2, <2>3, <2>4 DEF SelectionInv
<1>2. CASE SelectionNext
  <2>1. ASSUME NEW n \in Items, OpenItem(n) \/ CloseItem(n) \/ EditItem(n) PROVE SelectionInv'
    BY <2>1, OpenItemInv, CloseItemInv, EditItemInv
  <2>2. ASSUME NEW n \in Items, NEW t \in Threads, AddComment(n, t) PROVE SelectionInv'
    BY <2>2, AddCommentInv
  <2>3. ASSUME NEW n \in Items, NEW t \in Threads, NEW c \in Comments, DropComment(n, t, c)
        PROVE  SelectionInv'
    BY <2>3, DropCommentInv
  <2>4. ASSUME NEW options \in PickOptions, BeginPicking(options) PROVE SelectionInv'
    BY <2>4, BeginPickingInv
  <2>5. QED
    BY <1>2, <2>1, <2>2, <2>3, <2>4, ReadItemsInv, ChooseItemsInv, ReadCommentsInv,
       ReturnItemsInv DEF SelectionNext
<1>3. QED
  BY <1>1, <1>2

\* The inductive invariant of a selection: what is listed, while no record comes or
\* goes, is what matches so far; what is chosen is the first of it; and what was
\* said before a thread's next page has been heard.
THEOREM SelectionInvariant == SelectionSpec => []SelectionInv
<1>1. SelectionInv /\ [SelectionNext]_selectionVars => SelectionInv'
  BY SelectionStep
<1>2. QED
  BY <1>1, SelectionInitInv, PTL DEF SelectionSpec

\* As long as no record comes or goes while its pages are read, a run chooses the
\* records that match, in order, each once, and only the first of them if there is
\* a limit, however many records there are and whatever the size of a page.
THEOREM SelectionsAreExact == SelectionSpec => []SelectionIsExact
<1>1. SelectionInv => SelectionIsExact
  BY DEF SelectionInv
<1>2. QED
  BY <1>1, SelectionInvariant, PTL

\* What the invariant says of the threads that the run is done with.
LEMMA HeardIsHeard ==
    ASSUME SelectionInv
    PROVE  CommentsAreHeard
<1>1. SUFFICES ASSUME picking.at = "talk",
                      NEW k \in DOMAIN picking.chosen, NEW t \in picking.options.threads,
                      k < picking.place, <<picking.chosen[k], t>> \notin picking.cut,
                      NEW c \in board.talk[picking.chosen[k]][t].kept,
                      c <= picking.upto[picking.chosen[k]][t]
               PROVE  c \in picking.heard[k][t]
  BY DEF CommentsAreHeard
<1>2. PICK j \in DOMAIN Turns : Turns[j] = t
  BY TurnsType DEF SelectionInv
<1>3. HeardAll(k, Turns[j])
  BY <1>1 DEF SelectionInv, HeardInTurn
<1>4. QED
  BY <1>1, <1>2, <1>3 DEF HeardAll

\* Of the threads that it was asked for a run has each comment that was there when
\* it began and still is, unless a comment of the same thread was deleted, for any
\* number of comments and any size of a page.
THEOREM CommentsHeard == SelectionSpec => []CommentsAreHeard
<1>1. SelectionInv => CommentsAreHeard
  BY HeardIsHeard
<1>2. QED
  BY <1>1, SelectionInvariant, PTL
=============================================================================
