------------------------------- MODULE Publish -------------------------------
(***************************************************************************)
(* The publish command: the text of a bundle becomes a new Google document,*)
(* in two requests, with credentials that a token file may keep between    *)
(* runs.  google_docs.py, and the command's part of cli.py.                *)
(*                                                                         *)
(* Several runs may be under way, with one bundle and one token file.  A   *)
(* run that is refused before its first request (a bundle that can not be  *)
(* read, a title or text that Docs would not keep) and a dry run change    *)
(* nothing and are left out.  Google is modelled from how it is called: a  *)
(* request is served, and its answer may be lost.                          *)
(***************************************************************************)
EXTENDS Naturals, Sequences, FiniteSets

CONSTANTS Publishers,      \* runs of the command
          LastEdition,     \* bound on the texts of the bundle; 0 is the empty one
          Unprintable,     \* texts with characters that Docs would not keep
          LastDocument,    \* bound on documents
          MaxMisses,       \* bound on runs that fail late
          MaxTurns         \* bound on changes of the bundle and the token

Editions == 0..LastEdition
GrantedScopes == SUBSET {"docs", "drive"}

ASSUME PublishAssumption == /\ IsFiniteSet(Publishers)
                            /\ LastEdition \in Nat /\ Unprintable \subseteq Editions
                            /\ LastDocument \in Nat /\ MaxMisses \in Nat /\ MaxTurns \in Nat

VARIABLES bundleText,      \* the file that the bundle command writes
          tokenFile,       \* oauth_token_file
          documents,       \* what there is at Google, in the order of creation
          publishing,      \* the runs
          receipts,        \* what runs reported, in order
          misses,          \* how many failed
          turns            \* changes so far

publishVars == <<bundleText, tokenFile, documents, publishing, receipts, misses, turns>>

\* A token is good for the scopes that it lists, as long as it is fresh; one
\* that is spent can not be refreshed.
Token == [kind : {"none", "foreign", "stored"}, scopes : GrantedScopes,
          life : {"fresh", "expired", "spent"}]

NoToken == [kind |-> "none", scopes |-> {}, life |-> "spent"]
StoredToken(scopes) == [kind |-> "stored", scopes |-> scopes, life |-> "fresh"]

Document == [folder : BOOLEAN, text : Editions]
Receipt == [document : 1..LastDocument, folder : BOOLEAN, text : Editions]

Publishing == [at : {"idle", "check", "load", "refresh", "consent", "store", "create", "fill",
                     "report"},
               folder : BOOLEAN, text : Editions, document : 0..LastDocument,
               scopes : GrantedScopes]

NotPublishing == [at |-> "idle", folder |-> FALSE, text |-> 0, document |-> 0, scopes |-> {}]

PublishInit == /\ bundleText \in Editions
               /\ tokenFile \in {NoToken, StoredToken({"docs"})}
               /\ documents = <<>>
               /\ publishing = [p \in Publishers |-> NotPublishing]
               /\ receipts = <<>>
               /\ misses = 0
               /\ turns = 0

-----------------------------------------------------------------------------
(* What others do: the bundle is written anew, in place, so that for a     *)
(* while it holds another text than either; tokens age; files are removed  *)
(* and put there.                                                          *)

Turn == turns < MaxTurns /\ turns' = turns + 1

RewriteBundle(t) ==
    /\ Turn
    /\ t # bundleText
    /\ bundleText' = t
    /\ UNCHANGED <<tokenFile, documents, publishing, receipts, misses>>

AgeToken ==
    /\ Turn
    /\ tokenFile.kind = "stored" /\ tokenFile.life = "fresh"
    /\ \E life \in {"expired", "spent"} : tokenFile' = [tokenFile EXCEPT !.life = life]
    /\ UNCHANGED <<bundleText, documents, publishing, receipts, misses>>

\* Somebody puts a link or something unreadable there, or removes what is there.
ReplaceToken(kind) ==
    /\ Turn
    /\ kind # "stored" /\ tokenFile.kind # kind
    /\ tokenFile' = [NoToken EXCEPT !.kind = kind]
    /\ UNCHANGED <<bundleText, documents, publishing, receipts, misses>>

-----------------------------------------------------------------------------
(* A run.                                                                  *)

Step(p, job) ==
    /\ publishing' = [publishing EXCEPT ![p] = job]
    /\ UNCHANGED <<bundleText, receipts, misses, turns>>

GoOn(p, at) == Step(p, [publishing[p] EXCEPT !.at = at])

\* Drive file scope is asked for when the document is to be in a folder.
NeededScopes(folder) == {"docs"} \cup (IF folder THEN {"drive"} ELSE {})

\* The bundle is read, once.  Application default credentials, of which there
\* is no file to keep, have the scopes that are asked for.
BeginPublish(p, folder, oauth) ==
    /\ publishing[p].at = "idle" /\ bundleText \notin Unprintable
    /\ Step(p, [at |-> IF oauth THEN "check" ELSE "create", folder |-> folder,
                text |-> bundleText, document |-> 0,
                scopes |-> IF oauth THEN {} ELSE NeededScopes(folder)])
    /\ UNCHANGED <<tokenFile, documents>>

\* _stored_oauth_token_has_scopes
Serves(folder) == tokenFile.kind = "stored" /\ NeededScopes(folder) \subseteq tokenFile.scopes

CheckToken(p) ==
    /\ publishing[p].at = "check" /\ tokenFile.kind # "foreign"
    /\ GoOn(p, IF Serves(publishing[p].folder) THEN "load" ELSE "consent")
    /\ UNCHANGED <<tokenFile, documents>>

\* The token is read a second time, after its scopes were checked.
LoadToken(p) ==
    /\ publishing[p].at = "load" /\ tokenFile.kind = "stored"
    /\ CASE tokenFile.life = "fresh" ->
              Step(p, [publishing[p] EXCEPT !.at = "create", !.scopes = tokenFile.scopes])
         [] tokenFile.life = "expired" -> GoOn(p, "refresh")
         [] tokenFile.life = "spent" -> GoOn(p, "consent")
    /\ UNCHANGED <<tokenFile, documents>>

\* The user consents, or Google gives the token another term.
Authorise(p) ==
    /\ publishing[p].at \in {"consent", "refresh"}
    /\ Step(p, [publishing[p] EXCEPT !.at = "store",
                                     !.scopes = NeededScopes(publishing[p].folder)])
    /\ UNCHANGED <<tokenFile, documents>>

\* _persist_oauth_token: a file beside it that takes its name.
PersistToken(p) ==
    /\ publishing[p].at = "store"
    /\ tokenFile' = StoredToken(publishing[p].scopes)
    /\ GoOn(p, "create")
    /\ UNCHANGED documents

\* What Google has after the request that a run is about to make: a new,
\* empty document, or one with text in it.
Requested(p) ==
    LET job == publishing[p] IN
    CASE job.at = "create" -> Append(documents, [folder |-> job.folder, text |-> 0])
      [] job.at = "fill" -> [documents EXCEPT ![job.document].text = job.text]

\* Google creates in a folder for who has the scope to.
Servable(p) ==
    \/ /\ publishing[p].at = "create" /\ Len(documents) < LastDocument
       /\ NeededScopes(publishing[p].folder) \subseteq publishing[p].scopes
    \/ publishing[p].at = "fill"

FaultCreateDocument(p) ==
    /\ publishing[p].at = "create" /\ Servable(p)
    /\ documents' = Requested(p)
    /\ Step(p, [publishing[p] EXCEPT !.at = "report", !.document = Len(documents) + 1])
    /\ UNCHANGED tokenFile

\* Nothing is inserted when there is nothing to insert.
CreateDocument(p) ==
    /\ publishing[p].at = "create" /\ Servable(p)
    /\ documents' = Requested(p)
    /\ Step(p, [publishing[p] EXCEPT !.at = IF publishing[p].text = 0 THEN "report" ELSE "fill",
                                     !.document = Len(documents) + 1])
    /\ UNCHANGED tokenFile

FillDocument(p) ==
    /\ publishing[p].at = "fill"
    /\ documents' = Requested(p)
    /\ GoOn(p, "report")
    /\ UNCHANGED tokenFile

ReportPublished(p) ==
    LET job == publishing[p] IN
    /\ job.at = "report"
    /\ receipts' = Append(receipts, [document |-> job.document, folder |-> job.folder,
                                     text |-> job.text])
    /\ publishing' = [publishing EXCEPT ![p] = NotPublishing]
    /\ UNCHANGED <<bundleText, tokenFile, documents, misses, turns>>

\* A run dies before its first request, is refused its credentials or, of Google,
\* a document.
RefusePublish(p) ==
    /\ publishing[p].at \notin {"idle", "fill", "report"}
    /\ Step(p, NotPublishing)
    /\ UNCHANGED <<tokenFile, documents>>

\* A run dies later, is refused its text, or does not hear that a request was
\* served.  Its answer has no URL.
MissPublish(p) ==
    /\ publishing[p].at \in {"create", "fill", "report"} /\ misses < MaxMisses
    /\ misses' = misses + 1
    /\ publishing' = [publishing EXCEPT ![p] = NotPublishing]
    /\ \/ UNCHANGED documents
       \/ Servable(p) /\ documents' = Requested(p)
    /\ UNCHANGED <<bundleText, tokenFile, receipts, turns>>

PublishNext ==
    \/ \E t \in Editions : RewriteBundle(t)
    \/ AgeToken
    \/ \E kind \in {"none", "foreign"} : ReplaceToken(kind)
    \/ \E p \in Publishers :
          \/ \E folder, oauth \in BOOLEAN : BeginPublish(p, folder, oauth)
          \/ CheckToken(p) \/ LoadToken(p) \/ Authorise(p) \/ PersistToken(p)
          \/ CreateDocument(p) \/ FillDocument(p) \/ ReportPublished(p)
          \/ RefusePublish(p) \/ MissPublish(p)

PublishSpec == PublishInit /\ [][PublishNext]_publishVars

-----------------------------------------------------------------------------
PublishTypeOK ==
    /\ bundleText \in Editions
    /\ tokenFile \in Token
    /\ documents \in Seq(Document) /\ Len(documents) <= LastDocument
    /\ publishing \in [Publishers -> Publishing]
    /\ receipts \in Seq(Receipt)
    /\ misses \in 0..MaxMisses
    /\ turns \in 0..MaxTurns

\* Documents that a run in progress has created and has not reported.
Unreported == {p \in Publishers : publishing[p].document # 0}

\* docs/google-docs-destination.md: "This path creates a new document from a
\* caller-selected local bundle."  Each URL that was reported is that of a
\* document of its own, with the text of the bundle as that run read it and in
\* the folder that it was told, whatever other runs do and however the bundle
\* changes; and a document that no run reports is there for each run that
\* failed after its first request, at most.
PublicationIsExact ==
    /\ \A i \in DOMAIN receipts :
          /\ receipts[i].document \in DOMAIN documents
          /\ documents[receipts[i].document] =
                [folder |-> receipts[i].folder, text |-> receipts[i].text]
          /\ \A j \in DOMAIN receipts : receipts[i].document = receipts[j].document => i = j
    /\ Len(documents) <= Len(receipts) + Cardinality(Unreported) + misses
=============================================================================
