----------------------------- MODULE CommandLine -----------------------------
(***************************************************************************)
(* The commands that main of cli.py chooses between, as far as they are    *)
(* not synchronisation (ManifestSync): each works on a server and a        *)
(* directory of its own, so that one is used while the others rest, and    *)
(* the run command calls main once more for each of its runs, of which     *)
(* ConfigRun keeps what the others notice.  An adapter of which one module *)
(* has the reading and another what becomes of it has a name for each.     *)
(***************************************************************************)
EXTENDS GitCheckout, GitHubMetadata, GitHubSelection, ConfluenceTraversal, SpaceListing,
        OutputDirectory, Bundle, Publish, PackageVerifier, ConfigRun

VARIABLE command          \* args.command

commandVars == <<command, gitVars, ghVars, selectionVars, walkVars, spaceVars, directoryVars,
                 bundleVars, publishVars, verifyVars, configVars>>

CommandNames == {"git_repo", "github_metadata", "github_selection", "confluence",
                 "confluence_space", "output_directory", "bundle", "publish", "source_package",
                 "run"}

WalkRests == WalkInit /\ children = CHOOSE c \in Listings : IsTree(c)

SelectionRests == SelectionInit /\ resource = "issues"

SpaceRests == SpaceInit /\ space = {}

DirectoryRests == DirectoryInit /\ adapter = "git_repo"

PublishRests == PublishInit /\ bundleText = 0 /\ tokenFile = NoToken

VerifyRests == VerifyInit /\ verifier.digest = CHOOSE d \in Digests : TRUE

CommandInit ==
    /\ command \in CommandNames
    /\ GitInit /\ GHInit /\ BundleInit /\ ConfigInit
    /\ IF command = "confluence" THEN WalkInit ELSE WalkRests
    /\ IF command = "github_selection" THEN SelectionInit ELSE SelectionRests
    /\ IF command = "confluence_space" THEN SpaceInit ELSE SpaceRests
    /\ IF command = "output_directory" THEN DirectoryInit ELSE DirectoryRests
    /\ IF command = "publish" THEN PublishInit ELSE PublishRests
    /\ IF command = "source_package" THEN VerifyInit ELSE VerifyRests

CommandNext ==
    /\ UNCHANGED command
    /\ \/ /\ command = "git_repo" /\ GitNext
          /\ UNCHANGED <<ghVars, selectionVars, walkVars, spaceVars, directoryVars,
                         bundleVars, publishVars, verifyVars, configVars>>
       \/ /\ command = "github_metadata" /\ GHNext
          /\ UNCHANGED <<gitVars, selectionVars, walkVars, spaceVars, directoryVars,
                         bundleVars, publishVars, verifyVars, configVars>>
       \/ /\ command = "github_selection" /\ SelectionNext
          /\ UNCHANGED <<gitVars, ghVars, walkVars, spaceVars, directoryVars,
                         bundleVars, publishVars, verifyVars, configVars>>
       \/ /\ command = "confluence" /\ WalkNext
          /\ UNCHANGED <<gitVars, ghVars, selectionVars, spaceVars, directoryVars,
                         bundleVars, publishVars, verifyVars, configVars>>
       \/ /\ command = "confluence_space" /\ SpaceNext
          /\ UNCHANGED <<gitVars, ghVars, selectionVars, walkVars, directoryVars,
                         bundleVars, publishVars, verifyVars, configVars>>
       \/ /\ command = "output_directory" /\ DirectoryNext
          /\ UNCHANGED <<gitVars, ghVars, selectionVars, walkVars, spaceVars,
                         bundleVars, publishVars, verifyVars, configVars>>
       \/ /\ command = "bundle" /\ BundleNext
          /\ UNCHANGED <<gitVars, ghVars, selectionVars, walkVars, spaceVars,
                         directoryVars, publishVars, verifyVars, configVars>>
       \/ /\ command = "publish" /\ PublishNext
          /\ UNCHANGED <<gitVars, ghVars, selectionVars, walkVars, spaceVars,
                         directoryVars, bundleVars, verifyVars, configVars>>
       \/ /\ command = "source_package" /\ VerifyNext
          /\ UNCHANGED <<gitVars, ghVars, selectionVars, walkVars, spaceVars,
                         directoryVars, bundleVars, publishVars, configVars>>
       \/ /\ command = "run" /\ ConfigNext
          /\ UNCHANGED <<gitVars, ghVars, selectionVars, walkVars, spaceVars, directoryVars,
                         bundleVars, publishVars, verifyVars>>

CommandSpec == CommandInit /\ [][CommandNext]_commandVars

-----------------------------------------------------------------------------
\* The types of the variables of the commands.
CommandTypeOK ==
    /\ command \in CommandNames
    /\ GitTypeOK /\ GHTypeOK /\ SelectionTypeOK /\ WalkTypeOK /\ SpaceTypeOK
    /\ DirectoryTypeOK /\ BundleTypeOK /\ PublishTypeOK /\ VerifyTypeOK /\ ConfigTypeOK
=============================================================================
