-------------------------- MODULE MCSandboxClients --------------------------
(***************************************************************************)
(* The two parts of the dashboard that keep a copy of what is in the      *)
(* user's sandbox, which is created, suspended and lost under them: the    *)
(* knowledge base its local directory (KnowledgeBase), the Files page its  *)
(* cached listings (UserFiles).  Their directories in the sandbox are      *)
(* apart, so that one behaviour is of one of them; Dirs and Names name     *)
(* what is in the root and in a folder of either, and are interchangeable. *)
(***************************************************************************)
EXTENDS KnowledgeBase, TLC

CONSTANTS MaxJobs, MaxOdd

VARIABLES
    client,
    userFiles, userFolders, currentPath, lists, fetches, jobs, done, sent, odd, astray

Page == INSTANCE UserFiles WITH
            Names <- Dirs, Inner <- Names, files <- userFiles, folders <- userFolders

pageVars   == <<userFiles, userFolders, currentPath, lists, fetches, jobs, done, sent,
                odd, astray>>
clientVars == <<client, kbVars, pageVars>>

ClientInit ==
    /\ client \in {"knowledge base", "files page"}
    /\ Init /\ Page!Init
    /\ client # "knowledge base" => \A f \in Files : local[f] = Absent
    /\ IF client = "files page" THEN Cardinality(userFolders) <= 1 ELSE userFolders = {}

ClientNext ==
    /\ UNCHANGED client
    /\ \/ client = "knowledge base" /\ Next /\ UNCHANGED pageVars
       \/ client = "files page" /\ Page!Next /\ UNCHANGED kbVars

ClientSpec == ClientInit /\ [][ClientNext]_clientVars

\* Type correctness of both.
ClientTypeOK == TypeOK /\ Page!TypeOK

\* Once nothing is under way, the page shows the directory as it is (UserFiles).
ListShown == Page!ListShown

Symmetry == Permutations(Dirs) \cup Permutations(Names)

=============================================================================
