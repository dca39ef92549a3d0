------------------------------- MODULE FileList -------------------------------
(***************************************************************************)
(* The browser's list of uploaded files: useUpload.ts adds a record,       *)
(* useFiles.ts shows and deletes them.  The list is one entry of           *)
(* localStorage that all tabs share.  A files page reads it once, when it  *)
(* is mounted, and every deletion saves the list as its page knew it when  *)
(* the deletion began, less the files it deleted; an upload reads the      *)
(* list anew.  Deletions go on after their page is left.                   *)
(*                                                                         *)
(* The service behind is external: an upload or a deletion takes effect    *)
(* or not, and its answer arrives or not.  A record is its file, since     *)
(* nothing else of it is tested but its network.                           *)
(***************************************************************************)
EXTENDS Naturals

CONSTANTS
  Pages,       \* files pages, one of each tab
  Files,       \* each is uploaded at most once
  Shown,       \* those of the network the wallet has selected
  MaxDeletes   \* bound: deletions that begin

ASSUME FileListAssumption == Shown \subseteq Files /\ MaxDeletes \in Nat

Deletions == 1 .. MaxDeletes

VARIABLES
  list,       \* localStorage: uploadedFiles
  allFiles,   \* the list as each tab's page knows it
  mounted,    \* tabs that show the files page
  actionLoading,    \* of each tab's page
  deletingFileIds,  \* of each tab's page
  uploading,  \* files whose upload is under way
  stored,     \* files in the service
  deletion,   \* the deletions that began
  uploaded,   \* history: files whose upload was answered with success
  cleared,    \* history: files whose record a finished deletion removed
  reported,   \* history: files whose deletion was reported as failed
  fresh,      \* history: tabs whose page knows the list of localStorage
  disturbed   \* history: operations overlapped, or a page was outdated

buttons == <<actionLoading, deletingFileIds>>
listVars == <<list, allFiles, mounted, buttons, uploading, stored, deletion, uploaded, cleared,
              reported, fresh, disturbed>>

NotBegun == [state |-> "none"]

ListInit ==
  /\ list = {}
  /\ allFiles = [t \in Pages |-> {}]
  /\ mounted = {}
  /\ actionLoading = [t \in Pages |-> FALSE]
  /\ deletingFileIds = [t \in Pages |-> {}]
  /\ uploading = {}
  /\ stored = {}
  /\ deletion = [n \in Deletions |-> NotBegun]
  /\ uploaded = {} /\ cleared = {} /\ reported = {}
  /\ fresh = {}
  /\ disturbed = FALSE

Working == {n \in Deletions : deletion[n].state = "working"}
Idle == Working = {} /\ uploading = {}

\* Those that began on the page tab t shows.
Here(t) == {n \in Working : deletion[n].tab = t /\ deletion[n].here}

-----------------------------------------------------------------------------

\* loadAll
Mount(t) ==
  /\ t \notin mounted
  /\ mounted' = mounted \cup {t}
  /\ allFiles' = [allFiles EXCEPT ![t] = list]
  /\ fresh' = fresh \cup {t}
  /\ UNCHANGED <<list, buttons, uploading, stored, deletion, uploaded, cleared, reported, disturbed>>

Leave(t) ==
  /\ t \in mounted
  /\ mounted' = mounted \ {t}
  /\ fresh' = fresh \ {t}
  /\ deletion' = [n \in Deletions |->
                    IF n \in Here(t) THEN [deletion[n] EXCEPT !.here = FALSE] ELSE deletion[n]]
  /\ actionLoading' = [actionLoading EXCEPT ![t] = FALSE]
  /\ deletingFileIds' = [deletingFileIds EXCEPT ![t] = {}]
  /\ UNCHANGED <<list, allFiles, uploading, stored, uploaded, cleared, reported, disturbed>>

\* A download or a share begins or ends, which sets or clears actionLoading
\* whatever else goes on.
OtherAction(t) ==
  /\ t \in mounted
  /\ actionLoading' = [actionLoading EXCEPT ![t] = ~@]
  /\ UNCHANGED <<list, allFiles, mounted, deletingFileIds, uploading, stored, deletion, uploaded,
                 cleared, reported, fresh, disturbed>>

-----------------------------------------------------------------------------
(* handleSubmit of useUpload                                               *)

Upload(f) ==
  /\ f \notin uploading \cup uploaded \cup stored
  /\ uploading' = uploading \cup {f}
  /\ disturbed' = (disturbed \/ ~Idle)
  /\ UNCHANGED <<list, allFiles, mounted, buttons, stored, deletion, uploaded, cleared, reported,
                 fresh>>

UploadAnswered(f) ==
  /\ f \in uploading
  /\ uploading' = uploading \ {f}
  /\ stored' = stored \cup {f}
  /\ uploaded' = uploaded \cup {f}
  /\ list' = list \cup {f} /\ fresh' = {}
  /\ UNCHANGED <<allFiles, mounted, buttons, deletion, cleared, reported, disturbed>>

\* An error, or no answer, whether the file was stored or not.
UploadFails(f) ==
  /\ f \in uploading
  /\ uploading' = uploading \ {f}
  /\ stored' \in {stored, stored \cup {f}}
  /\ UNCHANGED <<list, allFiles, mounted, buttons, deletion, uploaded, cleared, reported, fresh,
                 disturbed>>

-----------------------------------------------------------------------------
(* handleDelete and handleDeleteAll of useFiles                            *)

\* files: the records of the selected network, on the page.
shownFiles(t) == allFiles[t] \cap Shown

Begin(t, all, fs) ==
  \E n \in Deletions :
    /\ deletion[n] = NotBegun /\ \A k \in 1 .. n - 1 : deletion[k] # NotBegun
    /\ deletion' = [deletion EXCEPT ![n] =
         [state |-> "working", tab |-> t, here |-> TRUE, all |-> all, files |-> fs, waiting |-> fs,
          failed |-> {}, known |-> allFiles[t]]]
    /\ actionLoading' = [actionLoading EXCEPT ![t] = TRUE]
    /\ deletingFileIds' = [deletingFileIds EXCEPT ![t] = IF all THEN fs ELSE @ \cup fs]
    /\ disturbed' = (disturbed \/ ~Idle \/ t \notin fresh)
    /\ UNCHANGED <<list, allFiles, mounted, uploading, stored, uploaded, cleared, reported, fresh>>

\* A card that is being deleted has no button.
handleDelete(t, f) ==
  /\ t \in mounted
  /\ f \in shownFiles(t) \ deletingFileIds[t]
  /\ Begin(t, FALSE, {f})

handleDeleteAll(t) ==
  /\ t \in mounted
  /\ shownFiles(t) # {}
  /\ ~ actionLoading[t]
  /\ Begin(t, TRUE, shownFiles(t))

\* DELETE /files/<id> is answered, or fails, and may have deleted the file then.
DeleteAnswered(n, f) ==
  /\ n \in Working /\ f \in deletion[n].waiting
  /\ stored' = stored \ {f}
  /\ deletion' = [deletion EXCEPT ![n].waiting = @ \ {f}]
  /\ UNCHANGED <<list, allFiles, mounted, buttons, uploading, uploaded, cleared, reported, fresh,
                 disturbed>>

failures_LastOnly(n, f) == {f}
failures(n, f) == deletion[n].failed \cup {f}

DeleteFails(n, f) ==
  /\ n \in Working /\ f \in deletion[n].waiting
  /\ stored' \in {stored, stored \ {f}}
  /\ deletion' = [deletion EXCEPT ![n].waiting = @ \ {f}, ![n].failed = failures(n, f)]
  /\ UNCHANGED <<list, allFiles, mounted, buttons, uploading, uploaded, cleared, reported, fresh,
                 disturbed>>

remaining_ShownOnly(n) == (deletion[n].known \cap Shown) \ deletion[n].files
remaining(n) == deletion[n].known \ deletion[n].files

\* All are answered.  Delete All removes the records of all files, those whose
\* deletion failed included; a page that was left keeps nothing.  The buttons
\* of the page are released as if no other deletion were under way.
EndDeletion(n) ==
  /\ n \in Working /\ deletion[n].waiting = {}
  /\ LET op == deletion[n]
         saves == op.all \/ op.failed = {}
     IN /\ IF saves
           THEN /\ list' = remaining(n)
                /\ IF op.here
                   THEN /\ allFiles' = [allFiles EXCEPT ![op.tab] = remaining(n)]
                        /\ fresh' = {op.tab}
                   ELSE UNCHANGED allFiles /\ fresh' = {}
           ELSE UNCHANGED <<list, allFiles, fresh>>
        /\ IF op.here
           THEN /\ actionLoading' = [actionLoading EXCEPT ![op.tab] = FALSE]
                /\ deletingFileIds' = [deletingFileIds EXCEPT ![op.tab] =
                                         IF op.all THEN {} ELSE @ \ op.files]
           ELSE UNCHANGED buttons
        /\ cleared' = IF saves THEN cleared \cup op.files ELSE cleared
        /\ reported' = reported \cup op.failed
  /\ deletion' = [deletion EXCEPT ![n] = [state |-> "done"]]
  /\ UNCHANGED <<mounted, uploading, stored, uploaded, disturbed>>

ListNext ==
  \/ \E t \in Pages : Mount(t) \/ Leave(t) \/ OtherAction(t) \/ handleDeleteAll(t)
                       \/ \E f \in Files : handleDelete(t, f)
  \/ \E f \in Files : Upload(f) \/ UploadAnswered(f) \/ UploadFails(f)
  \/ \E n \in Deletions :
       EndDeletion(n) \/ \E f \in Files : DeleteAnswered(n, f) \/ DeleteFails(n, f)

ListSpec == ListInit /\ [][ListNext]_listVars

-----------------------------------------------------------------------------
(* Properties.                                                             *)

\* As long as no two operations overlap in any tab and none starts from a page
\* that another tab or an upload has outdated, the list is exact: the files
\* whose upload was answered, on whatever network, less those a deletion removed.
ListIsExact == ~disturbed => list = uploaded \ cleared

\* Then also no file is lost from sight in silence: one that is stored and was
\* listed, but is not listed any more, was reported as not deleted.
NothingVanishes == ~disturbed =>
  \A f \in (stored \cap uploaded) \ list : f \in reported
=============================================================================
