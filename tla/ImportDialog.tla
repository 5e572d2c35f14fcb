---------------------------- MODULE ImportDialog ----------------------------
(***************************************************************************)
(* The "Import responses" dialog (survey-response-import/) and the two     *)
(* endpoints it talks to: a check, which maps the spreadsheet's columns    *)
(* onto the survey and writes nothing, and the import, which maps it again *)
(* under the survey's lock and stores the rows.  Between the two the       *)
(* person changes the mapping and other administrators edit the survey.    *)
(* A spreadsheet is a header and one answer no option of the survey        *)
(* matches; the other columns map the same way throughout.                 *)
(***************************************************************************)
EXTENDS Naturals, FiniteSets

CONSTANTS
    Files,          \* spreadsheets the person may choose
    SheetsOf,       \* per file: its sheets; more than one only in a workbook
    FirstSheet,     \* per file: its first sheet
    HeaderOf,       \* per sheet: the header of its answer column
    ImportTargets,  \* the survey's questions the column can be mapped to
    Wordings,       \* the texts a question may have
    OptionSets,     \* the option lists a question may have
    MaxSends,       \* bound: requests sent
    MaxSurveyEdits  \* bound: edits of the survey by others

ASSUME ImportAssumption ==
    /\ MaxSends \in Nat /\ MaxSurveyEdits \in Nat
    /\ \A f \in Files : FirstSheet[f] \in SheetsOf[f]

Unchosen == "unchosen"
Blank == "blank"
Ignore == "ignore"
NoFile == "no file"
NoSheet == "no sheet"
Options == UNION OptionSets

VARIABLES
    structure,    \* the wording and the options of each question
    open,         \* whether the dialog is open
    file,         \* the chosen file
    preview,      \* the last check's answer, or NoPreview
    sheet,        \* the sheet asked for
    column,       \* columnOverrides: the target chosen for the column
    values,       \* valueOverrides: per question the value chosen for the answer
    dirty,        \* changed since the check
    needsRecheck,
    importWire,   \* the request in flight
    imports,      \* what was stored: request, mapping and the check it followed
    importBudget  \* requests and survey edits left

dialog == <<open, file, preview, sheet, column, values, dirty, needsRecheck>>
importVars == <<structure, dialog, importWire, imports, importBudget>>

NoValues == [q \in ImportTargets |-> Unchosen]
NoPreview == [shown |-> FALSE]
Quiet == [kind |-> "none"]
busy == importWire.kind # "none"

ImportInit ==
    /\ structure \in [wording : [ImportTargets -> Wordings], options : [ImportTargets -> OptionSets]]
    /\ open = FALSE /\ file = NoFile /\ preview = NoPreview /\ sheet = NoSheet
    /\ column = Unchosen /\ values = NoValues /\ dirty = FALSE /\ needsRecheck = FALSE
    /\ importWire = Quiet
    /\ imports = {}
    /\ importBudget = [sends |-> MaxSends, edits |-> MaxSurveyEdits]

(***************************************************************************)
(* The server                                                              *)
(***************************************************************************)
(* The automatic mapping goes by the question's wording; without a choice,  *)
(* the sheet is the one with most columns mapped, the first among equals.   *)
Proposed(header) ==
    LET alike == {q \in ImportTargets : structure.wording[q] = header} IN
    IF Cardinality(alike) = 1 THEN CHOOSE q \in alike : TRUE ELSE Ignore
SheetRead(request) ==
    LET f == request.file
        best == {s \in SheetsOf[f] : Proposed(HeaderOf[s]) # Ignore} IN
    CASE request.sheet # NoSheet -> request.sheet
      [] request.sheet = NoSheet /\ (best = {} \/ FirstSheet[f] \in best) -> FirstSheet[f]
      [] OTHER -> CHOOSE s \in best : TRUE
Mapped(request) ==
    IF request.column # Unchosen THEN request.column ELSE Proposed(HeaderOf[SheetRead(request)])

(* The answer needs a choice, or has one the question does not offer.       *)
Unresolved(request) ==
    {q \in ImportTargets : q = Mapped(request) /\ request.values[q] = Unchosen}
Refused(request) ==
    {q \in ImportTargets : q = Mapped(request)
        /\ request.values[q] \notin structure.options[q] \cup {Unchosen, Blank}}
CanImport(request) == Unresolved(request) = {} /\ Refused(request) = {}

(* The hash covers ids, types, options, settings and order, not the wording.*)
StructureVersion == structure.options
SuggestionFor(q) ==
    IF structure.options[q] = {} THEN Unchosen ELSE CHOOSE o \in structure.options[q] : TRUE

Checked(request) ==
    [shown |-> TRUE, request |-> request, sheet |-> SheetRead(request), mapped |-> Mapped(request),
     issues |-> {<<q, SuggestionFor(q)>> : q \in Unresolved(request)},
     canImport |-> CanImport(request), version |-> StructureVersion]

ServerChecks ==
    /\ importWire.kind = "check" /\ importWire.at = "sent"
    /\ importWire' = [importWire EXCEPT !.at = "answered", !.answer = Checked(importWire.request)]
    /\ UNCHANGED <<structure, dialog, imports, importBudget>>

\* Faulty variant: the import does not compare the structure it was checked against.
SameStructureAssumed(version) == TRUE
SameStructure(version) == version = StructureVersion

(* Under the survey's lock: 409 when the structure changed, 422 when the    *)
(* file cannot be imported after all, or 409 for a conflicting row.         *)
ServerImports ==
    /\ importWire.kind = "import" /\ importWire.at = "sent"
    /\ \/ /\ ~SameStructure(importWire.version)
          /\ importWire' = [importWire EXCEPT !.at = "changed"]
          /\ UNCHANGED imports
       \/ /\ SameStructure(importWire.version) /\ ~CanImport(importWire.request)
          /\ importWire' = [importWire EXCEPT !.at = "failed"]
          /\ UNCHANGED imports
       \/ /\ SameStructure(importWire.version) /\ CanImport(importWire.request)
          /\ importWire' = [importWire EXCEPT !.at = "changed"]
          /\ UNCHANGED imports
       \/ /\ SameStructure(importWire.version) /\ CanImport(importWire.request)
          /\ importWire' = [importWire EXCEPT !.at = "answered"]
          /\ imports' = imports \cup {[request |-> importWire.request, mapped |-> Mapped(importWire.request),
                                       options |-> structure.options, after |-> importWire.after]}
    /\ UNCHANGED <<structure, dialog, importBudget>>

(* The structure is open to edits until the survey has a response.          *)
EditSurvey(q) ==
    /\ importBudget.edits > 0 /\ imports = {}
    /\ \/ \E w \in Wordings \ {structure.wording[q]} : structure' = [structure EXCEPT !.wording[q] = w]
       \/ \E O \in OptionSets \ {structure.options[q]} : structure' = [structure EXCEPT !.options[q] = O]
    /\ importBudget' = [importBudget EXCEPT !.edits = @ - 1]
    /\ UNCHANGED <<dialog, importWire, imports>>

(***************************************************************************)
(* The dialog                                                              *)
(***************************************************************************)
Reset ==
    /\ preview' = NoPreview /\ sheet' = NoSheet /\ column' = Unchosen /\ values' = NoValues
    /\ dirty' = FALSE /\ needsRecheck' = FALSE

(* A new key on every opening gives the dialog fresh state.                 *)
OpenImportDialog ==
    /\ ~open /\ ~busy /\ importBudget.sends > 0
    /\ open' = TRUE /\ file' = NoFile /\ Reset
    /\ UNCHANGED <<structure, importWire, imports, importBudget>>

CloseImport ==
    /\ open /\ ~busy
    /\ open' = FALSE
    /\ UNCHANGED <<structure, file, preview, sheet, column, values, dirty, needsRecheck, importWire, imports, importBudget>>

(* handleFileChange: an unusable or withdrawn file leaves none.             *)
ChooseFile(f) ==
    /\ open /\ ~busy /\ ~preview.shown
    /\ file' = f
    /\ UNCHANGED <<structure, open, preview, sheet, column, values, dirty, needsRecheck, importWire, imports, importBudget>>

(* runPreview                                                               *)
RunPreview(s, c, v) ==
    /\ open /\ ~busy /\ file # NoFile /\ importBudget.sends > 0
    /\ importWire' = [kind |-> "check", at |-> "sent", answer |-> NoPreview,
                request |-> [file |-> file, sheet |-> s, column |-> c, values |-> v]]
    /\ importBudget' = [importBudget EXCEPT !.sends = @ - 1]
    /\ UNCHANGED <<structure, dialog, imports>>

CheckFile == ~preview.shown /\ RunPreview(NoSheet, Unchosen, NoValues)

(* The choices made, and the suggestion for each issue still without one.   *)
EffectiveValues ==
    [q \in ImportTargets |->
        IF values[q] = Unchosen /\ \E o \in Options : <<q, o>> \in preview.issues
        THEN CHOOSE o \in Options : <<q, o>> \in preview.issues ELSE values[q]]

CheckAgain == preview.shown /\ RunPreview(sheet, column, EffectiveValues)

ChangeSheet(s) ==
    /\ preview.shown /\ Cardinality(SheetsOf[file]) > 1 /\ s \in SheetsOf[file]
    /\ s # preview.sheet
    /\ RunPreview(s, Unchosen, NoValues)

ChangeColumn(target) ==
    /\ open /\ ~busy /\ preview.shown /\ target # column
    /\ column' = target /\ dirty' = TRUE
    /\ UNCHANGED <<structure, open, file, preview, sheet, values, needsRecheck, importWire, imports, importBudget>>

ChangeValue(q, choice) ==
    /\ open /\ ~busy /\ preview.shown /\ \E o \in Options \cup {Unchosen} : <<q, o>> \in preview.issues
    /\ choice \in preview.version[q] \cup {Blank} /\ choice # values[q]
    /\ values' = [values EXCEPT ![q] = choice] /\ dirty' = TRUE
    /\ UNCHANGED <<structure, open, file, preview, sheet, column, needsRecheck, importWire, imports, importBudget>>

(* "Change file" keeps the file itself until another is chosen.             *)
ChooseAnotherFile ==
    /\ open /\ ~busy /\ preview.shown
    /\ Reset
    /\ UNCHANGED <<structure, open, file, importWire, imports, importBudget>>

\* Faulty variant: the button does not look at changes since the check.
ReadyUnlessRechecked == preview.shown /\ preview.canImport /\ ~needsRecheck
Ready == preview.shown /\ preview.canImport /\ ~dirty /\ ~needsRecheck

Import ==
    /\ open /\ ~busy /\ file # NoFile /\ Ready /\ importBudget.sends > 0
    /\ importWire' = [kind |-> "import", at |-> "sent", version |-> preview.version,
                request |-> [file |-> file, sheet |-> sheet, column |-> column, values |-> values],
                after |-> preview]
    /\ importBudget' = [importBudget EXCEPT !.sends = @ - 1]
    /\ UNCHANGED <<structure, dialog, imports>>

(* A check's answer replaces what the dialog shows and sends next.          *)
\* Faulty variant: the checked choices are not the ones kept.
AdoptedColumnForgotten(request) == Unchosen
AdoptedColumn(request) == request.column

HearCheck ==
    /\ importWire.kind = "check" /\ importWire.at = "answered"
    /\ preview' = importWire.answer
    /\ sheet' = importWire.request.sheet /\ column' = AdoptedColumn(importWire.request) /\ values' = importWire.request.values
    /\ dirty' = FALSE /\ needsRecheck' = FALSE
    /\ importWire' = Quiet
    /\ UNCHANGED <<structure, open, file, imports, importBudget>>

HearImport ==
    /\ importWire.kind = "import" /\ importWire.at = "answered"
    /\ open' = FALSE /\ importWire' = Quiet
    /\ UNCHANGED <<structure, file, preview, sheet, column, values, dirty, needsRecheck, imports, importBudget>>

(* Any other answer, and no answer within the minute: everything stays.     *)
HearError ==
    /\ busy
    /\ needsRecheck' = (needsRecheck \/ importWire.at = "changed")
    /\ importWire' = Quiet
    /\ UNCHANGED <<structure, open, file, preview, sheet, column, values, dirty, imports, importBudget>>

ImportNext ==
    \/ OpenImportDialog \/ CloseImport \/ CheckFile \/ CheckAgain \/ ChooseAnotherFile \/ Import
    \/ \E f \in Files \cup {NoFile} : ChooseFile(f)
    \/ \E s \in UNION {SheetsOf[f] : f \in Files} : ChangeSheet(s)
    \/ \E t \in ImportTargets \cup {Ignore} : ChangeColumn(t)
    \/ \E q \in ImportTargets, c \in Options \cup {Blank} : ChangeValue(q, c)
    \/ \E q \in ImportTargets : EditSurvey(q)
    \/ ServerChecks \/ ServerImports \/ HearCheck \/ HearImport \/ HearError

ImportSpec == ImportInit /\ [][ImportNext]_importVars

(***************************************************************************)
(* Properties                                                              *)
(***************************************************************************)
(* What is stored is what the last check accepted: that file, sheet, column *)
(* choice and values, against the same options, although the person can     *)
(* change each of them and others can edit the survey up to the commit.     *)
ImportsTheCheck ==
    \A i \in imports :
        /\ i.after.canImport
        /\ i.request = i.after.request
        /\ i.options = i.after.version

(* "You review the column mapping before anything is saved": the column is  *)
(* stored under the question the person saw it mapped to.                   *)
ImportedAsReviewed == \A i \in imports : i.mapped = i.after.mapped
=============================================================================
