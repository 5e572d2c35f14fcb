------------------------ MODULE QuestionnaireEditor ------------------------
(* The questionnaire in the survey editor: the edits that                  *)
(* useSurveyManagement applies to its sections, and the rules a structure  *)
(* must satisfy before it is saved (lib/survey-structure.ts).              *)
(*                                                                         *)
(* An option is a text that conditions and dependent choices of other      *)
(* questions refer to by value.  Titles, question texts, scale labels and  *)
(* the required flag are left out: no rule relates them to anything.       *)
EXTENDS Nullable, SequencesExt, Integers, FiniteSets

CONSTANTS
    SectionIds, QuestionIds,   \* client ids, persisted or created in the editor
    Typed,                     \* what the editor may type into an option field
    Loaded,                    \* questionnaires the editor may open
    MaxEdits                   \* bound on the edits of one session

VARIABLES
    sections,   \* the questionnaire as edited
    drag,       \* what is being dragged, or NULL
    edits       \* number of edits made

editorVars == <<sections, drag, edits>>

Blank == ""
OptionTypes == {"single_choice", "multiple_choice", "ranking"}
OptionlessTypes == {"text"}
QuestionTypes == OptionTypes \cup OptionlessTypes \cup {"matrix", "scale"}

ConfigKeys == {"question_key", "survey_phase", "visible_when",
               "options_by_answer", "columns", "bounds"}
NoConfig == [key \in ConfigKeys |-> NULL]

-----------------------------------------------------------------------------
(* Texts and lists.                                                        *)

\* The entries of s at the places I, in their order.
Entries(s, I) == FlattenSeq([n \in DOMAIN s |-> IF n \in I THEN <<s[n]>> ELSE <<>>])
Uniq(s) == Entries(s, {n \in DOMAIN s : \A m \in 1..(n - 1) : s[m] # s[n]})
NonBlank(s) == Entries(s, {n \in DOMAIN s : s[n] # Blank})
NonBlankStrings(s) == Uniq(NonBlank(s))
HasUniqueNonBlankStrings(s) == s # <<>> /\ NonBlankStrings(s) = s

OrEmpty(list) == IF list = NULL THEN <<>> ELSE list

MoveInArray(items, from, to) ==
    IF from = to \/ ~({from, to} \subseteq DOMAIN items) THEN items
    ELSE InsertAt(RemoveAt(items, from), to, items[from])

-----------------------------------------------------------------------------
(* Places of a questionnaire: a section index and a question index.        *)

Places(S) == UNION {{i} \X DOMAIN S[i].questions : i \in DOMAIN S}
At(S, p) == S[p[1]].questions[p[2]]
Put(S, p, question) == [S EXCEPT ![p[1]].questions[p[2]] = question]
Earlier(p, r) == p[1] < r[1] \/ (p[1] = r[1] /\ p[2] < r[2])
UsedIds(S) == {At(S, p).id : p \in Places(S)}

MapQuestions(S, Edit(_)) ==
    [i \in DOMAIN S |-> [S[i] EXCEPT !.questions = [j \in DOMAIN @ |-> Edit(@[j])]]]

Key(question) == question.config.question_key
Dependency(question) == question.config.options_by_answer
Condition(question) == question.config.visible_when

-----------------------------------------------------------------------------
(* Choices that depend on the answer to an earlier question.  The order in *)
(* which the branches are listed is not kept.                              *)

ChoiceUnion(choices) ==
    LET answers == SetToSeq(DOMAIN choices)
    IN NonBlankStrings(FlattenSeq([n \in DOMAIN answers |-> choices[answers[n]]]))

\* Faulty variant: a new choice of a branch does not reach the flat options.
SynchronizedFlatOptionsKept(current, previous, next, from, to) ==
    Uniq(SelectSeq(current, LAMBDA t : t \notin ToSet(ChoiceUnion(previous))
                                          \/ t \in ToSet(ChoiceUnion(next))))

\* The flat options of a dependent question after its branches changed:
\* what is no longer offered by a branch goes, what is new comes last, and
\* `from`, if one choice was retyped, is replaced in place by `to`.
SynchronizedFlatOptions(current, previous, next, from, to) ==
    LET before == ToSet(ChoiceUnion(previous))
        after == ChoiceUnion(next)
        Kept(t) == IF t = from /\ to # Blank /\ Contains(after, to) THEN <<to>>
                   ELSE IF t \in before /\ ~Contains(after, t) THEN <<>> ELSE <<t>>
    IN Uniq(FlattenSeq([n \in DOMAIN current |-> Kept(current[n])]) \o after)

QuestionWithDependentChoices(question, choices, from, to) ==
    [question EXCEPT
        !.options = SynchronizedFlatOptions(OrEmpty(@), Dependency(question).choices,
                                            choices, from, to),
        !.config.options_by_answer.choices = choices]

HasVisibleOptionReference(S, key, answer) ==
    \E p \in Places(S) : /\ Condition(At(S, p)) # NULL
                         /\ Condition(At(S, p)).question_key = key
                         /\ answer \in Condition(At(S, p)).one_of

\* Branches follow the options of their source: from renamed to `to`, removed
\* (to = NULL), or dropped because no option carries their answer any more.
NextChoices(choices, options, from, to) ==
    LET NextAnswer(a) == IF a = from THEN to ELSE a
        sources(b) == {a \in DOMAIN choices : NextAnswer(a) = b}
        kept == {b \in ToSet(NonBlank(options)) : sources(b) # {}}
        Merged(b) == LET order == SetToSeq(sources(b)) IN
                     IF Len(order) = 1 THEN choices[order[1]]
                     ELSE Uniq(FlattenSeq([n \in DOMAIN order |-> choices[order[n]]]))
    IN [b \in kept |-> Merged(b)]

\* Faulty variant: only the branches follow a rename.
NextConditionKept(condition, from, to) == condition

\* Conditions only follow a rename.
NextCondition(condition, from, to) ==
    IF to = NULL THEN condition
    ELSE [condition EXCEPT !.one_of = {IF a = from THEN to ELSE a : a \in @}]

SynchronizeDependentChoices(S, key, options, from, to) ==
    LET Branches(q) ==
            IF Dependency(q) # NULL /\ Dependency(q).question_key = key
            THEN LET next == NextChoices(Dependency(q).choices, options, from, to)
                 IN QuestionWithDependentChoices(q, next, NULL, NULL)
            ELSE q
        Visibility(q) ==
            IF Condition(q) # NULL /\ Condition(q).question_key = key
            THEN [q EXCEPT !.config.visible_when = NextCondition(@, from, to)]
            ELSE q
    IN MapQuestions(S, LAMBDA q : Visibility(Branches(q)))

\* The options of the question at p become `options`; its dependants follow.
WithOptions(S, p, options, from, to) ==
    LET edited == Put(S, p, [At(S, p) EXCEPT !.options = options])
    IN IF Key(At(S, p)) = NULL THEN edited
       ELSE SynchronizeDependentChoices(edited, Key(At(S, p)), OrEmpty(options), from, to)

-----------------------------------------------------------------------------
(* What a type keeps of a question, and what may be saved.                 *)

CommonConfigKeys == {"question_key", "survey_phase", "visible_when"}
ChoiceConfigKeys == CommonConfigKeys \cup {"options_by_answer"}

KeptConfig(config, keys) == [key \in ConfigKeys |-> IF key \in keys THEN config[key] ELSE NULL]

ValidBounds(bounds) ==
    IF bounds # NULL /\ bounds.min < bounds.max THEN bounds ELSE [min |-> 1, max |-> 4]

IfEmpty(list, default) == IF list = <<>> THEN default ELSE list

NormalizeQuestionStructure(question, type) ==
    LET options == NonBlankStrings(OrEmpty(question.options))
        config == question.config
        columns == NonBlankStrings(OrEmpty(config.columns))
        common == KeptConfig(config, CommonConfigKeys)
    IN [question EXCEPT
        !.type = type,
        !.options = CASE type \in OptionTypes -> IfEmpty(options, <<"Option 1", "Option 2">>)
                      [] type = "matrix" -> IfEmpty(options, <<"Row 1", "Row 2">>)
                      [] OTHER -> NULL,
        !.config = CASE type \in OptionTypes -> KeptConfig(config, ChoiceConfigKeys)
                     [] type = "matrix" ->
                          [common EXCEPT !.columns = IfEmpty(columns, <<"Poor", "Fair", "Good", "Excellent">>)]
                     [] type = "scale" -> [common EXCEPT !.bounds = ValidBounds(config.bounds)]
                     [] OTHER -> common]

SourcePlace(S, key) == {p \in Places(S) : key # NULL /\ Key(At(S, p)) = key}

\* The question named by a condition or a dependency is an earlier single
\* choice of the same phase.
SourceReferenceValid(S, p, key) ==
    \E source \in SourcePlace(S, key) :
        /\ Earlier(source, p)
        /\ At(S, source).type = "single_choice"
        /\ LET phases == {At(S, r).config.survey_phase : r \in {source, p}}
           IN Cardinality(phases \ {NULL}) <= 1

DependencyValid(S, p) ==
    LET question == At(S, p)
        dependency == Dependency(question)
        answers == UNION {ToSet(OrEmpty(At(S, r).options)) : r \in SourcePlace(S, dependency.question_key)}
    IN dependency # NULL =>
        /\ question.type = "single_choice"
        /\ DOMAIN dependency.choices # {}
        /\ SourceReferenceValid(S, p, dependency.question_key)
        /\ \A a \in DOMAIN dependency.choices :
              /\ a # Blank /\ a \in answers
              /\ HasUniqueNonBlankStrings(dependency.choices[a])
              /\ ToSet(dependency.choices[a]) \subseteq ToSet(OrEmpty(question.options))

ConditionValid(S, p) ==
    LET condition == Condition(At(S, p)) IN
    condition # NULL => /\ condition.one_of # {} /\ Blank \notin condition.one_of
                        /\ SourceReferenceValid(S, p, condition.question_key)

\* The rules that concern one question by itself.
TypeRulesValid(question) ==
    /\ question.type \in OptionTypes \cup {"matrix"} =>
          HasUniqueNonBlankStrings(OrEmpty(question.options))
    /\ question.type = "matrix" => HasUniqueNonBlankStrings(OrEmpty(question.config.columns))
    /\ question.type = "scale" /\ question.config.bounds # NULL =>
          ValidBounds(question.config.bounds) = question.config.bounds
    /\ question.type \in OptionlessTypes =>
          question.options = NULL /\ question.config = KeptConfig(question.config, CommonConfigKeys)

ValidateSurveyStructure(S) ==
    /\ \A p \in Places(S) : Key(At(S, p)) # NULL => SourcePlace(S, Key(At(S, p))) = {p}
    /\ \A p \in Places(S) : /\ TypeRulesValid(At(S, p))
                            /\ DependencyValid(S, p) /\ ConditionValid(S, p)

\* What a question has, of which the rules take the lists to be of texts.
QuestionShaped(q) ==
    /\ q = [id |-> q.id, type |-> q.type, options |-> q.options, config |-> q.config]
    /\ q.options # NULL => q.options \in Seq(STRING)
    /\ q.config = [key \in ConfigKeys |-> q.config[key]]
    /\ Condition(q) # NULL => Condition(q) = [question_key |-> Condition(q).question_key,
                                              one_of |-> Condition(q).one_of]
    /\ Dependency(q) # NULL =>
          LET d == Dependency(q)
          IN  /\ d = [question_key |-> d.question_key, choices |-> d.choices]
              /\ IsFiniteSet(DOMAIN d.choices) /\ DOMAIN d.choices \subseteq STRING
              /\ d.choices \in [DOMAIN d.choices -> Seq(STRING)]

SectionsShaped(S) ==
    /\ S \in Seq(ToSet(S))
    /\ \A i \in DOMAIN S :
          /\ S[i] = [id |-> S[i].id, questions |-> S[i].questions]
          /\ S[i].questions \in Seq(ToSet(S[i].questions))
          /\ \A q \in ToSet(S[i].questions) : QuestionShaped(q)

\* The server accepted what it stores, by the same rules.
ASSUME LoadedValid == \A S \in Loaded : SectionsShaped(S) /\ ValidateSurveyStructure(S)
ASSUME TextAssumption ==
    /\ Typed \cup {Blank, "Option 1", "Option 2", "Row 1", "Row 2"} \subseteq STRING
    /\ NULL \notin Typed \cup Seq(STRING)

-----------------------------------------------------------------------------
(* Edits.  Each is one event of the editor; the controls a card shows are  *)
(* the guards.  Nothing is edited while something is dragged.              *)

EditorInit == /\ sections \in Loaded
              /\ drag = NULL /\ edits = 0

Edit(next) == /\ drag = NULL /\ edits < MaxEdits
              /\ sections' = next /\ edits' = edits + 1
              /\ UNCHANGED drag

ShowsOptions(question) ==
    \/ question.type = "matrix"
    \/ question.type \in OptionTypes /\ Dependency(question) = NULL
ShowsBranches(question) == question.type \in OptionTypes /\ Dependency(question) # NULL

AddSection ==
    \E id \in SectionIds \ {sections[i].id : i \in DOMAIN sections} :
        Edit(Append(sections, [id |-> id, questions |-> <<>>]))

MoveSection(i, delta) ==
    /\ i + delta \in DOMAIN sections
    /\ Edit(MoveInArray(sections, i, i + delta))

RemoveSection(i) == Edit(RemoveAt(sections, i))

AddQuestion(i) ==
    \E id \in QuestionIds \ UsedIds(sections) :
        Edit([sections EXCEPT ![i].questions =
                  Append(@, [id |-> id, type |-> "text", options |-> NULL, config |-> NoConfig])])

RemoveQuestion(p) == Edit([sections EXCEPT ![p[1]].questions = RemoveAt(@, p[2])])

MoveQuestionBy(p, delta) ==
    /\ p[2] + delta \in DOMAIN sections[p[1]].questions
    /\ Edit([sections EXCEPT ![p[1]].questions = MoveInArray(@, p[2], p[2] + delta)])

ChangeType(p, type) ==
    LET question == NormalizeQuestionStructure(At(sections, p), type)
    IN Edit(WithOptions(Put(sections, p, question), p, question.options, NULL, NULL))

\* A keyless question, or one nothing refers to, may be cleared.
UpdateOption(p, n, value) ==
    LET question == At(sections, p)
        options == OrEmpty(question.options)
    IN /\ ShowsOptions(question) /\ n \in DOMAIN options /\ value # options[n]
       /\ ~(/\ Key(question) # NULL /\ value = Blank
            /\ HasVisibleOptionReference(sections, Key(question), options[n]))
       /\ Edit(WithOptions(sections, p, [options EXCEPT ![n] = value], options[n], value))

RemoveOption(p, n) ==
    LET question == At(sections, p)
        options == OrEmpty(question.options)
    IN /\ ShowsOptions(question) /\ n \in DOMAIN options
       /\ ~(/\ Key(question) # NULL
            /\ HasVisibleOptionReference(sections, Key(question), options[n]))
       /\ Edit(WithOptions(sections, p, RemoveAt(options, n), options[n], NULL))

AddOption(p) ==
    /\ ShowsOptions(At(sections, p))
    /\ Edit(WithOptions(sections, p, Append(OrEmpty(At(sections, p).options), Blank), NULL, NULL))

Reordered(p, from, to) ==
    Put(sections, p, [At(sections, p) EXCEPT !.options = MoveInArray(OrEmpty(@), from, to)])

MoveOption(p, n, delta) ==
    /\ ShowsOptions(At(sections, p))
    /\ {n, n + delta} \subseteq DOMAIN OrEmpty(At(sections, p).options)
    /\ Edit(Reordered(p, n, n + delta))

\* The branches a card lists: one for every answer of the source question,
\* and one for every answer that still has choices.
BranchAnswers(p) ==
    DOMAIN Dependency(At(sections, p)).choices
        \cup UNION {ToSet(OrEmpty(At(sections, r).options)) :
                       r \in SourcePlace(sections, Dependency(At(sections, p)).question_key)}

Branch(p, answer) ==
    LET choices == Dependency(At(sections, p)).choices
    IN IF answer \in DOMAIN choices THEN choices[answer] ELSE <<>>

\* One branch of the question at p becomes `list`.
EditBranch(p, answer, list, from, to) ==
    LET choices == Dependency(At(sections, p)).choices
        next == [a \in DOMAIN choices \cup {answer} |-> IF a = answer THEN list ELSE choices[a]]
    IN Edit(Put(sections, p, QuestionWithDependentChoices(At(sections, p), next, from, to)))

DropBranch(p, answer) ==
    LET choices == Dependency(At(sections, p)).choices
        next == [a \in DOMAIN choices \ {answer} |-> choices[a]]
    IN Edit(Put(sections, p, QuestionWithDependentChoices(At(sections, p), next, NULL, NULL)))

UpdateDependentOption(p, answer, n, value) ==
    LET list == Branch(p, answer)
    IN /\ n \in DOMAIN list /\ value # list[n]
       /\ EditBranch(p, answer, [list EXCEPT ![n] = value], list[n], value)

AddDependentOption(p, answer) ==
    EditBranch(p, answer, Append(Branch(p, answer), Blank), NULL, NULL)

RemoveDependentOption(p, answer, n) ==
    /\ n \in DOMAIN Branch(p, answer)
    /\ IF Len(Branch(p, answer)) = 1 THEN DropBranch(p, answer)
       ELSE EditBranch(p, answer, RemoveAt(Branch(p, answer), n), NULL, NULL)

MoveDependentOption(p, answer, n, delta) ==
    /\ {n, n + delta} \subseteq DOMAIN Branch(p, answer)
    /\ EditBranch(p, answer, MoveInArray(Branch(p, answer), n, n + delta), NULL, NULL)

RemoveDependentBranch(p, answer) ==
    /\ answer \in DOMAIN Dependency(At(sections, p)).choices
    /\ DropBranch(p, answer)

WithColumns(p, columns) == Put(sections, p, [At(sections, p) EXCEPT !.config.columns = columns])

EditColumns(p) ==
    LET columns == OrEmpty(At(sections, p).config.columns) IN
    /\ At(sections, p).type = "matrix"
    /\ \/ \E n \in DOMAIN columns, value \in Typed : Edit(WithColumns(p, [columns EXCEPT ![n] = value]))
       \/ \E n \in DOMAIN columns : Edit(WithColumns(p, RemoveAt(columns, n)))
       \/ Edit(WithColumns(p, Append(columns, Blank)))
       \/ \E n \in 1..(Len(columns) - 1) : Edit(WithColumns(p, MoveInArray(columns, n, n + 1)))

-----------------------------------------------------------------------------
(* Dragging.  Sections can be picked up but nothing accepts them: no       *)
(* element passes a section as the target of handleDrop.                   *)

Items(S) ==
    {[kind |-> "section", place |-> <<i, 0>>, index |-> 0] : i \in DOMAIN S}
    \cup {[kind |-> "question", place |-> p, index |-> 0] : p \in Places(S)}
    \cup (UNION {{[kind |-> "option", place |-> p, index |-> n] : n \in DOMAIN OrEmpty(At(S, p).options)} :
                    p \in {r \in Places(S) : ShowsOptions(At(S, r))}})
    \cup (UNION {{[kind |-> "column", place |-> p, index |-> n] : n \in DOMAIN OrEmpty(At(S, p).config.columns)} :
                    p \in {r \in Places(S) : At(S, r).type = "matrix"}})

Targets(S) == {item \in Items(S) : item.kind # "section"}

\* Faulty variant: the index is not corrected for the question taken out.
MoveQuestionUncorrected(S, from, to) ==
    LET lifted == [S EXCEPT ![from[1]].questions = RemoveAt(@, from[2])]
    IN [lifted EXCEPT ![to[1]].questions = InsertAt(@, to[2], At(S, from))]

\* The question at `from` goes to where the question at `to` is: before it.
MoveQuestion(S, from, to) ==
    LET lifted == [S EXCEPT ![from[1]].questions = RemoveAt(@, from[2])]
        index == IF from[1] = to[1] /\ from[2] < to[2] THEN to[2] - 1 ELSE to[2]
    IN [lifted EXCEPT ![to[1]].questions = InsertAt(@, index, At(S, from))]

HandleDragStart == /\ drag = NULL /\ edits < MaxEdits
                   /\ drag' \in Items(sections)
                   /\ UNCHANGED <<sections, edits>>

HandleDrop(target) ==
    LET SameQuestion == drag.kind = target.kind /\ drag.place = target.place IN
    /\ drag # NULL
    /\ drag' = NULL /\ edits' = edits + 1
    /\ sections' =
         CASE drag.kind = "question" /\ target.kind = "question" ->
                 MoveQuestion(sections, drag.place, target.place)
           [] drag.kind = "option" /\ SameQuestion ->
                 Reordered(drag.place, drag.index, target.index)
           [] drag.kind = "column" /\ SameQuestion ->
                 WithColumns(drag.place, MoveInArray(At(sections, drag.place).config.columns,
                                                     drag.index, target.index))
           [] OTHER -> sections

DragEnd == drag # NULL /\ drag' = NULL /\ UNCHANGED <<sections, edits>>

\* The editor is closed and what it held is forgotten; it opens on what is
\* stored.
CloseAndReopen == /\ drag = NULL
                  /\ sections' \in Loaded /\ edits' = 0
                  /\ UNCHANGED drag

-----------------------------------------------------------------------------
OptionControls ==
    \E p \in Places(sections) :
        \/ \E n \in DOMAIN OrEmpty(At(sections, p).options) :
              \/ \E value \in Typed : UpdateOption(p, n, value)
              \/ RemoveOption(p, n)
              \/ \E delta \in {-1, 1} : MoveOption(p, n, delta)
        \/ AddOption(p)

BranchControls ==
    \E p \in {r \in Places(sections) : ShowsBranches(At(sections, r))} :
        \E answer \in BranchAnswers(p) :
            \/ \E n \in DOMAIN Branch(p, answer) :
                  \/ \E value \in Typed : UpdateDependentOption(p, answer, n, value)
                  \/ RemoveDependentOption(p, answer, n)
                  \/ \E delta \in {-1, 1} : MoveDependentOption(p, answer, n, delta)
            \/ AddDependentOption(p, answer)
            \/ RemoveDependentBranch(p, answer)

TypeControls == \E p \in Places(sections), type \in QuestionTypes : ChangeType(p, type)

Dropped == \E target \in Targets(sections) : HandleDrop(target)

Reorderings ==
    \/ \E i \in DOMAIN sections, delta \in {-1, 1} : MoveSection(i, delta)
    \/ \E p \in Places(sections), delta \in {-1, 1} : MoveQuestionBy(p, delta)
    \/ Dropped

SectionControls == \/ AddSection
                   \/ \E i \in DOMAIN sections : RemoveSection(i) \/ AddQuestion(i)

EditorNext ==
    \/ OptionControls \/ BranchControls \/ TypeControls \/ SectionControls \/ Reorderings
    \/ \E p \in Places(sections) : RemoveQuestion(p) \/ EditColumns(p)
    \/ HandleDragStart \/ DragEnd \/ CloseAndReopen

EditorSpec == EditorInit /\ [][EditorNext]_editorVars

-----------------------------------------------------------------------------
(* Properties.                                                             *)

\* References by value into the options of the questions with this key.
ReferencesLive(S, key) ==
    LET options == UNION {ToSet(OrEmpty(At(S, p).options)) : p \in SourcePlace(S, key)} IN
    \A p \in Places(S) :
        /\ Dependency(At(S, p)) # NULL /\ Dependency(At(S, p)).question_key = key =>
              DOMAIN Dependency(At(S, p)).choices \subseteq options
        /\ Condition(At(S, p)) # NULL /\ Condition(At(S, p)).question_key = key =>
              Condition(At(S, p)).one_of \subseteq options

\* The options of every question with this key are its author's, not the
\* choices of its branches.
Independent(S, key) == \A p \in SourcePlace(S, key) : Dependency(At(S, p)) = NULL

\* Typing into, adding, removing and moving options and branches never leaves
\* a branch or a visibility condition of another question that names an
\* option which is not there: a condition no answer can satisfy would hide
\* its question from every respondent, and saving does not notice it.  The
\* options are those of a question without branches.
\* (Stated as: a step that breaks a reference is none of these edits.)
OptionEditsKeepReferences ==
    [][(\E p \in Places(sections) :
           LET key == Key(At(sections, p))
           IN  /\ Independent(sections, key) /\ ReferencesLive(sections, key)
               /\ ~ReferencesLive(sections', key))
          => ~(OptionControls \/ BranchControls)]_editorVars

\* The same of every question with a key, one with branches too.  It does not
\* hold: a choice of a question with branches goes with its last branch.
ReferencedChoicesStay ==
    [][(\E p \in Places(sections) : /\ ReferencesLive(sections, Key(At(sections, p)))
                                   /\ ~ReferencesLive(sections', Key(At(sections, p))))
          => ~(OptionControls \/ BranchControls)]_editorVars

\* Whatever sequence of edits is made, on the source or on the dependent
\* question, a choice that some branch offers is one of the question's
\* options: the respondent's form offers only their intersection.
BranchesOfferOptions ==
    \A p \in Places(sections) :
        Dependency(At(sections, p)) # NULL =>
            ToSet(ChoiceUnion(Dependency(At(sections, p)).choices))
                \subseteq ToSet(OrEmpty(At(sections, p).options))

\* The lists of questions per section id, without the question `id`.
ListsWithout(S, id) ==
    [s \in {S[i].id : i \in DOMAIN S} |->
        LET list == S[CHOOSE i \in DOMAIN S : S[i].id = s].questions
        IN Entries(list, {n \in DOMAIN list : list[n].id # id})]

\* Moving loses, duplicates and disturbs nothing: every question is still
\* there once; after a drop all others keep their place in order and the
\* dropped question stands right before the one it was dropped on.
MovesDisturbNothing ==
    [][/\ (\/ UsedIds(sections') # UsedIds(sections)
           \/ Cardinality(Places(sections')) # Cardinality(Places(sections)))
              => ~Reorderings
       /\ drag # NULL /\ drag.kind = "question" =>
            \A target \in {item \in Targets(sections) : item.kind = "question"} \ {drag} :
               HandleDrop(target) =>
                  LET moved == At(sections, drag.place)
                      onto == At(sections, target.place)
                  IN /\ ListsWithout(sections, moved.id) = ListsWithout(sections', moved.id)
                     /\ \E p \in Places(sections') :
                           /\ At(sections', p) = moved
                           /\ <<p[1], p[2] + 1>> \in Places(sections')
                           /\ At(sections', <<p[1], p[2] + 1>>) = onto]_editorVars

=============================================================================
