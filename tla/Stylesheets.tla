------------------------------ MODULE Stylesheets ------------------------------
(***************************************************************************)
(* StTheme: the stylesheets of a theme, which of their rules match a       *)
(* widget, and in which order the declarations of the matching rules apply *)
(* (st_theme_node_lookup_...() take the last one).  A widget is known by   *)
(* its path: for the stage, its ancestors and itself the set of tokens     *)
(* (type and its base types, classes, pseudo-classes, id) that a simple    *)
(* selector can ask for.                                                   *)
(***************************************************************************)
EXTENDS Integers, Sequences, FiniteSets, FiniteSetsExt, SequencesExt

CONSTANTS
  Sheets,         \* file -> sequence of rules, see RuleType; <<>> for an import
  SheetWeight,    \* token -> what it adds to the specificity of a selector
  Extras,         \* the files that are loaded as custom stylesheets
  AppSheets,  \* the application stylesheets a theme may be made with
  WidgetPaths     \* bound: the widgets that are styled

SheetFiles == DOMAIN Sheets
SheetTokens == DOMAIN SheetWeight

\* A rule: a comma separated list of selectors, each a sequence of simple ones
\* with the combinator that joins it to the one before, and its declarations;
\* or the import of a file.
RuleType ==
  [imports : SheetFiles \cup {""},
   selectors : Seq(Seq([tokens : SUBSET SheetTokens, joint : {"descendant", "child"}])),
   decls : Seq([prop : STRING, value : Nat, important : BOOLEAN])]

ASSUME SheetsAssumption ==
  /\ \A f \in SheetFiles : \A i \in DOMAIN Sheets[f] : Sheets[f][i] \in RuleType
  /\ SheetWeight \in [SheetTokens -> Nat]
  /\ Extras \subseteq SheetFiles /\ AppSheets \subseteq SheetFiles

VARIABLES
  application,    \* application_stylesheet: the author's of the cascade
  custom,         \* custom_stylesheets, the latest first
  sheetsByFile,   \* stylesheets_by_filename: the files that were parsed
  asked           \* what the caller loaded and did not unload, in order

sheetVars == <<application, custom, sheetsByFile, asked>>

-----------------------------------------------------------------------------
\* Selectors

\* The name of the element or of a base type, and each of the additional
\* selectors: class, id, pseudo-class
MatchesSimple(simple, node) == simple.tokens \subseteq node

\* sel_matches_style_real() from the last simple selector to the first: at is
\* cur_node, from is a_node, where the walk of a descendant combinator begins
\* although a child combinator may have left it.
SelMatches(sel, path) ==
  LET match[i \in 1 .. Len(sel), at \in 1 .. Len(path), from \in 1 .. Len(path)] ==
        /\ MatchesSimple(sel[i], path[at])
        /\ CASE i = 1 -> TRUE
             [] i > 1 /\ sel[i].joint = "child" -> at > 1 /\ match[i - 1, at - 1, from]
             [] OTHER -> LET ups == {up \in 1 .. from - 1 : match[i - 1, up, up]}
                         IN ups # {} /\ match[i - 1, Max(ups), from]
  IN match[Len(sel), Len(path), Len(path)]

\* cr_simple_sel_compute_specificity()
Specificity(sel) ==
  FoldLeft(LAMBDA sum, s : sum + MapThenSumSet(LAMBDA t : SheetWeight[t], s.tokens), 0, sel)

-----------------------------------------------------------------------------
\* The cascade

\* add_matched_properties() for one stylesheet and what it imports: the rule
\* keeps one specificity, that of its last selector that matched, and gives its
\* declarations once for each.  A sheet that is not part of the cascade itself
\* has the origin of the default stylesheet, ORIGIN_UA = 0.
AddMatchedProperties(file, origin, path) ==
  LET props[f \in SheetFiles, o \in 0 .. 2] ==
        FoldLeft(LAMBDA acc, rule :
                   IF rule.imports # "" THEN acc \o props[rule.imports, 0]
                   ELSE LET hits == SelectSeq(rule.selectors, LAMBDA s : SelMatches(s, path))
                        IN IF hits = <<>> THEN acc
                           ELSE acc \o FlattenSeq([h \in DOMAIN hits |->
                                  [d \in DOMAIN rule.decls |->
                                     [decl |-> rule.decls[d], origin |-> o, spec |-> Specificity(Last(hits))]]]),
                 <<>>, Sheets[f])
  IN props[file, origin]

\* get_origin(): ORIGIN_AUTHOR is 2; 3 and 4 are the important ones
Origin(p) == IF ~p.decl.important THEN p.origin ELSE IF p.origin = 2 THEN 3 ELSE IF p.origin = 1 THEN 4 ELSE p.origin

\* Mutant: the specificity is compared before the origin.
CompareSpecificityFirst(a, b) ==
  IF a.spec # b.spec THEN a.spec - b.spec ELSE Origin(a) - Origin(b)

\* compare_declarations()
CompareDeclarations(a, b) ==
  IF Origin(a) # Origin(b) THEN Origin(a) - Origin(b) ELSE a.spec - b.spec

\* _st_theme_get_matched_properties(): the sort is stable.
MatchedProperties(path) ==
  LET found == (IF application = "" THEN <<>> ELSE AddMatchedProperties(application, 2, path))
               \o FlattenSeq([i \in DOMAIN custom |-> AddMatchedProperties(custom[i], 0, path)])
      before(i, j) == \/ CompareDeclarations(found[i], found[j]) < 0
                      \/ CompareDeclarations(found[i], found[j]) = 0 /\ i < j
  IN [k \in DOMAIN found |-> found[CHOOSE i \in DOMAIN found : Cardinality({j \in DOMAIN found : before(j, i)}) = k - 1]]

-----------------------------------------------------------------------------
SheetsInit ==
  /\ application \in AppSheets
  /\ custom = <<>> /\ asked = <<>>
  /\ sheetsByFile = {application}

\* st_theme_load_stylesheet(), for an extension; a file that cannot be parsed
\* changes nothing.  No file is loaded twice.
SheetLoaded ==
  /\ \E f \in Extras \ ToSet(custom) :
       /\ custom' = <<f>> \o custom
       /\ sheetsByFile' = sheetsByFile \cup {f}
       /\ asked' = Append(asked, f)
  /\ UNCHANGED application

\* st_theme_unload_stylesheet(): only of a custom stylesheet
SheetUnloaded ==
  /\ \E f \in sheetsByFile :
       /\ f \in ToSet(custom)
       /\ custom' = SelectSeq(custom, LAMBDA g : g # f)
       /\ sheetsByFile' = sheetsByFile \ {f}
       /\ asked' = SelectSeq(asked, LAMBDA g : g # f)
  /\ UNCHANGED application

\* A widget is styled: the imports of the stylesheets it goes through are read.
ImportsRead ==
  /\ \E f \in ToSet(custom) \cup {application} :
       sheetsByFile' = sheetsByFile \cup ({rule.imports : rule \in ToSet(Sheets[f])} \ {""})
  /\ UNCHANGED <<application, custom, asked>>

\* st_theme_get_custom_stylesheets(): the list is turned round.
CustomStylesheets == Reverse(custom)

\* loadTheme() in main.js: a new theme, with the custom stylesheets of the last.
ThemeLoaded ==
  /\ \E app \in AppSheets :
       /\ application' = app
       /\ custom' = FoldLeft(LAMBDA l, f : <<f>> \o l, <<>>, CustomStylesheets)
       /\ sheetsByFile' = {app} \cup ToSet(custom)
  /\ UNCHANGED asked

SheetsNext == SheetLoaded \/ SheetUnloaded \/ ImportsRead \/ ThemeLoaded

-----------------------------------------------------------------------------
\* Types
SheetsTypeOK ==
  /\ application \in AppSheets
  /\ ToSet(custom) \subseteq Extras /\ ToSet(asked) \subseteq Extras
  /\ sheetsByFile \subseteq SheetFiles

\* What CSS means by a selector: its simple selectors match a chain of ancestors.
Means(sel, path) ==
  \E at \in [1 .. Len(sel) -> 1 .. Len(path)] :
    /\ at[Len(sel)] = Len(path)
    /\ \A i \in DOMAIN sel : sel[i].tokens \subseteq path[at[i]]
    /\ \A i \in 2 .. Len(sel) : IF sel[i].joint = "child" THEN at[i - 1] = at[i] - 1 ELSE at[i - 1] < at[i]

\* A child combinator after a descendant combinator: see SelMatches
LeavesNode(sel) == \E i, j \in 2 .. Len(sel) : i < j /\ sel[i].joint = "descendant" /\ sel[j].joint = "child"

\* Selectors match as CSS defines it, whatever ancestor the search has to go on
\* from when the nearest one leads nowhere.  (sel_matches_style_real() only fails
\* for selectors with a child after a descendant combinator, which it may find
\* without the ancestor that they ask for.)
SelectorsMatch ==
  \A f \in ToSet(custom) \cup {application} : \A rule \in ToSet(Sheets[f]) : \A sel \in ToSet(rule.selectors) :
    \A path \in WidgetPaths :
      /\ Means(sel, path) => SelMatches(sel, path)
      /\ SelMatches(sel, path) /\ ~LeavesNode(sel) => Means(sel, path)

\* The stylesheets of the theme: that of the application, and those that were
\* loaded and are still wanted; the one that was loaded first is the last to speak.
Sources == <<[file |-> application, origin |-> 2]>> \o [i \in DOMAIN asked |-> [file |-> Reverse(asked)[i], origin |-> 0]]

\* A rule two of whose selectors match with different specificities
Unclear(path) ==
  \E f \in ToSet(custom) \cup {application} : \E rule \in ToSet(Sheets[f]) :
    \E s, t \in ToSet(rule.selectors) : SelMatches(s, path) /\ SelMatches(t, path) /\ Specificity(s) # Specificity(t)

\* The cascade: of all that the stylesheets say of a property, what is important
\* for the author wins, then what comes from the author, then what was asked for
\* most specifically, then what comes last; it holds for the stylesheets that are
\* loaded when the widget is styled, through unloading and a change of theme.
CascadeIsKept ==
  \A path \in {p \in WidgetPaths : ~Unclear(p)} :
    \A got \in {MatchedProperties(path)} :
      LET said == {<<s, r, d>> \in (DOMAIN Sources) \X (1 .. 9) \X (1 .. 9) :
                     /\ r \in DOMAIN Sheets[Sources[s].file]
                     /\ d \in DOMAIN Sheets[Sources[s].file][r].decls
                     /\ \E sel \in ToSet(Sheets[Sources[s].file][r].selectors) : SelMatches(sel, path)}
          rule(x) == Sheets[Sources[x[1]].file][x[2]]
          decl(x) == rule(x).decls[x[3]]
          author(x) == Sources[x[1]].origin = 2
          spec(x) == Max({Specificity(sel) : sel \in {t \in ToSet(rule(x).selectors) : SelMatches(t, path)}})
          beats(x, y) ==
            CASE author(x) # author(y) -> author(x)
              [] author(x) /\ decl(x).important # decl(y).important -> decl(x).important
              [] spec(x) # spec(y) -> spec(x) > spec(y)
              [] x[1] # y[1] -> x[1] > y[1]
              [] x[2] # y[2] -> x[2] > y[2]
              [] OTHER -> x[3] > y[3]
      IN \A prop \in {decl(x).prop : x \in said} :
           LET best == CHOOSE x \in said : decl(x).prop = prop /\ \A y \in said \ {x} : decl(y).prop = prop => beats(x, y)
               last == Max({i \in DOMAIN got : got[i].decl.prop = prop})
           IN got[last].decl = decl(best)
===============================================================================
