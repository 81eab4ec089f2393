--------------------------------- MODULE Search ---------------------------------
(***************************************************************************)
(* The search of the overview (search.js): providers that answer at once,  *)
(* for applications (shell-app-system.c, shell-app.c) and for contacts     *)
(* (shell-contact-system.c), and one that answers over D-Bus               *)
(* (remoteSearch.js).  When every term grows, a provider may search among  *)
(* what it found before.  A text is a sequence of letters.                 *)
(***************************************************************************)
EXTENDS Integers, Sequences, SequencesExt, FiniteSets, FiniteSetsExt

CONSTANTS
  AppIds, Versions,   \* what the entry of an application may say: id -> records
  Score,              \* usage of the applications
  People,             \* contact -> [names, addresses]
  Items,              \* what the remote provider has: item -> text
  Searches,           \* the terms the user types
  MaxChanges,         \* bound on the changes of the menu
  MaxArrived          \* bound on the answers that wait to be delivered

VARIABLES
  providers,    \* _providers
  terms,        \* _previousTerms
  results,      \* _previousResults: [provider, found]
  installed,    \* id_to_app
  entries,      \* the entry of each ShellApp, also of one that was removed
  foldedTexts,       \* the casefolded texts of each ShellApp, made when it is first searched
  remoteCall,        \* the call of the remote provider that is out, [terms, among]
  arrived,      \* answers that have arrived and are not delivered yet
  changes,
  outdated      \* history: why the results need not be those of a new search

searchVars == <<providers, terms, results, installed, entries, foldedTexts, remoteCall, arrived, changes, outdated>>

None == [shown |-> FALSE]   \* not cached
All == DOMAIN Items

-----------------------------------------------------------------------------
\* strstr(): where the term is found first, 0 if it is not.
Strstr(text, term) ==
  LET at == {i \in 1..Len(text) : /\ i + Len(term) - 1 <= Len(text)
                                  /\ SubSeq(text, i, i + Len(term) - 1) = term}
  IN IF at = {} THEN 0 ELSE Min(at)

\* MATCH_NONE, MATCH_SUBSTRING, MATCH_PREFIX: at the start, or after the letter "after".
MatchText(text, term, after) ==
  LET p == Strstr(text, term) IN
  CASE p = 0 -> 0
    [] p = 1 -> 2
    [] OTHER -> IF text[p - 1] = after THEN 2 ELSE 1

\* _shell_app_match_search_terms(): every term has to be found somewhere, and one that
\* is a prefix makes the whole a prefix match; a description has no prefixes.
TermMatch(app, term) ==
  Max({MatchText(app.name, term, " "), MatchText(app.exec, term, "-"),
       Min({1, Strstr(app.description, term)})}
      \cup {MatchText(k, term, "none") : k \in app.keywords})
TermMatches == [app \in UNION Range(Versions), term \in UNION {Range(ts) : ts \in Searches} |->
                  TermMatch(app, term)]
MatchSearchTerms(app, ts) ==
  LET of == {TermMatches[app, ts[i]] : i \in DOMAIN ts} IN IF 0 \in of THEN 0 ELSE Max(of)

\* shell_app_init_search_data() runs once for a ShellApp.
Texts(id) == IF foldedTexts[id] = None THEN entries[id] ELSE foldedTexts[id]

\* _shell_app_do_match() and sort_and_concat_results(): the prefix matches come first,
\* each part by usage.
SearchApps(among, ts) ==
  LET match(id) == IF entries[id].shown THEN MatchSearchTerms(Texts(id), ts) ELSE 0
      part(m) == SortSeq(SelectSeq(among, LAMBDA id : match(id) = m),
                         LAMBDA a, b : Score[a] > Score[b])
  IN part(2) \o part(1)

\* do_match() of a contact: 100 or 90 for a name, 10 or 5 for an address, as prefix or
\* not, if every term is found in one of them.
Found(texts, ts) == UNION {{MatchText(t, ts[i], "none") : t \in texts} : i \in DOMAIN ts}
Weight(person, ts) ==
  LET all == \A i \in DOMAIN ts : \E t \in person.names \cup person.addresses : Strstr(t, ts[i]) # 0
      weigh(found, prefix, substring) ==
        IF 2 \in found THEN prefix ELSE IF 1 \in found THEN substring ELSE 0
  IN IF all THEN weigh(Found(person.names, ts), 100, 90) + weigh(Found(person.addresses, ts), 10, 5)
     ELSE 0

AllContacts == DOMAIN People

\* shell_contact_system_initial_search(), also for a subsearch; the heaviest first.
ContactsFound == [ts \in Searches |->
  SortSeq(SelectSeq(SetToSeq(AllContacts), LAMBDA p : Weight(People[p], ts) # 0),
          LAMBDA a, b : Weight(People[a], ts) > Weight(People[b], ts))]

-----------------------------------------------------------------------------
SearchInit ==
  /\ providers = <<"apps", "contacts", "remote">> /\ terms = <<>> /\ results = <<>>
  /\ installed \in {AppIds, {}}
  /\ entries \in {f \in [AppIds -> UNION {Versions[a] : a \in AppIds}] : \A a \in AppIds : f[a] \in Versions[a]}
  /\ foldedTexts = [a \in AppIds |-> None]
  /\ remoteCall = <<>> /\ arrived = <<>> /\ changes = 0 /\ outdated = {}

IsSubSearchAnyLength(ts) ==   \* a bug: a term more is no reason to start afresh
  terms # <<>> /\ Len(ts) >= Len(terms) /\ \A i \in DOMAIN terms : \E k \in DOMAIN ts : IsPrefix(ts[k], terms[i])
IsSubSearch(ts) ==
  Len(ts) = Len(terms) /\ \A i \in DOMAIN ts : IsPrefix(terms[i], ts[i])

ItemsWith == [ts \in Searches |-> {i \in All : \A t \in DOMAIN ts : Strstr(Items[i], ts[t]) # 0}]

InstalledApps == SetToSeq(installed)

\* updateSearchResults(): those asked are those of the previous search in a subsearch.
\* The call to the remote provider that is out is cancelled, the answer that has
\* arrived is not.
UpdateSearch(ts) ==
  LET sub == IsSubSearch(ts)
      whom == IF sub THEN [i \in DOMAIN providers |-> results[i].provider] ELSE providers
      before(i) == IF sub THEN results[i].found ELSE <<>>
      answer(i) == CASE whom[i] = "apps" ->
                          SearchApps(IF sub THEN before(i) ELSE InstalledApps, ts)
                     [] whom[i] = "contacts" -> ContactsFound[ts]
                     [] OTHER -> <<>>
      remote == {i \in DOMAIN whom : whom[i] = "remote"}
  IN /\ sub => Len(results) >= Len(providers)
     /\ results' = [i \in DOMAIN whom |-> [provider |-> whom[i], found |-> answer(i)]]
     /\ terms' = ts
     /\ foldedTexts' = [a \in AppIds |->
                     IF entries[a].shown /\ a \in (IF sub THEN Range(results[1].found) ELSE installed)
                     THEN Texts(a) ELSE foldedTexts[a]]
     /\ remoteCall' = IF remote = {} THEN remoteCall
                 ELSE <<[terms |-> ts, among |-> IF sub THEN Range(before(Min(remote))) ELSE All]>>
     /\ outdated' = ((IF sub THEN outdated ELSE outdated \cap {"texts"})
                       \cup (IF sub /\ remoteCall \o arrived # <<>> THEN {"hasty"} ELSE {}))
                    \cup (IF arrived # <<>> THEN {"late"} ELSE {})
     /\ UNCHANGED <<providers, installed, entries, arrived, changes>>

\* A provider that went away or came after the previous search: the subsearch throws
\* before it is completed, having asked those before.
SearchThrows(ts) ==
  /\ IsSubSearch(ts) /\ Len(results) < Len(providers)
  /\ UNCHANGED searchVars

Reset ==   \* the search ends
  /\ terms' = <<>> /\ results' = <<>> /\ outdated' = outdated \cup {"late"}
  /\ UNCHANGED <<providers, installed, entries, foldedTexts, remoteCall, arrived, changes>>

RegisterRemote ==
  /\ "remote" \notin Range(providers) /\ providers' = Append(providers, "remote")
  /\ UNCHANGED <<terms, results, installed, entries, foldedTexts, remoteCall, arrived, changes, outdated>>
UnregisterRemote ==
  /\ "remote" \in Range(providers)
  /\ providers' = SelectSeq(providers, LAMBDA p : p # "remote")
  /\ outdated' = outdated \cup {"late"}
  /\ UNCHANGED <<terms, results, installed, entries, foldedTexts, remoteCall, arrived, changes>>

\* The other end searches among what it is given.
RemoteAnswers ==
  /\ remoteCall # <<>> /\ Len(arrived) < MaxArrived /\ remoteCall' = <<>>
  /\ LET q == Head(remoteCall) IN
     arrived' = Append(arrived, SetToSeq(q.among \cap ItemsWith[q.terms]))
  /\ UNCHANGED <<providers, terms, results, installed, entries, foldedTexts, changes, outdated>>

\* _getResultsFinished(), pushResults()
PushResults ==
  LET at == {i \in DOMAIN providers : providers[i] = "remote"} IN
  /\ arrived # <<>> /\ arrived' = Tail(arrived)
  /\ results' = IF at = {} \/ Min(at) > Len(results) THEN results
                ELSE [results EXCEPT ![Min(at)] = [provider |-> "remote", found |-> Head(arrived)]]
  /\ UNCHANGED <<providers, terms, installed, entries, foldedTexts, remoteCall, changes, outdated>>

\* on_apps_tree_changed_cb(): an application that stays keeps its ShellApp, and what
\* was cached of the old entry.
AppChanged(a, entry) ==
  /\ changes < MaxChanges /\ a \in installed /\ entry # entries[a]
  /\ entries' = [entries EXCEPT ![a] = entry]
  /\ changes' = changes + 1
  /\ outdated' = outdated \cup {"apps"} \cup (IF foldedTexts[a] # None THEN {"texts"} ELSE {})
  /\ UNCHANGED <<providers, terms, results, installed, foldedTexts, remoteCall, arrived>>

AppRemoved(a) ==
  /\ changes < MaxChanges /\ a \in installed
  /\ installed' = installed \ {a}
  /\ changes' = changes + 1 /\ outdated' = outdated \cup {"apps"}
  /\ UNCHANGED <<providers, terms, results, entries, foldedTexts, remoteCall, arrived>>

AppAdded(a, entry) ==   \* a new ShellApp
  /\ changes < MaxChanges /\ a \notin installed
  /\ installed' = installed \cup {a} /\ entries' = [entries EXCEPT ![a] = entry]
  /\ foldedTexts' = [foldedTexts EXCEPT ![a] = None]
  /\ changes' = changes + 1 /\ outdated' = outdated \cup {"apps"}
  /\ UNCHANGED <<providers, terms, results, remoteCall, arrived>>

SearchNext ==
  \/ \E ts \in Searches : UpdateSearch(ts) \/ SearchThrows(ts)
  \/ \E a \in AppIds : AppRemoved(a) \/ \E entry \in Versions[a] : AppChanged(a, entry) \/ AppAdded(a, entry)
  \/ Reset \/ RegisterRemote \/ UnregisterRemote \/ RemoteAnswers \/ PushResults

-----------------------------------------------------------------------------
SearchTypeOK ==
  /\ Range(providers) \subseteq {"apps", "contacts", "remote"} /\ Len(arrived) <= MaxArrived /\ Len(remoteCall) <= 1
  /\ installed \subseteq AppIds /\ \A a \in AppIds : entries[a] \in Versions[a]

Matching == {a \in installed : entries[a].shown /\ \A i \in DOMAIN terms : TermMatches[entries[a], terms[i]] > 0}

\* "This allows search providers to only search through the previous result set":
\* however the terms were typed, the applications are all that a search among all finds
\* for these terms, in the order it has (updateSearchResults(),
\* shell_app_system_subsearch()), as long as the menu did not change; and so are the
\* remote provider's, when no answer of it is outstanding or overtook a later search.
SubsearchIsSearch ==
  /\ results # <<>> /\ outdated \cap {"apps", "texts"} = {} =>
       /\ Range(results[1].found) = Matching
       /\ results[1].found = SearchApps(results[1].found, terms)
  /\ Len(results) = 3 /\ remoteCall \o arrived = <<>> /\ outdated = {} =>
       Range(results[3].found) = ItemsWith[terms]
=============================================================================
