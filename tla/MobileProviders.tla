---------------------------- MODULE MobileProviders ----------------------------
(***************************************************************************)
(* The parser of the database of mobile broadband providers                *)
(* (shell-mobile-providers.c): an automaton driven by the callbacks of     *)
(* GMarkup, which does not see the tree the elements form.  A text is the  *)
(* element it stands in; 0 is NULL.                                        *)
(***************************************************************************)
EXTENDS Integers, Sequences, SequencesExt, FiniteSets

CONSTANTS
  CountryCodes,   \* table of the ISO codes: code -> name
  Inside,         \* what may stand in an element: kind -> kinds
  Attributes,     \* what an element's attribute may be: kind -> values
  MaxElements, MaxOf,   \* bounds on the elements of the file, on those of each kind
  MaxBlanks       \* bound on the elements with a text beside their elements

Values == {"username", "password", "gateway"}
NULL == 0

VARIABLES
  doc,      \* the elements read so far, [kind, attr, up, text]
  open,     \* those that are open, the innermost last
  reading,  \* the file is being read: no error has ended that
  parser    \* MobileParser

mobileVars == <<doc, open, reading, parser>>

NoMethod == [type |-> "none", apn |-> NULL, name |-> NULL, dns |-> <<>>,
             value |-> [v \in Values |-> NULL]]
NoProvider == [name |-> NULL, methods |-> <<>>, ids |-> <<>>]

MobileInit ==
  /\ doc = <<>> /\ open = <<>>
  /\ reading \in BOOLEAN     \* FALSE: read_country_codes() failed, or the file is missing
  /\ parser = [state |-> "TOPLEVEL", table |-> <<>>, country |-> "none", providers |-> <<>>,
               provider |-> NoProvider, method |-> NoMethod, text |-> NULL]

CountryOf(code) == IF code \in DOMAIN CountryCodes THEN CountryCodes[code] ELSE code

-----------------------------------------------------------------------------
\* mobile_parser_start_element() frees the text and calls the handler of the state.

ToplevelStart(p, kind, attr) ==
  CASE kind = "serviceproviders" /\ attr = "format 1.0" -> [p EXCEPT !.state = "ERROR"]
    [] kind = "country" /\ attr # "none" ->
         [p EXCEPT !.country = CountryOf(attr), !.state = "COUNTRY"]
    [] OTHER -> p

CountryStart(p, kind) ==
  IF kind = "provider" THEN [p EXCEPT !.state = "PROVIDER", !.provider = NoProvider] ELSE p

ProviderStart(p, kind) ==
  CASE kind = "gsm"  -> [p EXCEPT !.state = "METHOD_GSM"]
    [] kind = "cdma" -> [p EXCEPT !.state = "METHOD_CDMA", !.method = NoMethod]
    [] OTHER -> p

GsmStart(p, kind, attr, i) ==
  CASE kind = "network-id" /\ attr # "none" -> [p EXCEPT !.provider.ids = <<i>> \o @]
    [] kind = "apn" /\ attr # "none" ->
         [p EXCEPT !.state = "METHOD_GSM_APN", !.method = [NoMethod EXCEPT !.apn = i]]
    [] OTHER -> p

CdmaStart(p, kind, attr, i) ==
  IF kind = "sid" /\ attr # "none" THEN [p EXCEPT !.provider.ids = <<i>> \o @] ELSE p

StartElement(p, kind, attr, i) ==
  LET q == [p EXCEPT !.text = NULL] IN
  CASE q.state = "TOPLEVEL"    -> ToplevelStart(q, kind, attr)
    [] q.state = "COUNTRY"     -> CountryStart(q, kind)
    [] q.state = "PROVIDER"    -> ProviderStart(q, kind)
    [] q.state = "METHOD_GSM"  -> GsmStart(q, kind, attr, i)
    [] q.state = "METHOD_CDMA" -> CdmaStart(q, kind, attr, i)
    [] OTHER -> q

-----------------------------------------------------------------------------
\* mobile_parser_end_element() calls the handler of the state.  The methods and the
\* ids of a provider are turned around at its end, its country's providers are not.

CountryEnd(p, kind) ==   \* a country that is there already is replaced
  IF kind # "country" THEN p
  ELSE [p EXCEPT !.table = [c \in DOMAIN @ \cup {p.country} |->
                              IF c = p.country THEN p.providers ELSE @[c]],
                 !.country = "none", !.providers = <<>>, !.text = NULL, !.state = "TOPLEVEL"]

ProviderEnd(p, kind) ==
  CASE kind = "name" -> IF p.provider.name = NULL
                        THEN [p EXCEPT !.provider.name = p.text, !.text = NULL] ELSE p
    [] kind = "provider" ->
         LET whole == [p.provider EXCEPT !.methods = Reverse(@), !.ids = Reverse(@)] IN
         [p EXCEPT !.providers = <<whole>> \o @, !.provider = NoProvider, !.text = NULL,
                   !.state = "COUNTRY"]
    [] OTHER -> p

GsmEnd(p, kind) == IF kind = "gsm" THEN [p EXCEPT !.text = NULL, !.state = "PROVIDER"] ELSE p

\* What an APN and a CDMA method have in common; the last of several wins.
ValueEnd(p, kind) ==
  CASE kind \in Values -> [p EXCEPT !.method.value[kind] = p.text, !.text = NULL]
    [] kind = "dns"    -> [p EXCEPT !.method.dns = <<p.text>> \o @, !.text = NULL]
    [] OTHER -> p

MethodEnd(p, type, name, state) ==
  LET whole == [p.method EXCEPT !.type = type, !.dns = Reverse(@),
                                !.name = IF @ = NULL THEN name ELSE @] IN
  [p EXCEPT !.provider.methods = <<whole>> \o @, !.method = NoMethod, !.text = NULL,
            !.state = state]

Default == -1   \* the name of an APN that has none
GsmApnEnd(p, kind) ==
  CASE kind = "name" -> IF p.method.name = NULL
                        THEN [p EXCEPT !.method.name = p.text, !.text = NULL] ELSE p
    [] kind = "apn" -> MethodEnd(p, "gsm", Default, "METHOD_GSM")
    [] OTHER -> ValueEnd(p, kind)

CdmaEnd(p, kind) ==
  IF kind = "cdma" THEN MethodEnd(p, "cdma", p.provider.name, "PROVIDER") ELSE ValueEnd(p, kind)

EndElement(p, kind) ==
  CASE p.state = "COUNTRY"        -> CountryEnd(p, kind)
    [] p.state = "PROVIDER"       -> ProviderEnd(p, kind)
    [] p.state = "METHOD_GSM"     -> GsmEnd(p, kind)
    [] p.state = "METHOD_GSM_APN" -> GsmApnEnd(p, kind)
    [] p.state = "METHOD_CDMA"    -> CdmaEnd(p, kind)
    [] OTHER -> p

-----------------------------------------------------------------------------
\* The file: well-formed, its elements where the format has them.
Here == IF open = <<>> THEN "file" ELSE doc[Last(open)].kind

Start(kind, attr) ==
  /\ reading /\ kind \in Inside[Here] /\ Len(doc) < MaxElements
  /\ Cardinality({j \in DOMAIN doc : doc[j].kind = kind}) < MaxOf[kind]
  /\ doc' = Append(doc, [kind |-> kind, attr |-> attr, text |-> FALSE,
                         up |-> IF open = <<>> THEN 0 ELSE Last(open)])
  /\ open' = Append(open, Len(doc'))
  /\ parser' = StartElement(parser, kind, attr, Len(doc'))
  /\ UNCHANGED reading

\* mobile_parser_characters(), also for the blanks between two elements.
Characters ==
  /\ reading /\ open # <<>> /\ ~doc[Last(open)].text
  /\ Inside[Here] # {} => Cardinality({j \in DOMAIN doc : doc[j].text /\ Inside[doc[j].kind] # {}}) < MaxBlanks
  /\ parser' = [parser EXCEPT !.text = Last(open)]
  /\ doc' = [doc EXCEPT ![Last(open)].text = TRUE]
  /\ UNCHANGED <<open, reading>>

End ==
  /\ reading /\ open # <<>>
  /\ parser' = EndElement(parser, Here)
  /\ open' = Front(open)
  /\ UNCHANGED <<doc, reading>>

\* The file is malformed from here on, or cannot be read: what is unfinished goes.
Fails ==
  /\ reading /\ reading' = FALSE
  /\ parser' = [parser EXCEPT !.provider = NoProvider, !.providers = <<>>, !.country = "none",
                              !.text = NULL]
  /\ UNCHANGED <<doc, open>>

MobileNext ==
  \/ \E kind \in DOMAIN Attributes : \E attr \in Attributes[kind] : Start(kind, attr)
  \/ Characters \/ End \/ Fails

-----------------------------------------------------------------------------
\* What the tree says.
Kids(i, kinds) == SetToSortSeq({j \in DOMAIN doc : doc[j].up = i /\ doc[j].kind \in kinds}, <)
TextOf(i) == IF doc[i].text THEN i ELSE NULL
TextPieces(s) == [k \in DOMAIN s |-> TextOf(s[k])]
First(s, else) == LET t == SelectSeq(TextPieces(s), LAMBDA x : x # NULL) IN IF t = <<>> THEN else ELSE t[1]
Final(s) == IF s = <<>> THEN NULL ELSE TextOf(Last(s))
Set(s) == SelectSeq(s, LAMBDA j : doc[j].attr # "none")

MethodIn(i, provider) ==
  [type |-> IF doc[i].kind = "apn" THEN "gsm" ELSE "cdma",
   apn |-> IF doc[i].kind = "apn" THEN i ELSE NULL,
   name |-> IF doc[i].kind = "apn" THEN First(Kids(i, {"name"}), Default)
            ELSE First(SelectSeq(Kids(provider, {"name"}), LAMBDA j : j < i), NULL),
   dns |-> TextPieces(Kids(i, {"dns"})),
   value |-> [v \in Values |-> Final(Kids(i, {v}))]]

ProviderIn(i) ==
  LET parts == Kids(i, {"gsm", "cdma"})
      methods == FlattenSeq([k \in DOMAIN parts |->
        IF doc[parts[k]].kind = "cdma" THEN <<parts[k]>> ELSE Set(Kids(parts[k], {"apn"}))])
  IN [name |-> First(Kids(i, {"name"}), NULL),
      methods |-> [k \in DOMAIN methods |-> MethodIn(methods[k], i)],
      ids |-> FlattenSeq([k \in DOMAIN parts |-> Set(Kids(parts[k], {"network-id", "sid"}))])]

ProvidersIn(i) ==
  LET all == Kids(i, {"provider"}) IN Reverse([k \in DOMAIN all |-> ProviderIn(all[k])])

Countries == {j \in DOMAIN doc : doc[j].kind = "country" /\ doc[j].attr # "none" /\ j \notin Range(open)}
LastOf(c) == CHOOSE j \in Countries : /\ CountryOf(doc[j].attr) = c
                                      /\ \A k \in Countries : CountryOf(doc[k].attr) = c => k <= j

MobileTypeOK ==
  /\ Len(doc) <= MaxElements /\ reading \in BOOLEAN /\ Range(open) \subseteq DOMAIN doc
  /\ parser.state \in {"TOPLEVEL", "COUNTRY", "PROVIDER", "METHOD_GSM", "METHOD_GSM_APN", "METHOD_CDMA", "ERROR"}

\* The table is what the tree says: of every country whose element has ended, in the
\* last of the elements it has, all providers, of each its methods and the texts that
\* stand in the elements of this method, and nothing of a file whose format is not known
\* (mobile_parser_start_element(), mobile_parser_end_element() and their handlers).
TableIsTheTree ==
  IF parser.state = "ERROR" THEN parser.table = <<>>
  ELSE /\ DOMAIN parser.table = {CountryOf(doc[j].attr) : j \in Countries}
       /\ \A c \in DOMAIN parser.table : parser.table[c] = ProvidersIn(LastOf(c))
=============================================================================
