---------------------------- MODULE Preferences -----------------------------
(***************************************************************************)
(* The language: LanguageWrapper keeps the locale, LanguageConfig, in a    *)
(* static field, the texts of one language.                                *)
(* A flag saves a language and loads its texts before the locale changes.  *)
(* The first texts are loaded by LanguageConfig's constructor, that is by  *)
(* every build of the wrapper that finds none.                             *)
(*                                                                         *)
(* Texts are represented by their language; loading them takes time but    *)
(* does not fail.  The program may end and start again at any point; only  *)
(* the saved language survives.  Of the currency only that it rebuilds the *)
(* wrapper is kept; what else the splash screen does is in Session.        *)
(***************************************************************************)
EXTENDS Integers

CONSTANTS
  MaxLoads  \* bound: loads of texts asked for by one run of the program

ASSUME PreferencesAssumption == MaxLoads \in Nat \ {0}

VARIABLES
  locale,       \* _LanguageWrapperState.locale
  texts,        \* the language of _localisedValues, "none" if null
  loadsAsked,   \* calls of load so far
  textLoads,    \* calls of load that have not ended
  wrapperDue,   \* the wrapper is to be built
  saving,       \* saveLanguageToSharePreference is under way
  saved,        \* the language in the shared preferences, "none" if unset
  onMain,       \* the splash screen has given way to the main page
  wanted,       \* history: the last flag tapped, ever
  forgotten,    \* history: the program has restarted since
  unsaved,      \* history: ... before any language was saved
  loadCrossed,  \* history: a flag's load ended before that of an earlier flag
  firstLate     \* history: a constructor's load has replaced other texts

memory == <<wanted, forgotten, unsaved>>
prefVars == <<locale, texts, loadsAsked, textLoads, wrapperDue, saving, saved,
              onMain, wanted, forgotten, unsaved, loadCrossed, firstLate>>

Languages == {"en", "km", "zh"}

\* A load of texts, made by a flag or by a constructor.
TextLoads == [nr : 1..MaxLoads, language : Languages, flag : BOOLEAN]

\* main and getLanguage: the locale is the saved language, or English.
FirstLocale == IF saved = "none" THEN "en" ELSE saved

\* getTextByKey: the language of a product's or category's name.
NameLanguage == IF locale = "ch" THEN "zh" ELSE IF locale = "km" THEN "km" ELSE "en"

-----------------------------------------------------------------------------
\* runApp for the first time, with the wrapper's first build to come.
PrefInit ==
  /\ locale = "en"
  /\ texts = "none"
  /\ loadsAsked = 0
  /\ textLoads = {}
  /\ wrapperDue = TRUE
  /\ saving = FALSE
  /\ saved = "none"
  /\ onMain = FALSE
  /\ wanted = "en"
  /\ forgotten = FALSE
  /\ unsaved = FALSE
  /\ loadCrossed = FALSE
  /\ firstLate = FALSE

\* _LanguageWrapperState.build: the constructor of LanguageConfig.
WrapperBuild ==
  /\ wrapperDue
  /\ wrapperDue' = FALSE
  /\ \/ /\ texts # "none"
        /\ UNCHANGED <<loadsAsked, textLoads>>
     \/ /\ texts = "none" /\ loadsAsked < MaxLoads
        /\ loadsAsked' = loadsAsked + 1
        /\ textLoads' = textLoads \union
             {[nr |-> loadsAsked + 1, language |-> locale, flag |-> FALSE]}
  /\ UNCHANGED <<locale, texts, saving, saved, onMain, memory,
                 loadCrossed, firstLate>>

\* A flag: changeToKm, whichever language it stands for.
ChooseLanguage(l) ==
  /\ onMain /\ loadsAsked < MaxLoads
  /\ saving' = TRUE
  /\ loadsAsked' = loadsAsked + 1
  /\ textLoads' = textLoads \union
       {[nr |-> loadsAsked + 1, language |-> l, flag |-> TRUE]}
  /\ wanted' = l
  /\ forgotten' = FALSE
  /\ unsaved' = FALSE
  /\ loadCrossed' = (loadCrossed /\ textLoads # {})
  /\ UNCHANGED <<locale, texts, wrapperDue, saved, onMain, firstLate>>

\* The shared preferences hold what the flag has saved.
Saved ==
  /\ saving
  /\ saving' = FALSE
  /\ saved' = "km"
  /\ UNCHANGED <<locale, texts, loadsAsked, textLoads, wrapperDue, onMain,
                 memory, loadCrossed, firstLate>>

TextsLoadedLast(t) ==  \* mutant: the locale is that of the last flag tapped
  /\ t \in textLoads
  /\ textLoads' = textLoads \ {t}
  /\ texts' = t.language
  /\ locale' = IF t.flag THEN wanted ELSE locale
  /\ wrapperDue' = (wrapperDue \/ t.flag)
  /\ loadCrossed' = loadCrossed
  /\ firstLate' = (~t.flag /\ texts # "none")
  /\ UNCHANGED <<loadsAsked, saving, saved, onMain, memory>>

\* load has ended; for a flag, updateLocale follows.
TextsLoaded(t) ==
  /\ t \in textLoads
  /\ textLoads' = textLoads \ {t}
  /\ texts' = t.language
  /\ locale' = IF t.flag THEN t.language ELSE locale
  /\ wrapperDue' = (wrapperDue \/ t.flag)
  /\ loadCrossed' = (loadCrossed \/ (t.flag /\ \E u \in textLoads :
                                                 u.flag /\ u.nr < t.nr))
  /\ firstLate' = (~t.flag /\ texts # "none")
  /\ UNCHANGED <<loadsAsked, saving, saved, onMain, memory>>

\* The splash screen gives way; if it was given rates, it has called
\* updateCurrency before.
MainOpens ==
  /\ ~onMain
  /\ onMain' = TRUE
  /\ wrapperDue' \in {wrapperDue, TRUE}
  /\ UNCHANGED <<locale, texts, loadsAsked, textLoads, saving, saved, memory,
                 loadCrossed, firstLate>>

\* The app bar's menu of currencies: updateCurrency.
UpdateCurrency ==
  /\ onMain
  /\ wrapperDue' = TRUE
  /\ UNCHANGED <<locale, texts, loadsAsked, textLoads, saving, saved, onMain,
                 memory, loadCrossed, firstLate>>

\* The program ends and is started again.
Restart ==
  /\ locale' = FirstLocale
  /\ texts' = "none"
  /\ loadsAsked' = 0
  /\ textLoads' = {}
  /\ wrapperDue' = TRUE
  /\ saving' = FALSE
  /\ onMain' = FALSE
  /\ loadCrossed' = FALSE
  /\ firstLate' = FALSE
  /\ forgotten' = TRUE
  /\ unsaved' = (unsaved \/ (saving /\ saved = "none"))
  /\ UNCHANGED <<saved, wanted>>

PrefNext ==
  \/ WrapperBuild \/ Saved \/ MainOpens \/ UpdateCurrency \/ Restart
  \/ \E l \in Languages : ChooseLanguage(l)
  \/ \E t \in textLoads : TextsLoaded(t)

PrefSpec == PrefInit /\ [][PrefNext]_prefVars

-----------------------------------------------------------------------------
PrefTypeOK ==
  /\ locale \in Languages
  /\ texts \in Languages \union {"none"}
  /\ loadsAsked \in 0..MaxLoads
  /\ textLoads \subseteq TextLoads
  /\ wrapperDue \in BOOLEAN
  /\ saving \in BOOLEAN
  /\ saved \in Languages \union {"none"}
  /\ onMain \in BOOLEAN
  /\ wanted \in Languages
  /\ forgotten \in BOOLEAN
  /\ unsaved \in BOOLEAN
  /\ loadCrossed \in BOOLEAN
  /\ firstLate \in BOOLEAN

(***************************************************************************)
(* When no texts are being loaded, they are in the locale's language, and  *)
(* so are the names of products and categories - except that these are     *)
(* English under Chinese texts, and that a constructor's load may have     *)
(* come late.  The language is that of the last flag unless the loads of   *)
(* two flags crossed; after a restart only Khmer is sure to be remembered, *)
(* for that is what every flag saves.                                      *)
(***************************************************************************)
OneLanguage ==
  (texts # "none" /\ textLoads = {})
  => /\ texts = locale \/ firstLate
     /\ NameLanguage = texts \/ texts = "zh" \/ firstLate
     /\ \/ locale = wanted
        \/ loadCrossed
        \/ forgotten /\ (wanted # "km" \/ unsaved)
=============================================================================
