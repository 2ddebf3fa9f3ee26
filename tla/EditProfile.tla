---------------------------- MODULE EditProfile -----------------------------
(***************************************************************************)
(* EditProfileScreen: a form whose save button posts the profile and puts  *)
(* the backend's answer into UserProvider.  The progress overlay covers    *)
(* the button with the next frame; the screen can be left and opened again *)
(* at any time, and an answer for a screen that is gone fails in setState, *)
(* before the user is set.                                                 *)
(*                                                                         *)
(* What a form holds does not matter: each post the backend accepts makes  *)
(* the profile's next version.  The picture, the list of positions and the *)
(* validation of the fields are left out.                                  *)
(***************************************************************************)
EXTENDS Integers

CONSTANTS
  MaxForms,  \* bound: times the screen is opened
  MaxSaves   \* bound: posts

ASSUME EditProfileAssumption == MaxForms \in Nat /\ MaxSaves \in Nat

VARIABLES
  form,         \* the screen that is open, 0 if none
  forms,        \* screens opened so far
  hasToken,     \* _EditProfileScreenState.token is set
  isLoading,    \* _EditProfileScreenState._isLoading
  covered,      \* the last frame has built the overlay
  posted,       \* posts so far
  posts,        \* posts on their way, and their answers on the way back
  version,      \* the backend's profile
  profile,      \* the version UserProvider.user has
  missed,       \* history: versions whose answer was not taken over
  wentBack,     \* history: an answer was taken over after a younger one's
  unreadable    \* history: an answer failed with no Exception on this screen

profVars == <<form, forms, hasToken, isLoading, covered, posted, posts, version,
              profile, missed, wentBack, unreadable>>

\* A post of a screen, with or without token; ver is the version it made.
Posts == [nr : 1..MaxSaves, form : 1..MaxForms, token : BOOLEAN,
          ver : Nat]

-----------------------------------------------------------------------------
ProfInit ==
  /\ form = 0
  /\ forms = 0
  /\ hasToken = FALSE
  /\ isLoading = FALSE
  /\ covered = FALSE
  /\ posted = 0
  /\ posts = {}
  /\ version = 0
  /\ profile = 0
  /\ missed = {}
  /\ wentBack = FALSE
  /\ unreadable = FALSE

\* AccountScreen opens the screen: a new State.
OpenForm ==
  /\ form = 0 /\ forms < MaxForms
  /\ form' = forms + 1
  /\ forms' = forms + 1
  /\ hasToken' = FALSE
  /\ isLoading' = FALSE
  /\ covered' = FALSE
  /\ unreadable' = FALSE
  /\ UNCHANGED <<posted, posts, version, profile, missed, wentBack>>

\* getLoginMethod, if it does not fail.
GetLoginMethod ==
  /\ form # 0 /\ ~hasToken
  /\ hasToken' = TRUE
  /\ UNCHANGED <<form, forms, isLoading, covered, posted, posts, version,
                 profile, missed, wentBack, unreadable>>

ProfFrame ==
  /\ form # 0
  /\ covered' = isLoading
  /\ UNCHANGED <<form, forms, hasToken, isLoading, posted, posts, version,
                 profile, missed, wentBack, unreadable>>

\* saveEdit of a valid form, up to its post.
SaveEdit ==
  /\ form # 0 /\ ~covered /\ posted < MaxSaves
  /\ isLoading' = TRUE
  /\ posted' = posted + 1
  /\ posts' = posts \union
       {[nr |-> posted + 1, form |-> form, token |-> hasToken, ver |-> 0]}
  /\ UNCHANGED <<form, forms, hasToken, covered, version, profile, missed,
                 wentBack, unreadable>>

\* The backend accepts a post with a token.
Accept(p) ==
  /\ p \in posts /\ p.token /\ p.ver = 0
  /\ version' = version + 1
  /\ posts' = (posts \ {p}) \union {[p EXCEPT !.ver = version + 1]}
  /\ UNCHANGED <<form, forms, hasToken, isLoading, covered, posted, profile,
                 missed, wentBack, unreadable>>

SaveSucceedsAnywhere(p) ==  \* mutant: the user is set only while loading
  /\ p \in posts /\ p.ver # 0
  /\ posts' = posts \ {p}
  /\ isLoading' = (isLoading /\ form # p.form)
  /\ profile' = IF isLoading /\ form = p.form THEN p.ver ELSE profile
  /\ wentBack' = (p.ver < profile)
  /\ missed' = IF form = p.form THEN missed ELSE missed \union {p.ver}
  /\ UNCHANGED <<form, forms, hasToken, covered, posted, version, unreadable>>

\* The answer "success".
SaveSucceeds(p) ==
  /\ p \in posts /\ p.ver # 0
  /\ posts' = posts \ {p}
  /\ \/ /\ form = p.form
        /\ isLoading' = FALSE
        /\ profile' = p.ver
        /\ wentBack' = (p.ver # version /\ (wentBack \/ p.ver < profile))
        /\ UNCHANGED missed
     \/ /\ form # p.form
        /\ missed' = missed \union {p.ver}
        /\ UNCHANGED <<isLoading, profile, wentBack>>
  /\ UNCHANGED <<form, forms, hasToken, covered, posted, version, unreadable>>

(***************************************************************************)
(* A refusal, or an Exception: Dio throws one for every failing status and *)
(* for an answer that is lost, whether or not the backend had accepted.    *)
(***************************************************************************)
SaveFails(p) ==
  /\ p \in posts
  /\ posts' = posts \ {p}
  /\ isLoading' = (isLoading /\ form # p.form)
  /\ missed' = missed \union ({p.ver} \ {0})
  /\ UNCHANGED <<form, forms, hasToken, covered, posted, version, profile,
                 wentBack, unreadable>>

\* An answer that cannot be read, or is neither a success nor a refusal: what
\* it throws is no Exception and the overlay stays.
SaveUnreadable(p) ==
  /\ p \in posts
  /\ posts' = posts \ {p}
  /\ missed' = missed \union ({p.ver} \ {0})
  /\ unreadable' = (unreadable \/ form = p.form)
  /\ UNCHANGED <<form, forms, hasToken, isLoading, covered, posted, version,
                 profile, wentBack>>

CloseForm ==
  /\ form # 0
  /\ form' = 0
  /\ UNCHANGED <<forms, hasToken, isLoading, covered, posted, posts, version,
                 profile, missed, wentBack, unreadable>>

PostEnds(p) == SaveSucceeds(p) \/ SaveFails(p) \/ SaveUnreadable(p)
APostEnds == \E p \in posts : PostEnds(p)

ProfNext ==
  \/ OpenForm \/ GetLoginMethod \/ ProfFrame \/ SaveEdit \/ CloseForm
  \/ \E p \in posts : Accept(p) \/ PostEnds(p)

ProfSpec == ProfInit /\ [][ProfNext]_profVars

\* Posts end, well or not.
ProfFairness == WF_profVars(APostEnds)

-----------------------------------------------------------------------------
ProfTypeOK ==
  /\ form \in 0..MaxForms
  /\ forms \in 0..MaxForms
  /\ hasToken \in BOOLEAN
  /\ isLoading \in BOOLEAN
  /\ covered \in BOOLEAN
  /\ posted \in 0..MaxSaves
  /\ posts \subseteq Posts
  /\ version \in Nat
  /\ profile \in Nat
  /\ missed \subseteq Nat \ {0}
  /\ wentBack \in BOOLEAN
  /\ unreadable \in BOOLEAN

(***************************************************************************)
(* With no post under way the user the app shows is the one the backend    *)
(* has - unless the answer to the last accepted post was lost, unreadable  *)
(* or came after its screen had been left, or two answers crossed.         *)
(***************************************************************************)
ProfileShown ==
  posts = {} => profile = version \/ version \in missed \/ wentBack

(***************************************************************************)
(* The overlay of the form goes away, unless an answer failed with no      *)
(* Exception or the screen is left.                                        *)
(***************************************************************************)
ProfWaits == form # 0 /\ isLoading /\ ~unreadable

SaveEnds == ProfWaits ~> ~ProfWaits
=============================================================================
