--------------------------------- MODULE Forms ---------------------------------
(***************************************************************************)
(* The forms of the login, registration and reset-password pages: text     *)
(* fields, the view models of AuthenticationViewModel.swift behind them,   *)
(* and the button that submits a form.                                     *)
(*                                                                         *)
(* A text field holds a text of its own and the view model a copy of it,   *)
(* which textDidChange makes whenever the user edits; texts that the code  *)
(* assigns to a field are not reported.  What is typed is what matters     *)
(* here; what becomes of a request is the matter of module Session.        *)
(***************************************************************************)
EXTENDS Naturals

CONSTANTS
  Texts,      \* what a text field can hold
  Empty,      \* the empty text
  Nil         \* a view model's field that was never assigned

ASSUME TextsAssumption == Empty \in Texts /\ Nil \notin Texts

VARIABLES
  page,       \* top of the navigation stack
  text,       \* text[p][f]: what text field f of page p shows
  viewModel,  \* viewModel[p][f]: what the view model of page p holds
  isEnabled,  \* isEnabled[p]: is the button of page p enabled?
  loading,    \* does the HUD cover the page?
  asked,      \* has the reset page asked for a link and got no answer?
  sent        \* the last request: its page and what it was made of

vars == <<page, text, viewModel, isEnabled, loading, asked, sent>>

Pages == {"login", "register", "reset"}

Fields(p) == CASE p = "login"    -> {"email", "password"}
               [] p = "register" -> {"email", "password", "fullname"}
               [] p = "reset"    -> {"email"}

--------------------------------------------------------------------------------
(* View models and pages *)

\* email?.isEmpty == false && ..., for all fields of the view model.
formIsValid(vm) == \A f \in DOMAIN vm : vm[f] \notin {Nil, Empty}

\* Mutant: text fields start out as nil.
nilText(p) == [f \in Fields(p) |-> Nil]

\* A page that was not shown yet: empty text fields, a view model of nils and
\* a disabled button.
newText(p) == [f \in Fields(p) |-> Empty]

newViewModel(p) == [f \in Fields(p) |-> Nil]

\* Pages other than the login page live from push to pop.
Fresh(p) ==
  /\ text' = [text EXCEPT ![p] = newText(p)]
  /\ viewModel' = [viewModel EXCEPT ![p] = newViewModel(p)]
  /\ isEnabled' = [isEnabled EXCEPT ![p] = FALSE]

\* Mutant: loadEmail without updateForm.
loadEmailOnly(email) ==
  /\ text' = [text EXCEPT !["reset"] = [newText("reset") EXCEPT !.email = email]]
  /\ viewModel' = [viewModel EXCEPT !["reset"] = [newViewModel("reset") EXCEPT !.email = email]]
  /\ isEnabled' = [isEnabled EXCEPT !["reset"] = FALSE]

\* viewDidLoad of a new reset-password page that was given an address.
loadEmail(email) ==
  LET vm == [newViewModel("reset") EXCEPT !.email = email]
  IN  /\ text' = [text EXCEPT !["reset"] = [newText("reset") EXCEPT !.email = email]]
      /\ viewModel' = [viewModel EXCEPT !["reset"] = vm]
      /\ isEnabled' = [isEnabled EXCEPT !["reset"] = formIsValid(vm)]

--------------------------------------------------------------------------------
(* Handlers *)

Init ==
  /\ page = "login"
  /\ text = [p \in Pages |-> newText(p)]
  /\ viewModel = [p \in Pages |-> newViewModel(p)]
  /\ isEnabled = [p \in Pages |-> FALSE]
  /\ loading = FALSE /\ asked = FALSE
  /\ sent = Nil

\* Mutant: the form is updated before the view model is.
textDidChangeLate(f, t) ==
  /\ f \in Fields(page) /\ ~loading
  /\ text' = [text EXCEPT ![page][f] = t]
  /\ viewModel' = [viewModel EXCEPT ![page][f] = t]
  /\ isEnabled' = [isEnabled EXCEPT ![page] = formIsValid(viewModel[page])]
  /\ UNCHANGED <<page, loading, asked, sent>>

\* The user edits a text field.  showLoader ends editing, and the HUD keeps the
\* touches from the fields.
textDidChange(f, t) ==
  LET vm == [viewModel[page] EXCEPT ![f] = t]
  IN  /\ f \in Fields(page) /\ ~loading
      /\ text' = [text EXCEPT ![page][f] = t]
      /\ viewModel' = [viewModel EXCEPT ![page] = vm]
      /\ isEnabled' = [isEnabled EXCEPT ![page] = formIsValid(vm)]
      /\ UNCHANGED <<page, loading, asked, sent>>

\* A disabled button and a page under the HUD get no touches.  The HUD does not
\* come up when it is still in a page that was left, see ProgressHUD.
Submit(p, values) ==
  /\ page = p /\ isEnabled[p] /\ ~loading
  /\ sent' = [page |-> p, values |-> values]
  /\ loading' \in BOOLEAN
  /\ asked' = (asked \/ p = "reset")
  /\ UNCHANGED <<page, text, viewModel, isEnabled>>

handleLogin == Submit("login", text["login"])
handleSignUP == Submit("register", text["register"])

\* The one request that is made of the view model.
handleResetPassword ==
  /\ viewModel["reset"].email # Nil
  /\ Submit("reset", viewModel["reset"])

showForgotPassword ==
  /\ page = "login" /\ ~loading
  /\ page' = "reset"
  /\ loadEmail(text["login"].email)
  /\ UNCHANGED <<loading, asked, sent>>

showRegisterationController ==
  /\ page = "login" /\ ~loading
  /\ page' = "register"
  /\ UNCHANGED <<text, viewModel, isEnabled, loading, asked, sent>>

\* showLoginController, handleGoBack
goBack ==
  /\ page # "login" /\ ~loading
  /\ page' = "login"
  /\ Fresh(page)
  /\ UNCHANGED <<loading, asked, sent>>

\* The completion blocks.  Each takes the HUD down, also one of a page that was
\* left; after it a page that was not covered may wait for a second answer.
requestFailed ==
  /\ loading \/ asked
  /\ loading' = FALSE
  /\ asked' \in {asked, FALSE}
  /\ UNCHANGED <<page, text, viewModel, isEnabled, sent>>

\* Pops whatever page is over the login page by then.
didSendResetPasswordLink ==
  /\ asked
  /\ loading' = FALSE
  /\ asked' \in BOOLEAN
  /\ page' = "login"
  /\ \/ page # "login" /\ Fresh(page)
     \/ page = "login" /\ UNCHANGED <<text, viewModel, isEnabled>>
  /\ UNCHANGED sent

\* A sign-in, with Google at any moment: the pages are dismissed, and new ones
\* are presented when the user has logged out.
authenticationComplete ==
  /\ loading' = FALSE /\ asked' = FALSE
  /\ page' = "login"
  /\ text' = [p \in Pages |-> newText(p)]
  /\ viewModel' = [p \in Pages |-> newViewModel(p)]
  /\ isEnabled' = [p \in Pages |-> FALSE]
  /\ UNCHANGED sent

Next ==
  \/ \E f \in {"email", "password", "fullname"}, t \in Texts : textDidChange(f, t)
  \/ handleLogin \/ handleSignUP \/ handleResetPassword
  \/ showForgotPassword \/ showRegisterationController \/ goBack
  \/ requestFailed \/ didSendResetPasswordLink \/ authenticationComplete

Spec == Init /\ [][Next]_vars

--------------------------------------------------------------------------------
(* Properties *)

\* Every variable stays in its range.
TypeOK ==
  /\ page \in Pages
  /\ DOMAIN text = Pages /\ DOMAIN viewModel = Pages
  /\ \A p \in Pages : text[p] \in [Fields(p) -> Texts]
  /\ \A p \in Pages : viewModel[p] \in [Fields(p) -> Texts \cup {Nil}]
  /\ isEnabled \in [Pages -> BOOLEAN]
  /\ loading \in BOOLEAN /\ asked \in BOOLEAN
  /\ sent = Nil \/ \E p \in Pages : sent \in [page : {p}, values : [Fields(p) -> Texts]]

\* On every page, the one under the top included, the view model says what the
\* text fields show; an untouched field counts as empty.
ViewModelAgrees ==
  \A p \in Pages : \A f \in Fields(p) :
    viewModel[p][f] = text[p][f] \/ (viewModel[p][f] = Nil /\ text[p][f] = Empty)

\* The button of a page is enabled exactly when no text field of it is empty,
\* also on a reset-password page that was filled in by loadEmail, and on the
\* login page when the user comes back to it.
EnabledIffFilled ==
  \A p \in Pages : isEnabled[p] <=> \A f \in Fields(p) : text[p][f] # Empty

\* Whatever was typed or loaded before, a request is made of what the page
\* shows, and nothing of it is empty.
SendsWhatIsShown ==
  [][sent' # sent => /\ sent' = [page |-> page, values |-> text[page]]
                     /\ \A f \in Fields(page) : text[page][f] # Empty]_vars
================================================================================
