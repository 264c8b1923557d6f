------------------------------ MODULE FormsProofs ------------------------------
(***************************************************************************)
(* For every set of texts, the forms of the login pages are submitted      *)
(* exactly as they are shown, and only when they are filled.               *)
(***************************************************************************)
EXTENDS Forms, TLAPS

\* Beside the view models, the buttons have to be what the view models say:
\* that is what updateForm and loadEmail establish.
ButtonAgrees == \A p \in Pages : isEnabled[p] = formIsValid(viewModel[p])

IInv == TypeOK /\ ViewModelAgrees /\ ButtonAgrees

\* The fields of a new page.
LEMMA NewPage ==
  ASSUME NEW p \in Pages
  PROVE  /\ newText(p) \in [Fields(p) -> Texts]
         /\ newViewModel(p) \in [Fields(p) -> Texts \cup {Nil}]
         /\ \A f \in Fields(p) : newText(p)[f] = Empty /\ newViewModel(p)[f] = Nil
         /\ formIsValid(newViewModel(p)) = FALSE
<1>1. "email" \in Fields(p)
  BY DEF Pages, Fields
<1>2. newViewModel(p)["email"] = Nil
  BY <1>1 DEF newViewModel
<1>3. DOMAIN newViewModel(p) = Fields(p)
  BY DEF newViewModel
<1>4. formIsValid(newViewModel(p)) = FALSE
  BY <1>1, <1>2, <1>3 DEF formIsValid
<1> QED
  BY <1>4, TextsAssumption DEF newText, newViewModel

\* One edited field of a view model that agreed with its text fields.
LEMMA EditedPage ==
  ASSUME NEW p \in Pages, NEW f \in Fields(p), NEW t \in Texts,
         NEW tx \in [Fields(p) -> Texts], NEW vm \in [Fields(p) -> Texts \cup {Nil}],
         \A g \in Fields(p) : vm[g] = tx[g] \/ (vm[g] = Nil /\ tx[g] = Empty)
  PROVE  LET tx2 == [tx EXCEPT ![f] = t]
             vm2 == [vm EXCEPT ![f] = t]
         IN  /\ tx2 \in [Fields(p) -> Texts]
             /\ vm2 \in [Fields(p) -> Texts \cup {Nil}]
             /\ \A g \in Fields(p) : vm2[g] = tx2[g] \/ (vm2[g] = Nil /\ tx2[g] = Empty)
  OBVIOUS

\* A valid view model stands for a page without an empty text field, and an
\* invalid one for a page with one.
LEMMA ValidIffFilled ==
  ASSUME NEW p \in Pages,
         NEW tx \in [Fields(p) -> Texts], NEW vm \in [Fields(p) -> Texts \cup {Nil}],
         \A g \in Fields(p) : vm[g] = tx[g] \/ (vm[g] = Nil /\ tx[g] = Empty)
  PROVE  /\ formIsValid(vm) <=> \A g \in Fields(p) : tx[g] # Empty
         /\ formIsValid(vm) => vm = tx
<1>1. DOMAIN vm = Fields(p)
  OBVIOUS
<1>2. formIsValid(vm) = \A g \in Fields(p) : vm[g] \notin {Nil, Empty}
  BY <1>1 DEF formIsValid
<1>3. \A g \in Fields(p) : vm[g] \notin {Nil, Empty} <=> tx[g] # Empty
  BY TextsAssumption
<1>4. ASSUME formIsValid(vm)
      PROVE  vm = tx
  <2>1. \A g \in Fields(p) : vm[g] = tx[g]
    BY <1>2, <1>4
  <2> QED
    BY <2>1
<1> QED
  BY <1>2, <1>3, <1>4

--------------------------------------------------------------------------------

\* The invariant, page by page.
PageOK(p, tx, vm, en) ==
  /\ tx[p] \in [Fields(p) -> Texts]
  /\ vm[p] \in [Fields(p) -> Texts \cup {Nil}]
  /\ \A f \in Fields(p) : vm[p][f] = tx[p][f] \/ (vm[p][f] = Nil /\ tx[p][f] = Empty)
  /\ en[p] = formIsValid(vm[p])

Shape ==
  /\ page \in Pages
  /\ DOMAIN text = Pages /\ DOMAIN viewModel = Pages
  /\ isEnabled \in [Pages -> BOOLEAN]
  /\ loading \in BOOLEAN /\ asked \in BOOLEAN
  /\ sent = Nil \/ \E p \in Pages : sent \in [page : {p}, values : [Fields(p) -> Texts]]

LEMMA ByPage ==
  /\ IInv <=> Shape /\ \A p \in Pages : PageOK(p, text, viewModel, isEnabled)
  /\ IInv' <=> Shape' /\ \A p \in Pages : PageOK(p, text', viewModel', isEnabled')
  BY DEF IInv, TypeOK, ViewModelAgrees, ButtonAgrees, Shape, PageOK

LEMMA InitIInv == Init => IInv
<1> SUFFICES ASSUME Init PROVE IInv
  OBVIOUS
<1>1. Shape
  BY DEF Init, Shape, Pages
<1>2. ASSUME NEW p \in Pages PROVE PageOK(p, text, viewModel, isEnabled)
  BY <1>2, NewPage DEF Init, PageOK
<1> QED
  BY <1>1, <1>2, ByPage

\* Requests carry texts of the page's fields and change no form.
LEMMA SubmitStep ==
  ASSUME IInv, NEW p \in Pages, NEW values \in [Fields(p) -> Texts], Submit(p, values)
  PROVE  IInv'
<1>1. Shape'
  BY ByPage DEF Submit, Shape
<1>2. \A q \in Pages : PageOK(q, text', viewModel', isEnabled')
  BY ByPage DEF Submit
<1> QED
  BY <1>1, <1>2, ByPage

\* Pages that are made anew.
LEMMA FreshStep ==
  ASSUME IInv, NEW p \in Pages, Fresh(p)
  PROVE  /\ DOMAIN text' = Pages /\ DOMAIN viewModel' = Pages
         /\ isEnabled' \in [Pages -> BOOLEAN]
         /\ \A q \in Pages : PageOK(q, text', viewModel', isEnabled')
<1>1. DOMAIN text' = Pages /\ DOMAIN viewModel' = Pages /\ isEnabled' \in [Pages -> BOOLEAN]
  BY ByPage DEF Fresh, Shape
<1>2. ASSUME NEW q \in Pages PROVE PageOK(q, text', viewModel', isEnabled')
  <2>1. CASE q = p
    <3>1. text'[q] = newText(q) /\ viewModel'[q] = newViewModel(q) /\ isEnabled'[q] = FALSE
      BY <2>1, ByPage DEF Fresh, Shape
    <3> QED
      BY <3>1, NewPage DEF PageOK
  <2>2. CASE q # p
    <3>1. text'[q] = text[q] /\ viewModel'[q] = viewModel[q] /\ isEnabled'[q] = isEnabled[q]
      BY <2>2, ByPage DEF Fresh, Shape
    <3> QED
      BY <3>1, ByPage DEF PageOK
  <2> QED
    BY <2>1, <2>2
<1> QED
  BY <1>1, <1>2

LEMMA NextIInv == IInv /\ [Next]_vars => IInv'
<1> SUFFICES ASSUME IInv, [Next]_vars PROVE IInv'
  OBVIOUS
<1>a. Shape /\ \A p \in Pages : PageOK(p, text, viewModel, isEnabled)
  BY ByPage
<1>1. ASSUME NEW f \in {"email", "password", "fullname"}, NEW t \in Texts, textDidChange(f, t)
      PROVE  IInv'
  <2> DEFINE vm == [viewModel[page] EXCEPT ![f] = t]
             tx == [text[page] EXCEPT ![f] = t]
  <2>1. /\ page \in Pages /\ f \in Fields(page)
        /\ text[page] \in [Fields(page) -> Texts]
        /\ viewModel[page] \in [Fields(page) -> Texts \cup {Nil}]
        /\ \A g \in Fields(page) : \/ viewModel[page][g] = text[page][g]
                                   \/ viewModel[page][g] = Nil /\ text[page][g] = Empty
    BY <1>a, <1>1 DEF textDidChange, Shape, PageOK
  <2>2. /\ tx \in [Fields(page) -> Texts]
        /\ vm \in [Fields(page) -> Texts \cup {Nil}]
        /\ \A g \in Fields(page) : vm[g] = tx[g] \/ (vm[g] = Nil /\ tx[g] = Empty)
    BY <2>1, EditedPage
  <2>3. formIsValid(vm) \in BOOLEAN
    BY DEF formIsValid
  <2>4. /\ text' = [text EXCEPT ![page] = tx]
        /\ viewModel' = [viewModel EXCEPT ![page] = vm]
        /\ isEnabled' = [isEnabled EXCEPT ![page] = formIsValid(vm)]
        /\ UNCHANGED <<page, loading, asked, sent>>
    BY <1>1 DEF textDidChange
  <2> HIDE DEF vm, tx
  <2>5. Shape'
    BY <1>a, <2>3, <2>4 DEF Shape
  <2>6. ASSUME NEW q \in Pages PROVE PageOK(q, text', viewModel', isEnabled')
    <3>1. CASE q = page
      <4>1. text'[q] = tx /\ viewModel'[q] = vm /\ isEnabled'[q] = formIsValid(vm)
        BY <1>a, <2>4, <3>1 DEF Shape
      <4> QED
        BY <4>1, <2>2, <3>1 DEF PageOK
    <3>2. CASE q # page
      <4>1. text'[q] = text[q] /\ viewModel'[q] = viewModel[q] /\ isEnabled'[q] = isEnabled[q]
        BY <1>a, <2>4, <3>2 DEF Shape
      <4> QED
        BY <4>1, <1>a DEF PageOK
    <3> QED
      BY <3>1, <3>2
  <2> QED
    BY <2>5, <2>6, ByPage
<1>2. CASE handleLogin
  <2>1. text["login"] \in [Fields("login") -> Texts] /\ "login" \in Pages
    BY <1>a DEF PageOK, Pages
  <2> QED
    BY <1>2, <2>1, SubmitStep DEF handleLogin
<1>3. CASE handleSignUP
  <2>1. text["register"] \in [Fields("register") -> Texts] /\ "register" \in Pages
    BY <1>a DEF PageOK, Pages
  <2> QED
    BY <1>3, <2>1, SubmitStep DEF handleSignUP
<1>4. CASE handleResetPassword
  <2>0. "reset" \in Pages
    BY DEF Pages
  <2>1. isEnabled["reset"] /\ Submit("reset", viewModel["reset"])
    BY <1>4 DEF handleResetPassword, Submit
  <2>2. viewModel["reset"] = text["reset"] /\ text["reset"] \in [Fields("reset") -> Texts]
    BY <1>a, <2>0, <2>1, ValidIffFilled DEF PageOK
  <2> QED
    BY <2>0, <2>1, <2>2, SubmitStep
<1>5. CASE showForgotPassword
  <2> DEFINE email == text["login"].email
             tx == [newText("reset") EXCEPT !.email = email]
             vm == [newViewModel("reset") EXCEPT !.email = email]
  <2>0. "login" \in Pages /\ "reset" \in Pages /\ "email" \in Fields("login")
        /\ "email" \in Fields("reset")
    BY DEF Pages, Fields
  <2>1. email \in Texts
    BY <1>a, <2>0 DEF PageOK
  <2>2. /\ tx \in [Fields("reset") -> Texts]
        /\ vm \in [Fields("reset") -> Texts \cup {Nil}]
        /\ \A g \in Fields("reset") : vm[g] = tx[g] \/ (vm[g] = Nil /\ tx[g] = Empty)
    <3> HIDE DEF email
    <3>1. /\ newText("reset") \in [Fields("reset") -> Texts]
          /\ newViewModel("reset") \in [Fields("reset") -> Texts \cup {Nil}]
          /\ \A g \in Fields("reset") : newViewModel("reset")[g] = Nil /\ newText("reset")[g] = Empty
      BY <2>0, NewPage
    <3> QED
      BY <2>0, <2>1, <3>1, EditedPage
  <2>3. formIsValid(vm) \in BOOLEAN
    BY DEF formIsValid
  <2>4. /\ text' = [text EXCEPT !["reset"] = tx]
        /\ viewModel' = [viewModel EXCEPT !["reset"] = vm]
        /\ isEnabled' = [isEnabled EXCEPT !["reset"] = formIsValid(vm)]
        /\ page' = "reset" /\ UNCHANGED <<loading, asked, sent>>
    BY <1>5 DEF showForgotPassword, loadEmail
  <2> HIDE DEF vm, tx
  <2>5. Shape'
    BY <1>a, <2>0, <2>3, <2>4 DEF Shape
  <2>6. ASSUME NEW q \in Pages PROVE PageOK(q, text', viewModel', isEnabled')
    <3>1. CASE q = "reset"
      <4>1. text'[q] = tx /\ viewModel'[q] = vm /\ isEnabled'[q] = formIsValid(vm)
        BY <1>a, <2>4, <3>1 DEF Shape
      <4> QED
        BY <4>1, <2>2, <3>1 DEF PageOK
    <3>2. CASE q # "reset"
      <4>1. text'[q] = text[q] /\ viewModel'[q] = viewModel[q] /\ isEnabled'[q] = isEnabled[q]
        BY <1>a, <2>4, <3>2 DEF Shape
      <4> QED
        BY <4>1, <1>a DEF PageOK
    <3> QED
      BY <3>1, <3>2
  <2> QED
    BY <2>5, <2>6, ByPage
<1>6. CASE showRegisterationController
  BY <1>a, <1>6, ByPage DEF showRegisterationController, Shape, Pages
<1>7. CASE goBack
  BY <1>a, <1>7, ByPage, FreshStep DEF goBack, Shape, Pages
<1>8. CASE requestFailed
  BY <1>a, <1>8, ByPage DEF requestFailed, Shape
<1>9. CASE didSendResetPasswordLink
  BY <1>a, <1>9, ByPage, FreshStep DEF didSendResetPasswordLink, Shape, Pages
<1>10. CASE authenticationComplete
  <2>1. Shape'
    BY <1>a, <1>10 DEF authenticationComplete, Shape, Pages
  <2>2. ASSUME NEW q \in Pages PROVE PageOK(q, text', viewModel', isEnabled')
    BY <1>10, NewPage DEF authenticationComplete, PageOK
  <2> QED
    BY <2>1, <2>2, ByPage
<1>11. CASE UNCHANGED vars
  BY <1>a, <1>11, ByPage DEF vars, Shape
<1> QED
  BY <1>1, <1>2, <1>3, <1>4, <1>5, <1>6, <1>7, <1>8, <1>9, <1>10, <1>11 DEF Next

--------------------------------------------------------------------------------

LEMMA Inductive == Spec => []IInv
  BY InitIInv, NextIInv, PTL DEF Spec

\* Fields, view models, buttons and requests stay in range, whatever texts
\* there are.
THEOREM TypeCorrect == Spec => []TypeOK
<1>1. IInv => TypeOK
  BY DEF IInv
<1> QED
  BY <1>1, Inductive, PTL

\* textDidChange and loadEmail keep every view model equal to its text fields.
THEOREM ViewModelsAgree == Spec => []ViewModelAgrees
<1>1. IInv => ViewModelAgrees
  BY DEF IInv
<1> QED
  BY <1>1, Inductive, PTL

\* A button of the login pages is enabled exactly when its form is filled.
THEOREM ButtonsFollowForms == Spec => []EnabledIffFilled
<1>1. IInv => EnabledIffFilled
  BY ByPage, ValidIffFilled DEF PageOK, EnabledIffFilled
<1> QED
  BY <1>1, Inductive, PTL

\* Every request of the login pages, the one for a reset link included, is
\* made of the filled text fields on the screen.
THEOREM RequestsAreShown == Spec => SendsWhatIsShown
<1> DEFINE Sends == sent' # sent =>
                      /\ sent' = [page |-> page, values |-> text[page]]
                      /\ \A f \in Fields(page) : text[page][f] # Empty
<1>1. IInv /\ [Next]_vars => [Sends]_vars
  <2> SUFFICES ASSUME IInv, Next, sent' # sent
               PROVE  /\ sent' = [page |-> page, values |-> text[page]]
                      /\ \A f \in Fields(page) : text[page][f] # Empty
    BY DEF vars
  <2>1. handleLogin \/ handleSignUP \/ handleResetPassword
    BY DEF Next, textDidChange, showForgotPassword, showRegisterationController, goBack,
           requestFailed, didSendResetPasswordLink, authenticationComplete
  <2>2. PICK values : Submit(page, values) /\ values \in {text[page], viewModel[page]}
    BY <2>1 DEF handleLogin, handleSignUP, handleResetPassword, Submit
  <2>3. /\ page \in Pages /\ isEnabled[page]
        /\ sent' = [page |-> page, values |-> values]
    BY <2>2, ByPage DEF Submit, Shape
  <2>4. formIsValid(viewModel[page])
    BY <2>3, ByPage DEF PageOK
  <2>5. viewModel[page] = text[page] /\ \A f \in Fields(page) : text[page][f] # Empty
    BY <2>3, <2>4, ByPage, ValidIffFilled DEF PageOK
  <2> QED
    BY <2>2, <2>3, <2>5
<1>2. Spec => [][Sends]_vars
  BY <1>1, Inductive, PTL DEF Spec
<1> QED
  BY <1>2 DEF SendsWhatIsShown
================================================================================
