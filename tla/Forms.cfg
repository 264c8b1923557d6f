CONSTANTS
  Texts = {Empty, a, b}
  Empty = Empty
  Nil = Nil
SPECIFICATION Spec
INVARIANTS TypeOK EnabledIffFilled
PROPERTIES SendsWhatIsShown
