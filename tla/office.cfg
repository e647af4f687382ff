CONSTANTS
  layout = layout
  layout2 = layout2
  notes = notes
  picture = picture
  chart = chart
  drawing = drawing
  diagram = diagram
  remark = remark
  theme = theme
  trash = trash
  Layout = {layout, layout2}
  Notes = {notes}
  Media = {picture}
  Chart = {chart}
  Drawing = {drawing}
  Diagram = {diagram}
  Theme = {theme}
  Unswept = {remark}
  Trash = {trash}
  Original <- MCOriginal
  MaxSlide = 3
  MaxSlideEdits = 3
  Char = {"space", "tab", "newline", "a", "b", "c", "d", "new"}
  Format = {"plain", "bold"}
  Person = {"Jane", "Claude"}
  Documents <- MCDocuments
  CommentId = {1, 2}
  MaxIds = 6
  MaxDocumentEdits = 2
SPECIFICATION Spec
INVARIANTS
  TypeOK
  NothingLeftBehind
  DeclaredPartsExist
  PackedOpens
  CarefulAuthorPacks
  UnpackKeepsText
  PackedRestores
  CommentsAgree
PROPERTIES
  DeckSpec
  CleanEnds
