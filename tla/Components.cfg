\* Known limits: with one property below instead of the ones of this run, and the values beside
\* it, TLC finds the violation the README describes.
\* MovesTheBranch          folders whose names the engines' LIKE and SUBSTR take for others
\* DecisionsAreRedeemed    a FLAC decision that is refused when it is taken
\* DrawnFormsAreSound      Shapes <- MCBareShapes: a card that no form can save as it is
\* PostgresRestoresWhole   a restore and a destruction under read committed
\* CollectionAnswers       a playlist deleted while the collection is listed
\* ListedAlbumsHaveAPlace, GoneAlbumsAreGone, ArtistNamesAreStable (a PROPERTY)  names of generated folders
\* EditsAreApplied         Stamped = FALSE, MaxWrites = 3: a document written back to what it was (a PROPERTY)
\* TagsAreFound, ScopeIsExact  what the engines' indexes and LIKE match
\* SongsStay               Editors = {c1}, MaxEdits = 1: an entry whose file went away (a PROPERTY)
SPECIFICATION Spec
CONSTANTS
  Sources <- MCTracks
  Clients <- MCClients
  Films <- MCFilms
  Entries = 3
  Times = {0, 1, 5}
  PageSizes = {2}
  Bases <- MCBases
  MaxChanges = 1
  Workers = {r1, r2}
  MaxBegun = 3
  Alphabet = {46, 47, 97, 92, 37, 7}
  MaxSent = 3
  DirNames <- MCDirNames
  MaxPathLen = 6
  Songs = {1}
  AlbumTags = {1}
  Callers = {c1, c2}
  MaxCalls = 2
  Discs = {1, 2}
  ListIds = {1}
  Editors = {c1, c2}
  MaxEdits = 2
  EntryBatch = 2
  Tags <- MCTags
  FileNames <- MCFileNames
  TrackNumbers <- MCTrackNumbers
  MaxPlays = 1
  Tabs = {t1}
  PhoneNames = {"a"}
  Uids = {1}
  Shapes <- MCShapes
  Typing <- MCTyping
  Stamped = TRUE
  MaxWrites = 2
  MaxSaves = 2
  MaxTyped = 1
  Items <- MCItems
  Terms <- MCTerms
  Scopes <- MCScopes
  PageLen = 1
  MaxMeddling = 2
INVARIANTS
  PlansKeepTheirPromises
  ListingsAreComplete
  TransactionsHold
  PathsMeanWhatTheySay
  LibraryAgrees
  SearchesAreWhole
PROPERTIES
  SegmentsAreServed
  SaysWhatWasSaid
  EditsAreApplied
CHECK_DEADLOCK FALSE
