SPECIFICATION FairSpec
CONSTANTS
  Gps = Gps
  None = None
  NoCity = NoCity
  Cities = {Paris, Lyon}
  Fuels = {Gazole}
  MaxPosts = 2
INVARIANTS
  TypeOK
  LabelNamesPlace
  ScreenMatchesSession
  PrefsOfTheSession
  ButtonMeansChosen
  ChosenMeansButton
PROPERTIES
  FormComesBack
  SessionIsKept
