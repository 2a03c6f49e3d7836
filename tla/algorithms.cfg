SPECIFICATION Spec
CHECK_DEADLOCK FALSE
CONSTANTS
  Refused = Refused
  None = None
  NoFill = NoFill
  NaN = NaN
  Nul = 31
  Reads <- MCReads
  TableReads <- MCTableReads
  PointColumns <- MCPointColumns
  NumericColumns = {"value"}
  NotANumber = NotANumber
  MaxInt32 = 100
  MaxInt64 = 200
  WindowLists <- MCWindowLists
  StoreReads <- MCStoreReads
  Fill = Fill
  WordMax = 100000000
  Cadences <- MCCadences
  TimeAxes <- MCTimeAxes
  NanosPerMicro = 2
  MicrosPerSecond = 2
  SecondsPerMinute = 2
  MinutesPerHour = 2
  HoursPerDay = 4
  I64Max = 6832127
  FloatMax = 6814814
  Routes <- MCRoutes
  Fetches <- MCFetches
  Layouts <- MCLayouts
  Histories <- MCHistories
  Zero = Zero
INVARIANTS
  ReadsAreTheCellsAsked
  WindowsAreTheirOwnReads
  StoreReadsAreTheCellsAsked
  AnchorsAreExact
  TimesAreThoseWritten
  SigningIsStated
  OutcomesAreTheSources
  LayoutIsExact
  ManifestIsTheStore
