SPECIFICATION Spec
CONSTANTS
  None = None
  ProductOf <- ProductOfSku
  OrderLine <- Lines
  MonthStart <- Months
  Today = 28
  TX <- Transactions
  ORDER <- Orders
  STATEMENT <- StatementsOf
  RETURN <- Returns
  MAX_LIMIT = 2
  Now = 1000
  RULE <- RuleSet
  TaxYearStart = {1, 25}
  Question <- Questions
  Start <- AtStart
  CostWrite <- Costs
  PositionWrite <- Counts
  RunWrite <- Runs
  LinkWrite <- Links
  SalesWrite <- OtherSalesGiven
  Profile <- Profiles
  LowDays = {0, 30}
  InvoiceNumber = {"INV1"}
  MaxWrites = 2
INVARIANTS ScreensAgree DetailEndsAtKept PagingExact SplitKeepsPence
