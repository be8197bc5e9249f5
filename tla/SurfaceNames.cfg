SPECIFICATION NamingSpec
CONSTANTS
  Documents <- MCDocuments
  MaxDocuments = 3
  InputWord = "Input"
INVARIANT DocumentsKeepTheirTypes
