SPECIFICATION Spec
CONSTANTS
  Domains <- MCDomains
  Answers <- MCAnswers
  Servers <- MCServers
  Certificates <- MCCertificates
  Urls <- MCUrls
  Starts <- MCStarts
  FinalStatuses = {200, 404}
  Pages <- MCPages
  MaxRedirects = 2
  MaxSkew = 1
  MaxTime = 4
CHECK_DEADLOCK FALSE
INVARIANTS AbsenceIsReal
