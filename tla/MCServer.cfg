SPECIFICATION Spec
CONSTANTS
  Clients <- MCClients
  Fds <- MCFds
  Free = Free
  Srv = Srv
  Port = 3
  ReqLines = 2
  Backlog = 2
INVARIANT TypeOK
INVARIANT ListExact
INVARIANT DescriptorsFresh
PROPERTY AnswersRequests
PROPERTY Served
