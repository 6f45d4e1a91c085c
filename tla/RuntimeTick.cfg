SPECIFICATION Spec
CONSTANTS
  Machines <- MCMachines
  Nets <- MCNets
  Transitions <- MCTransitions
  Guard <- MCGuard
  Inputs = {0, 1}
  Initial <- MCInitial
  ActiveLists <- MCActiveLists
  Requests <- MCRequests
  Capacity = 4
INVARIANTS ProposalsObeyTheRules RunOrder ActionsSeeEveryCommit
PROPERTIES AcceptedActionsRun ImplementsSynchronous
