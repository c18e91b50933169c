CONSTANTS
  Jobs = {j1, j2}
  Clients = {c1}
  Worker = worker
  NoJob = nojob
SPECIFICATION FairSpec
INVARIANTS TypeOK LoggedFailureDirties ToldAfterEmitted
PROPERTIES UncleanRetryContaminates ImplementsPromise AcceptedJobFinishes
