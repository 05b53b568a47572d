SPECIFICATION Spec
CONSTANTS
    HttpThreads = {h1}
    HttpTx = {p1}
    Consumer = consumer
    NoTx = NoTx
    MaxPublished = 2
    MaxPoll = 2
    Retries = 2
INVARIANT TypeOK
INVARIANT CommittedWereHandled
INVARIANT RedeliveredOnlyAfterUnsaved
INVARIANT RowsWereRecorded
INVARIANT LostHttpRowsAreCounted
PROPERTY StreamLossIsAnError
PROPERTY PublishedIsHandled
PROPERTY ImplementsTopicDelivery
