\* The columns are named as in schema.prisma; nothing is interrupted.
CONSTANTS
    Deliveries = {d1}
    Workers = {w1}
    MaxAttempts = 3
    DisableAfter = 2
    MaxWorkerInterrupts = 0
    Schemas = {FALSE}
    NoDelivery = NoDelivery
SPECIFICATION FairWebhooksSpec
CHECK_DEADLOCK FALSE
PROPERTIES
    EveryDeliverySettles
