CONSTANT MaxPublications = 5
SPECIFICATION HSpec
INVARIANT CancelledTreeStaysAway
CHECK_DEADLOCK FALSE
