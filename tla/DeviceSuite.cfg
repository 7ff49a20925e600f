SPECIFICATION Spec
PROPERTIES TasksEnd SessionComesUp FindsDaemon RoutedPlays
\* tasks, runs and bounded histories end
CHECK_DEADLOCK FALSE
