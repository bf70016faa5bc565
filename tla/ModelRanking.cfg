\* Six configurations, one that fails after its sources were fetched; a program that
\* fails to start stops, hence no deadlock check.
SPECIFICATION FairSpec
CONSTANTS
    Configs <- MCConfigs
    Answers <- MCAnswers
    Inlines <- MCInlines
    Absent = Absent
    Replies <- MCReplies
    NaN = NaN
    MaxChanges = 1
CHECK_DEADLOCK FALSE
INVARIANTS
    RoutedByItsPreferences
PROPERTIES
    RankingFollowsData
    CatchesUp
