SPECIFICATION Spec
CONSTANTS
  a = a  l1 = l1  l2 = l2
  Once = Once
  Members <- OneMember
  Lines <- TwoLines
  LineOf <- OnFirst
  Careful = TRUE
  MaxFd = 2
INVARIANTS DescriptorsApart NoDescriptorLeak AnswersOwnLine
